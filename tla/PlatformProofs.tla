---------------------------- MODULE PlatformProofs ----------------------------
(***************************************************************************)
(* Theorems about Platform for any set of machines that MachinesAssumption *)
(* describes: any MADT, any interrupt controllers, any tree of PCI buses.  *)
(***************************************************************************)
EXTENDS Platform, FiniteSetTheorems, SequenceTheorems, WellFoundedInduction, TLAPS

USE LinesAssumption, PciAssumption

-----------------------------------------------------------------------------
(* Sequences and sets *)

Distinct(s) == \A m, n \in DOMAIN s : s[m] = s[n] => m = n

(* A sequence without repetition is as long as the set of its elements.    *)
LEMMA DistinctSize ==
  ASSUME NEW S, NEW s \in Seq(S), Distinct(s)
  PROVE  /\ IsFiniteSet(Range(s)) /\ Range(s) \subseteq S
         /\ Cardinality(Range(s)) = Len(s)
  <1> DEFINE n == Len(s)
  <1>1. n \in Nat /\ s \in [1 .. n -> S] /\ DOMAIN s = 1 .. n
    BY LenProperties
  <1> HIDE DEF n
  <1>2. s \in [1 .. n -> Range(s)] /\ Range(s) \subseteq S
    BY <1>1 DEF Range
  <1>3. s \in Injection(1 .. n, Range(s))
    BY <1>1, <1>2 DEF Distinct, Injection, IsInjective
  <1>4. s \in Surjection(1 .. n, Range(s))
    BY <1>1, <1>2 DEF Range, Surjection
  <1>5. IsFiniteSet(1 .. n) /\ Cardinality(1 .. n) = n
    BY <1>1, FS_Interval
  <1> QED
    BY <1>2, <1>3, <1>4, <1>5, FS_Surjection DEF n

LEMMA AppendIs ==
  ASSUME NEW S, NEW s \in Seq(S), NEW x \in S
  PROVE  /\ Append(s, x) \in Seq(S) /\ Append(s, x) # <<>>
         /\ Len(Append(s, x)) = Len(s) + 1 /\ Len(s) \in Nat
         /\ DOMAIN s = 1 .. Len(s) /\ DOMAIN Append(s, x) = 1 .. Len(s) + 1
         /\ \A k \in 1 .. Len(s) : Append(s, x)[k] = s[k]
         /\ Append(s, x)[Len(s) + 1] = x
  BY AppendProperties, LenProperties

LEMMA AppendRange ==
  ASSUME NEW S, NEW s \in Seq(S), NEW x \in S
  PROVE  Range(Append(s, x)) = Range(s) \cup {x}
  <1> DEFINE n == Len(s)
             t == Append(s, x)
  <1>1. /\ n \in Nat /\ DOMAIN s = 1 .. n /\ DOMAIN t = 1 .. n + 1
        /\ \A k \in 1 .. n : t[k] = s[k]
        /\ t[n + 1] = x
    BY AppendIs
  <1> HIDE DEF n, t
  <1>2. 1 .. n + 1 = 1 .. n \cup {n + 1}
    BY <1>1
  <1>3. Range(t) = Range(s) \cup {x}
    BY <1>1, <1>2 DEF Range
  <1> QED
    BY <1>3 DEF t

LEMMA AppendDistinct ==
  ASSUME NEW S, NEW s \in Seq(S), NEW x \in S, Distinct(s), x \notin Range(s)
  PROVE  Distinct(Append(s, x))
  <1> DEFINE n == Len(s)
             t == Append(s, x)
  <1>1. /\ n \in Nat /\ DOMAIN s = 1 .. n /\ DOMAIN t = 1 .. n + 1
        /\ \A k \in 1 .. n : t[k] = s[k]
        /\ t[n + 1] = x
    BY AppendIs
  <1> HIDE DEF n, t
  <1>2. \A k \in 1 .. n + 1 : k \in 1 .. n \/ k = n + 1
    BY <1>1
  <1>3. \A k \in 1 .. n : t[k] # x
    BY <1>1 DEF Range
  <1>4. Distinct(t)
    BY <1>1, <1>2, <1>3 DEF Distinct
  <1> QED
    BY <1>4 DEF t

(* The last element removed, and replaced. *)
Front(s) == SubSeq(s, 1, Len(s) - 1)
WithTop(s, x) == Append(Front(s), x)

LEMMA ReplaceTop ==
  ASSUME NEW S, NEW s \in Seq(S), s # <<>>, NEW x \in S
  PROVE  LET n == Len(s)
         IN  /\ n \in Nat /\ n # 0 /\ DOMAIN s = 1 .. n
             /\ s[n] \in S
             /\ Front(s) \in Seq(S) /\ Len(Front(s)) = n - 1
             /\ DOMAIN Front(s) = 1 .. n - 1
             /\ \A k \in 1 .. n - 1 : Front(s)[k] = s[k]
             /\ WithTop(s, x) \in Seq(S) /\ Len(WithTop(s, x)) = n
             /\ DOMAIN WithTop(s, x) = 1 .. n
             /\ \A k \in 1 .. n - 1 : WithTop(s, x)[k] = s[k]
             /\ WithTop(s, x)[n] = x
  <1> DEFINE n == Len(s)
             front == Front(s)
             t == WithTop(s, x)
             m == Len(front)
  <1>1. n \in Nat /\ DOMAIN s = 1 .. n /\ n # 0
    BY LenProperties, EmptySeq
  <1>2. \A k \in 1 .. n : s[k] \in S
    BY ElementOfSeq
  <1>3. /\ front \in Seq(S) /\ Len(front) = n - 1
        /\ \A k \in 1 .. n - 1 : front[k] = s[k]
    BY <1>1, <1>2, SubSeqProperties DEF Front
  <1>4. /\ t \in Seq(S) /\ Len(t) = m + 1 /\ m \in Nat
        /\ DOMAIN front = 1 .. m /\ DOMAIN t = 1 .. m + 1
        /\ \A k \in 1 .. m : t[k] = front[k]
        /\ t[m + 1] = x
    <2> HIDE DEF front
    <2> QED
      BY <1>3, AppendIs DEF WithTop, front
  <1>5. m = n - 1 /\ m + 1 = n
    BY <1>1, <1>3
  <1>6. n \in 1 .. n
    BY <1>1
  <1> HIDE DEF n, front, t, m
  <1>7. s[n] \in S
    BY <1>2, <1>6
  <1> QED
    BY <1>1, <1>3, <1>4, <1>5, <1>7 DEF n, front, t

-----------------------------------------------------------------------------
(* Types *)

(* Where a call of pciScanBus can be: it looks at other functions than 0   *)
(* only where function 0 says that there are some.                         *)
Frame == {p \in Nat \X (0 .. DevicesPerBus) \X (0 .. Functions - 1) :
            p[3] # 0 => LET first == Place(p[1], p[2], 0)
                        IN  There(first) /\ machine.pci[first].multi}

Phases == {"rsdp", "hpet", "madt", "walk", "mask", "route", "pci", "ahci", "done"}

TypeInv ==
  /\ machine \in Machines
  /\ phase \in Phases /\ broken \in BOOLEAN
  /\ i \in Nat
  /\ entries \in [Types -> Seq(DOMAIN machine.madt)]
  /\ \A t \in Types : Len(entries[t]) <= MaxEntries
  /\ apic \in Nat \ {0} /\ gsi \in Nat
  /\ stack \in Seq(Frame)
  /\ devices \in Seq(DOMAIN machine.pci)

LEMMA MadtFacts ==
  ASSUME machine \in Machines
  PROVE  /\ machine.madt \in Seq(Entry) /\ machine.length \in Nat
         /\ Len(machine.madt) \in Nat /\ DOMAIN machine.madt = 1 .. Len(machine.madt)
         /\ machine.madt = <<>> => machine.length = 0
         /\ \A k \in DOMAIN machine.madt :
              /\ machine.madt[k].type \in Nat /\ machine.madt[k].at \in Nat
              /\ machine.madt[k].size \in Nat /\ machine.madt[k].gsiBase \in Nat
              /\ machine.madt[k].answers \subseteq Nat
              /\ machine.madt[k].at < machine.length /\ (k = 1 => machine.madt[k].at = 0)
              /\ \A j \in DOMAIN machine.madt :
                   j < k => machine.madt[j].at < machine.madt[k].at
              /\ machine.madt[k].type = 1 => machine.madt[k].answers # {}
  <1>1. /\ machine.madt \in Seq(Entry) /\ machine.length \in Nat
        /\ machine.madt = <<>> => machine.length = 0
        /\ \A k \in DOMAIN machine.madt :
             /\ machine.madt[k].at < machine.length /\ (k = 1 => machine.madt[k].at = 0)
             /\ \A j \in DOMAIN machine.madt :
                  j < k => machine.madt[j].at < machine.madt[k].at
             /\ machine.madt[k].type = 1 => machine.madt[k].answers # {}
    BY MachinesAssumption
  <1>2. /\ Len(machine.madt) \in Nat /\ DOMAIN machine.madt = 1 .. Len(machine.madt)
        /\ \A k \in 1 .. Len(machine.madt) : machine.madt[k] \in Entry
    BY <1>1, LenProperties, ElementOfSeq
  <1>3. \A e \in Entry : /\ e.type \in Nat /\ e.at \in Nat /\ e.size \in Nat
                         /\ e.gsiBase \in Nat /\ e.answers \subseteq Nat
    BY DEF Entry
  <1> QED
    BY <1>1, <1>2, <1>3

LEMMA PciFacts ==
  ASSUME machine \in Machines
  PROVE  /\ IsFiniteSet(DOMAIN machine.pci)
         /\ \A p \in DOMAIN machine.pci :
              /\ p \in Nat \X (0 .. DevicesPerBus - 1) \X (0 .. Functions - 1)
              /\ p[1] \in Nat /\ p[2] \in 0 .. DevicesPerBus - 1
              /\ p[3] \in 0 .. Functions - 1 /\ p = <<p[1], p[2], p[3]>>
              /\ machine.pci[p].secondary \in Nat
              /\ machine.pci[p].kind \in {"bridge", "ahci", "vendor", "other"}
  <1>1. /\ IsFiniteSet(DOMAIN machine.pci) /\ machine.pci \in [DOMAIN machine.pci -> Function]
        /\ DOMAIN machine.pci
             \subseteq Nat \X (0 .. DevicesPerBus - 1) \X (0 .. Functions - 1)
    BY MachinesAssumption
  <1>2. \A p \in DOMAIN machine.pci : machine.pci[p] \in Function
    BY <1>1
  <1>3. \A f \in Function : /\ f.secondary \in Nat
                           /\ f.kind \in {"bridge", "ahci", "vendor", "other"}
    BY DEF Function
  <1> QED
    BY <1>1, <1>2, <1>3

LEMMA FrameFacts ==
  ASSUME NEW p \in Frame
  PROVE  /\ p[1] \in Nat /\ p[2] \in 0 .. DevicesPerBus /\ p[3] \in 0 .. Functions - 1
         /\ p = <<p[1], p[2], p[3]>>
         /\ p[3] # 0 => LET first == Place(p[1], p[2], 0)
                        IN  There(first) /\ machine.pci[first].multi
  BY DEF Frame

LEMMA FirstFrame == ASSUME NEW b \in Nat PROVE Place(b, 0, 0) \in Frame
  BY DEF Frame, Place

LEMMA AfterFrame ==
  ASSUME NEW p \in Frame, p[2] < DevicesPerBus
  PROVE  After(p) \in Frame /\ After(p)[1] = p[1]
  <1>1. /\ p[1] \in Nat /\ p[2] \in 0 .. DevicesPerBus /\ p[3] \in 0 .. Functions - 1
    BY FrameFacts
  <1>2. CASE /\ There(Place(p[1], p[2], 0)) /\ machine.pci[Place(p[1], p[2], 0)].multi
             /\ p[3] < Functions - 1
    <2>1. After(p) = <<p[1], p[2], p[3] + 1>> /\ p[3] + 1 \in 0 .. Functions - 1
      BY <1>1, <1>2 DEF After, Place
    <2> QED
      BY <1>1, <1>2, <2>1 DEF Frame, Place
  <1>3. CASE ~ /\ There(Place(p[1], p[2], 0)) /\ machine.pci[Place(p[1], p[2], 0)].multi
               /\ p[3] < Functions - 1
    <2>1. After(p) = <<p[1], p[2] + 1, 0>> /\ p[2] + 1 \in 0 .. DevicesPerBus
      BY <1>1, <1>3 DEF After, Place
    <2> QED
      BY <1>1, <2>1 DEF Frame, Place
  <1> QED
    BY <1>2, <1>3

LEMMA TopFacts ==
  ASSUME TypeInv, stack # <<>>
  PROVE  /\ Top \in Frame /\ Rest = Front(stack)
         /\ \A x : Append(Rest, x) = WithTop(stack, x)
  <1>1. Top \in Frame
    <2>1. stack \in Seq(Frame)
      BY DEF TypeInv
    <2>2. Len(stack) \in 1 .. Len(stack)
      BY <2>1, LenProperties, EmptySeq
    <2> QED
      BY <2>1, <2>2, ElementOfSeq DEF Top
  <1> QED
    BY <1>1 DEF Rest, Front, WithTop

LEMMA InitTypeInv == Init => TypeInv
  <1> SUFFICES ASSUME Init PROVE TypeInv
    OBVIOUS
  <1>1. Place(0, 0, 0) \in Frame
    BY FirstFrame
  <1>2. stack \in Seq(Frame) /\ devices \in Seq(DOMAIN machine.pci)
    BY <1>1 DEF Init
  <1>3. /\ entries \in [Types -> Seq(DOMAIN machine.madt)]
        /\ \A t \in Types : Len(entries[t]) <= MaxEntries
    BY DEF Init
  <1>4. /\ machine \in Machines /\ phase \in Phases /\ broken \in BOOLEAN /\ i \in Nat
        /\ apic \in Nat \ {0} /\ gsi \in Nat
    <2>1. machine \in Machines /\ phase = "rsdp" /\ broken = FALSE
      BY DEF Init
    <2>2. i = 0 /\ apic = 1 /\ gsi = 0
      BY DEF Init
    <2>3. phase \in Phases
      BY <2>1 DEF Phases
    <2>4. broken \in BOOLEAN
      BY ONLY <2>1
    <2>5. i \in Nat /\ apic \in Nat \ {0} /\ gsi \in Nat
      BY <2>2
    <2> QED
      BY <2>1, <2>3, <2>4, <2>5
  <1> QED
    BY <1>2, <1>3, <1>4 DEF TypeInv

LEMMA NextTypeInv == TypeInv /\ [Next]_vars => TypeInv'
  <1> SUFFICES ASSUME TypeInv, [Next]_vars PROVE TypeInv'
    OBVIOUS
  <1>0. machine' = machine
    BY DEF Next, vars, RsdpInit, InitHPET, FindMADT, WalkMADT, WalkEnds, MaskGSI, MaskEnds,
           RouteGSI, RouteEnds, Nobody, Bridge, AddPCIDevice, BusEnds, ScanEnds, InitAHCI
  <1>1. Frame' = Frame
    BY <1>0 DEF Frame, There
  <1>2. CASE UNCHANGED <<i, entries, apicVars, stack, devices>>
             /\ phase' \in Phases /\ broken' \in BOOLEAN
    BY <1>0, <1>1, <1>2 DEF TypeInv, apicVars
  <1>3. CASE RsdpInit \/ InitHPET \/ FindMADT \/ WalkEnds \/ RouteEnds \/ ScanEnds
             \/ InitAHCI \/ UNCHANGED vars
    BY <1>2, <1>3 DEF RsdpInit, InitHPET, FindMADT, WalkEnds, RouteEnds, ScanEnds, InitAHCI,
         vars, acpiVars, apicVars, pciVars, Break, Go, TypeInv, Phases
  <1>4. CASE WalkMADT
    <2>1. UNCHANGED <<apicVars, stack, devices>> /\ phase' = phase
          /\ broken' \in BOOLEAN
      BY <1>4 DEF WalkMADT, apicVars, pciVars, Break, TypeInv
    <2>2. i' \in Nat
      <3>1. ASSUME NEW k \in StartsAt(i), i' = i + Step(machine.madt[k].size)
            PROVE  i' \in Nat
        <4>1. machine.madt[k].size \in Nat
          BY MadtFacts DEF StartsAt, TypeInv
        <4> QED
          BY <3>1, <4>1 DEF Step, TypeInv
      <3> QED
        BY <1>4, <3>1 DEF WalkMADT, TypeInv
    <2>3. /\ entries' \in [Types -> Seq(DOMAIN machine.madt)]
          /\ \A t \in Types : Len(entries'[t]) <= MaxEntries
      <3>1. CASE entries' = entries
        BY <3>1 DEF TypeInv
      <3>2. ASSUME NEW k \in StartsAt(i), NEW t \in Types, Len(entries[t]) # MaxEntries,
                   entries' = [entries EXCEPT ![t] = Append(entries[t], k)]
            PROVE  /\ entries' \in [Types -> Seq(DOMAIN machine.madt)]
                   /\ \A u \in Types : Len(entries'[u]) <= MaxEntries
        <4>1. entries[t] \in Seq(DOMAIN machine.madt) /\ k \in DOMAIN machine.madt
          BY DEF TypeInv, StartsAt
        <4> DEFINE longer == Append(entries[t], k)
        <4>2. /\ longer \in Seq(DOMAIN machine.madt)
              /\ Len(longer) = Len(entries[t]) + 1 /\ Len(entries[t]) \in Nat
          <5> DEFINE S == DOMAIN machine.madt
                     s == entries[t]
          <5>1. s \in Seq(S) /\ k \in S
            BY <4>1
          <5> HIDE DEF S, s
          <5>2. Append(s, k) \in Seq(S) /\ Len(Append(s, k)) = Len(s) + 1 /\ Len(s) \in Nat
            BY <5>1, AppendIs
          <5> QED
            BY <5>2 DEF S, s
        <4>3. longer \in Seq(DOMAIN machine.madt) /\ Len(longer) <= MaxEntries
          <5> HIDE DEF longer
          <5> QED
            BY <3>2, <4>2 DEF TypeInv
        <4> HIDE DEF longer
        <4>4. entries' = [entries EXCEPT ![t] = longer]
          BY <3>2 DEF longer
        <4>5. \A u \in Types : entries'[u] = IF u = t THEN longer ELSE entries[u]
          BY <4>4 DEF TypeInv
        <4> QED
          BY <4>3, <4>4, <4>5 DEF TypeInv
      <3> QED
        BY <1>4, <3>1, <3>2 DEF WalkMADT
    <2> QED
      BY <1>0, <1>1, <2>1, <2>2, <2>3 DEF TypeInv, apicVars
  <1>5. CASE MaskGSI \/ MaskEnds \/ RouteGSI
    <2>1. /\ UNCHANGED <<i, entries, stack, devices>>
          /\ phase' \in Phases /\ broken' \in BOOLEAN
      BY <1>5 DEF MaskGSI, MaskEnds, RouteGSI, RedirectionTable, Break, Go, pciVars, TypeInv,
           Phases
    <2>2. apic' \in Nat \ {0} /\ gsi' \in Nat
      BY <1>5 DEF MaskGSI, MaskEnds, RouteGSI, TypeInv
    <2> QED
      BY <1>0, <1>1, <2>1, <2>2 DEF TypeInv
  <1>6. CASE Nobody \/ Bridge \/ AddPCIDevice \/ BusEnds
    <2>0. stack # <<>> /\ stack \in Seq(Frame)
      BY <1>6 DEF Nobody, Bridge, AddPCIDevice, BusEnds, Scanning, TypeInv
    <2>1. /\ UNCHANGED <<i, entries, apicVars, phase>>
          /\ broken' \in BOOLEAN
      BY <1>6 DEF Nobody, Bridge, AddPCIDevice, BusEnds, pciVars, apicVars, Break, TypeInv
    <2>2. stack' \in Seq(Frame)
      <3>1. Top \in Frame /\ Rest \in Seq(Frame)
            /\ (Top[2] < DevicesPerBus => Append(Rest, After(Top)) \in Seq(Frame))
        <4>1. Front(stack) \in Seq(Frame)
              /\ \A x \in Frame : WithTop(stack, x) \in Seq(Frame)
          BY <2>0, ReplaceTop
        <4> QED
          BY <2>0, <4>1, TopFacts, AfterFrame
      <3>2. ASSUME There(Top), Top[2] < DevicesPerBus
            PROVE  Append(Append(Rest, After(Top)), Place(machine.pci[Top].secondary, 0, 0))
                     \in Seq(Frame)
        <4>1. Place(machine.pci[Top].secondary, 0, 0) \in Frame
          BY <3>2, PciFacts, FirstFrame DEF There, TypeInv
        <4> DEFINE s == Append(Rest, After(Top))
                   x == Place(machine.pci[Top].secondary, 0, 0)
        <4>2. s \in Seq(Frame) /\ x \in Frame
          BY <3>1, <3>2, <4>1
        <4> HIDE DEF s, x
        <4>3. Append(s, x) \in Seq(Frame)
          BY <4>2, AppendIs
        <4> QED
          BY <4>3 DEF s, x
      <3>3. CASE Nobody \/ AddPCIDevice
        <4>1. stack' \in {stack, Append(Rest, After(Top))} /\ Top[2] < DevicesPerBus
          BY <3>3 DEF Nobody, AddPCIDevice, Scanning
        <4> QED
          BY <2>0, <3>1, <4>1
      <3>4. CASE Bridge
        <4>1. /\ Top[2] < DevicesPerBus /\ There(Top)
              /\ \/ stack' = stack
                 \/ stack' = Append(Append(Rest, After(Top)),
                                    Place(machine.pci[Top].secondary, 0, 0))
          BY <3>4 DEF Bridge, Scanning
        <4> QED
          BY <2>0, <3>2, <4>1
      <3>5. CASE BusEnds
        BY <3>1, <3>5 DEF BusEnds
      <3> QED
        BY <1>6, <3>3, <3>4, <3>5
    <2>3. devices' \in Seq(DOMAIN machine.pci)
      <3>1. devices \in Seq(DOMAIN machine.pci)
        BY DEF TypeInv
      <3>2. CASE AddPCIDevice
        <4>1. Top \in DOMAIN machine.pci
              /\ (devices' = devices \/ devices' = Append(devices, Top))
          BY <3>2 DEF AddPCIDevice, There
        <4> QED
          BY <3>1, <4>1, AppendIs
      <3> QED
        BY <1>6, <3>1, <3>2 DEF Nobody, Bridge, BusEnds
    <2> QED
      BY <1>0, <1>1, <2>1, <2>2, <2>3 DEF TypeInv, apicVars
  <1> QED
    BY <1>3, <1>4, <1>5, <1>6 DEF Next

-----------------------------------------------------------------------------
(* The tables of the firmware *)

RootInv ==
  phase # "rsdp" =>
    /\ xsdt = IF machine.root \in {"xsdt", "stale"} THEN machine.root ELSE "null"
    /\ rsdt = IF machine.root = "rsdt" THEN "rsdt" ELSE "null"

LEMMA SameMachine ==
  [Next]_vars => machine' = machine
  BY DEF Next, vars, RsdpInit, InitHPET, FindMADT, WalkMADT, WalkEnds, MaskGSI, MaskEnds,
         RouteGSI, RouteEnds, Nobody, Bridge, AddPCIDevice, BusEnds, ScanEnds, InitAHCI

LEMMA NextRootInv == RootInv /\ [Next]_vars => RootInv'
  <1> SUFFICES ASSUME RootInv, [Next]_vars PROVE RootInv'
    OBVIOUS
  <1>1. machine' = machine
    BY SameMachine
  <1>2. CASE RsdpInit
    BY <1>1, <1>2 DEF RsdpInit, RootInv
  <1>3. CASE ~RsdpInit
    <2>1. UNCHANGED acpiVars
      BY <1>3 DEF Next, vars, InitHPET, FindMADT, WalkMADT, WalkEnds, MaskGSI, MaskEnds,
         RouteGSI, RouteEnds, Nobody, Bridge, AddPCIDevice, BusEnds, ScanEnds, InitAHCI
    <2>2. phase' # phase => phase # "rsdp"
      BY <1>3 DEF Next, vars, InitHPET, FindMADT, WalkMADT, WalkEnds, MaskGSI, MaskEnds, At,
         Scanning, Break, RedirectionTable, RouteGSI, RouteEnds, Nobody, Bridge, AddPCIDevice, BusEnds, ScanEnds, InitAHCI
    <2> QED
      BY <1>1, <2>1, <2>2 DEF RootInv, acpiVars
  <1> QED
    BY <1>2, <1>3

(* A list in the order of the MADT of the entries in S. *)
Lists(s, S) == /\ Range(s) = S
               /\ \A m, n \in DOMAIN s : m < n => s[m] < s[n]

LEMMA ListsNothing == Lists(<<>>, {})
  BY DEF Lists, Range

LEMMA ListsAppend ==
  ASSUME NEW S \in SUBSET Nat, NEW s \in Seq(Nat), Lists(s, S),
         NEW k \in Nat, \A j \in S : j < k
  PROVE  Lists(Append(s, k), S \cup {k})
  <1> DEFINE n == Len(s)
             t == Append(s, k)
  <1>1. /\ n \in Nat /\ DOMAIN s = 1 .. n /\ DOMAIN t = 1 .. n + 1
        /\ \A m \in 1 .. n : t[m] = s[m]
        /\ t[n + 1] = k
    BY AppendIs
  <1>2. Range(t) = Range(s) \cup {k}
    BY AppendRange
  <1> HIDE DEF n, t
  <1>3. \A m \in 1 .. n + 1 : m \in 1 .. n \/ m = n + 1
    BY <1>1
  <1>4. \A m \in 1 .. n : s[m] \in S
    BY <1>1 DEF Lists, Range
  <1>5. ASSUME NEW l \in 1 .. n + 1, NEW m \in 1 .. n + 1, l < m PROVE t[l] < t[m]
    <2>1. CASE m \in 1 .. n
      <3>1. l \in 1 .. n
        BY <1>1, <1>5, <2>1
      <3> QED
        BY <1>1, <1>5, <2>1, <3>1 DEF Lists
    <2>2. CASE m = n + 1
      <3>1. l \in 1 .. n
        BY <1>1, <1>5, <2>2
      <3> QED
        BY <1>1, <1>4, <2>2, <3>1
    <2> QED
      BY <1>3, <2>1, <2>2
  <1>6. Lists(t, S \cup {k})
    BY <1>1, <1>2, <1>5 DEF Lists
  <1> QED
    BY <1>6 DEF t

LEMMA ListsSize ==
  ASSUME NEW S, NEW s \in Seq(Nat), Lists(s, S)
  PROVE  IsFiniteSet(S) /\ Cardinality(S) = Len(s) /\ Len(s) \in Nat
  <1>1. DOMAIN s = 1 .. Len(s) /\ Len(s) \in Nat /\ \A m \in DOMAIN s : s[m] \in Nat
    BY LenProperties, ElementOfSeq
  <1>2. ASSUME NEW m \in DOMAIN s, NEW n \in DOMAIN s, s[m] = s[n] PROVE m = n
    <2>1. m \in Nat /\ n \in Nat /\ s[m] \in Nat /\ s[n] \in Nat
      BY <1>1
    <2>2. ~(m < n) /\ ~(n < m)
      BY <1>2, <2>1 DEF Lists
    <2> QED
      BY <2>1, <2>2
  <1> QED
    BY <1>1, <1>2, DistinctSize DEF Distinct, Lists

(* Where entry k begins, or where the last one ends. *)
StartOf(k) == IF k \in DOMAIN machine.madt THEN machine.madt[k].at ELSE machine.length

(* The walk is at entry k and has the entries before it. *)
ReadUpTo(k) ==
  /\ i = StartOf(k)
  /\ \A t \in Types : Lists(entries[t], {j \in OfType(t) : j < k})

Early == {"rsdp", "hpet", "madt", "walk"}

MadtInv ==
  WellFormed /\ ~broken =>
    /\ phase \in Early => \E k \in 1 .. Len(machine.madt) + 1 : ReadUpTo(k)
    /\ phase \notin Early => \A t \in Types : Lists(entries[t], OfType(t))

LEMMA InitMadtInv == Init => MadtInv
  <1> SUFFICES ASSUME Init PROVE ReadUpTo(1) /\ 1 \in 1 .. Len(machine.madt) + 1
                                 /\ phase \in Early
    BY DEF MadtInv
  <1>1. machine \in Machines /\ i = 0 /\ entries = [t \in Types |-> <<>>] /\ phase = "rsdp"
    BY DEF Init
  <1>2. StartOf(1) = 0 /\ 1 \in 1 .. Len(machine.madt) + 1
    <2>1. CASE machine.madt = <<>>
      BY <1>1, <2>1, MadtFacts DEF StartOf
    <2>2. CASE machine.madt # <<>>
      <3>1. Len(machine.madt) # 0
        BY <1>1, <2>2, MadtFacts, EmptySeq
      <3> QED
        BY <1>1, <3>1, MadtFacts DEF StartOf
    <2> QED
      BY <2>1, <2>2
  <1>3. ASSUME NEW t \in Types PROVE Lists(entries[t], {j \in OfType(t) : j < 1})
    <2>1. {j \in OfType(t) : j < 1} = {}
      BY <1>1, MadtFacts DEF OfType
    <2> QED
      BY <1>1, <2>1, ListsNothing
  <1> QED
    BY <1>1, <1>2, <1>3 DEF ReadUpTo, Early

(* At a well-formed table, the walk stands at an entry, and that alone. *)
LEMMA AtEntry ==
  ASSUME TypeInv, i < machine.length, NEW k \in 1 .. Len(machine.madt) + 1, i = StartOf(k)
  PROVE  k \in DOMAIN machine.madt /\ StartsAt(i) = {k}
  <1>0. machine \in Machines
    BY DEF TypeInv
  <1>1. k \in DOMAIN machine.madt
    BY <1>0, MadtFacts DEF StartOf
  <1>2. i = machine.madt[k].at
    BY <1>1 DEF StartOf
  <1>3. ASSUME NEW j \in DOMAIN machine.madt, machine.madt[j].at = i PROVE j = k
    <2>1. j \in Nat /\ k \in Nat /\ i \in Nat
      BY <1>0, <1>1, MadtFacts DEF TypeInv
    <2>2. ~(j < k) /\ ~(k < j)
      BY <1>0, <1>1, <1>2, <1>3, <2>1, MadtFacts
    <2> QED
      BY <2>1, <2>2
  <1> QED
    BY <1>1, <1>2, <1>3 DEF StartsAt

LEMMA NextEntry ==
  ASSUME TypeInv, WellFormed, NEW k \in DOMAIN machine.madt
  PROVE  StartOf(k) + machine.madt[k].size = StartOf(k + 1)
  <1>0. machine \in Machines
    BY DEF TypeInv
  <1>1. /\ DOMAIN machine.madt = 1 .. Len(machine.madt) /\ Len(machine.madt) \in Nat
        /\ machine.madt[k].at \in Nat /\ machine.madt[k].size \in Nat
        /\ machine.length \in Nat
    BY <1>0, MadtFacts
  <1>2. machine.madt[k].size = EndOf(k) - machine.madt[k].at
    BY DEF WellFormed
  <1>3. CASE k = Len(machine.madt)
    BY <1>1, <1>2, <1>3 DEF EndOf, StartOf
  <1>4. CASE k # Len(machine.madt)
    <2>1. k + 1 \in DOMAIN machine.madt
      BY <1>1, <1>4
    <2>2. machine.madt[k + 1].at \in Nat
      BY <1>0, <2>1, MadtFacts
    <2> QED
      BY <1>1, <1>2, <1>4, <2>1, <2>2 DEF EndOf, StartOf
  <1> QED
    BY <1>3, <1>4

LEMMA SameMadt ==
  ASSUME machine' = machine
  PROVE  /\ WellFormed' = WellFormed /\ LinesCovered' = LinesCovered
         /\ \A t : OfType(t)' = OfType(t)
         /\ \A k : StartOf(k)' = StartOf(k)
  BY DEF WellFormed, EndOf, OfType, LinesCovered, Covered, StartOf

(* A step of the walk over a well-formed table takes the next entry, ... *)
LEMMA WalkReads ==
  ASSUME TypeInv, WellFormed, WalkMADT, ~broken', NEW k \in 1 .. Len(machine.madt) + 1,
         ReadUpTo(k)
  PROVE  k + 1 \in 1 .. Len(machine.madt) + 1 /\ ReadUpTo(k + 1)'
  <1>0. machine \in Machines /\ machine' = machine /\ i < machine.length /\ i = StartOf(k)
    BY DEF TypeInv, WalkMADT, ReadUpTo
  <1>1. k \in DOMAIN machine.madt /\ StartsAt(i) = {k}
    BY <1>0, AtEntry
  <1>2. k \in Nat /\ machine.madt[k].size \in Nat /\ machine.madt[k].type \in Nat
        /\ DOMAIN machine.madt = 1 .. Len(machine.madt) /\ Len(machine.madt) \in Nat
    BY <1>0, <1>1, MadtFacts
  <1> DEFINE T == machine.madt[k].type
  <1>3. /\ i' = i + Step(machine.madt[k].size)
        /\ T \notin Types => entries' = entries
        /\ T \in Types => entries' = [entries EXCEPT ![T] = Append(entries[T], k)]
    BY <1>1 DEF WalkMADT, Break
  <1>4. i' = StartOf(k + 1)
    <2>1. Step(machine.madt[k].size) = machine.madt[k].size
      BY <1>2 DEF Step
    <2> QED
      BY <1>0, <1>1, <1>3, <2>1, NextEntry
  <1>5. ASSUME NEW t \in Types
        PROVE  Lists(entries'[t], {j \in OfType(t) : j < k + 1})
    <2>1. OfType(t) \subseteq Nat /\ \A j \in OfType(t) : j < k + 1 <=> j < k \/ j = k
      BY <1>2 DEF OfType
    <2>2. CASE t # T
      <3>1. k \notin OfType(t)
        BY <2>2 DEF OfType
      <3>2. {j \in OfType(t) : j < k + 1} = {j \in OfType(t) : j < k}
        BY <2>1, <3>1
      <3>3. entries'[t] = entries[t]
        BY <1>3, <2>2 DEF TypeInv
      <3> QED
        BY <3>2, <3>3 DEF ReadUpTo
    <2>3. CASE t = T
      <3> DEFINE S == {j \in OfType(t) : j < k}
                 s == entries[t]
      <3>1. {j \in OfType(t) : j < k + 1} = S \cup {k}
        BY <1>1, <2>1, <2>3 DEF OfType
      <3>2. entries'[t] = Append(s, k)
        BY <1>3, <2>3 DEF TypeInv
      <3>3. s \in Seq(Nat)
        <4>1. s \in Seq(DOMAIN machine.madt)
          BY DEF TypeInv
        <4>2. DOMAIN machine.madt \subseteq Nat
          BY <1>2
        <4> QED
          BY <4>1, <4>2, SeqMonotonic
      <3>4. S \in SUBSET Nat /\ Lists(s, S) /\ \A j \in S : j < k
        BY <2>1 DEF ReadUpTo
      <3> HIDE DEF S, s
      <3>5. Lists(Append(s, k), S \cup {k})
        BY <1>2, <3>3, <3>4, ListsAppend
      <3> QED
        BY <3>1, <3>2, <3>5
    <2> QED
      BY <2>2, <2>3
  <1>6. k + 1 \in 1 .. Len(machine.madt) + 1
    BY <1>1, <1>2
  <1> QED
    BY <1>0, <1>4, <1>5, <1>6, SameMadt DEF ReadUpTo

(* ... and only leaves the arrays when there are more entries than fit. *)
LEMMA WalkBreaks ==
  ASSUME TypeInv, WellFormed, WalkMADT, broken', NEW k \in 1 .. Len(machine.madt) + 1,
         ReadUpTo(k)
  PROVE  \E t \in Types : ~(Cardinality(OfType(t)) <= MaxEntries)
  <1>0. machine \in Machines /\ i < machine.length /\ i = StartOf(k) /\ ~broken
    BY DEF TypeInv, WalkMADT, ReadUpTo, At
  <1>1. k \in DOMAIN machine.madt /\ StartsAt(i) = {k}
    BY <1>0, AtEntry
  <1> DEFINE t == machine.madt[k].type
             S == {j \in OfType(t) : j < k}
             s == entries[t]
  <1>2. t \in Types /\ Len(s) = MaxEntries
    BY <1>0, <1>1 DEF WalkMADT
  <1>3. DOMAIN machine.madt = 1 .. Len(machine.madt) /\ Len(machine.madt) \in Nat
    BY <1>0, MadtFacts
  <1>4. s \in Seq(Nat)
    <2>1. s \in Seq(DOMAIN machine.madt) /\ DOMAIN machine.madt \subseteq Nat
      BY <1>2, <1>3 DEF TypeInv
    <2> QED
      BY <2>1, SeqMonotonic
  <1>5. Lists(s, S)
    BY <1>2 DEF ReadUpTo
  <1>6. IsFiniteSet(OfType(t)) /\ S \subseteq OfType(t) /\ k \in OfType(t) /\ k \notin S
    <2>1. IsFiniteSet(1 .. Len(machine.madt))
      BY <1>3, FS_Interval
    <2>2. OfType(t) \subseteq 1 .. Len(machine.madt)
      BY <1>3 DEF OfType
    <2>3. IsFiniteSet(OfType(t))
      BY <2>1, <2>2, FS_Subset
    <2> QED
      BY <1>1, <1>3, <2>3 DEF OfType
  <1> HIDE DEF S, s, t
  <1>7. Cardinality(S) = MaxEntries
    BY <1>2, <1>4, <1>5, ListsSize
  <1>8. Cardinality(S) <= Cardinality(OfType(t)) /\ Cardinality(S) # Cardinality(OfType(t))
        /\ Cardinality(OfType(t)) \in Nat
    BY <1>6, FS_Subset, FS_CardinalityType
  <1> QED
    BY <1>2, <1>7, <1>8

LEMMA NextMadtInv == TypeInv /\ MadtInv /\ [Next]_vars => MadtInv'
  <1> SUFFICES ASSUME TypeInv, MadtInv, [Next]_vars, WellFormed', ~broken'
               PROVE  /\ phase' \in Early => \E k \in 1 .. Len(machine'.madt) + 1 : ReadUpTo(k)'
                      /\ phase' \notin Early => \A t \in Types : Lists(entries'[t], OfType(t)')
    BY DEF MadtInv
  <1>1. machine' = machine /\ WellFormed /\ \A t : OfType(t)' = OfType(t)
    BY SameMachine, SameMadt
  <1>2. ~broken
    BY DEF Next, vars, RsdpInit, InitHPET, FindMADT, WalkMADT, WalkEnds, MaskGSI, MaskEnds, At,
           Scanning, RouteGSI, RouteEnds, Nobody, Bridge, AddPCIDevice, BusEnds, ScanEnds, InitAHCI
  <1>3. CASE WalkMADT
    <2>1. phase = "walk" /\ phase' = phase
      BY <1>3 DEF WalkMADT, At, Break
    <2>2. PICK k \in 1 .. Len(machine.madt) + 1 : ReadUpTo(k)
      BY <1>1, <1>2, <2>1 DEF MadtInv, Early
    <2>3. k + 1 \in 1 .. Len(machine.madt) + 1 /\ ReadUpTo(k + 1)'
      BY <1>1, <1>3, <2>2, WalkReads
    <2> QED
      BY <1>1, <2>1, <2>3 DEF Early
  <1>4. CASE WalkEnds
    <2>1. phase = "walk" /\ phase' = "mask" /\ i >= machine.length /\ entries' = entries
      BY <1>4 DEF WalkEnds, At, Go
    <2>2. PICK k \in 1 .. Len(machine.madt) + 1 : ReadUpTo(k)
      BY <1>1, <1>2, <2>1 DEF MadtInv, Early
    <2>3. k \notin DOMAIN machine.madt
      <3>1. i = StartOf(k) /\ i \in Nat /\ machine \in Machines
        BY <2>2 DEF ReadUpTo, TypeInv
      <3> QED
        BY <2>1, <3>1, MadtFacts DEF StartOf
    <2>4. \A t : {j \in OfType(t) : j < k} = OfType(t)
      BY <2>2, <2>3, MadtFacts DEF OfType, TypeInv
    <2>5. \A t \in Types : Lists(entries[t], OfType(t))
      BY <2>2, <2>4 DEF ReadUpTo
    <2> QED
      BY <1>1, <2>1, <2>5 DEF Early
  <1>5. CASE ~WalkMADT /\ ~WalkEnds
    <2>1. UNCHANGED <<i, entries>>
      BY <1>5 DEF Next, vars, RsdpInit, InitHPET, FindMADT, MaskGSI, MaskEnds,
           RouteGSI, RouteEnds, Nobody, Bridge, AddPCIDevice, BusEnds, ScanEnds, InitAHCI
    <2>2. phase' \in Early <=> phase \in Early
      <3>1. CASE RsdpInit \/ InitHPET \/ FindMADT
        BY <3>1 DEF RsdpInit, InitHPET, FindMADT, At, Go, Break, Early
      <3>2. CASE ~RsdpInit /\ ~InitHPET /\ ~FindMADT
        <4>1. phase' = phase \/ (phase \in {"mask", "route", "pci", "ahci"}
                                /\ phase' \in {"route", "pci", "ahci", "done"})
          BY <1>5, <3>2 DEF Next, vars, MaskGSI, MaskEnds, At, Scanning, Go, Break,
             RedirectionTable, RouteGSI, RouteEnds, Nobody, Bridge, AddPCIDevice, BusEnds, ScanEnds, InitAHCI
        <4> QED
          BY <4>1 DEF Early
      <3> QED
        BY <3>1, <3>2
    <2>3. \A k : ReadUpTo(k) => ReadUpTo(k)'
      BY <1>1, <2>1, SameMadt DEF ReadUpTo
    <2> QED
      BY <1>1, <1>2, <2>1, <2>2, <2>3 DEF MadtInv
  <1> QED
    BY <1>3, <1>4, <1>5

-----------------------------------------------------------------------------
(* The interrupt lines *)

LEMMA ApicFacts ==
  ASSUME TypeInv, MadtInv, WellFormed, ~broken, phase \notin Early
  PROVE  /\ Range(entries[1]) = OfType(1) /\ DOMAIN entries[1] = Apics
         /\ \A k \in Apics : entries[1][k] \in OfType(1)
  <1>1. 1 \in Types
    BY DEF Types
  <1>2. Lists(entries[1], OfType(1)) /\ entries[1] \in Seq(DOMAIN machine.madt)
    BY <1>1 DEF MadtInv, TypeInv
  <1>3. DOMAIN entries[1] = Apics
    BY <1>2, LenProperties DEF Apics
  <1> QED
    BY <1>2, <1>3 DEF Lists, Range

(* A line that an entry of the MADT covers whatever is read from it is     *)
(* found in the list of I/O APICs.                                         *)
LEMMA CoveredFound ==
  ASSUME TypeInv, MadtInv, WellFormed, ~broken, phase \notin Early,
         NEW g \in Nat, Covered(g)
  PROVE  ~MissesIOAPIC(g)
  <1>1. PICK k \in OfType(1) : \A answer \in machine.madt[k].answers :
                /\ machine.madt[k].gsiBase <= g
                /\ g <= machine.madt[k].gsiBase + answer
    BY DEF Covered
  <1>2. PICK m \in Apics : entries[1][m] = k
    BY <1>1, ApicFacts DEF Range
  <1>3. machine.madt[k].gsiBase \in Nat /\ machine.madt[k].answers \subseteq Nat
    BY <1>1, MadtFacts DEF OfType, TypeInv
  <1>4. \A answer \in GetMaxGSIs(m) : Covers(m, g, answer)
    BY <1>1, <1>2, <1>3 DEF GetMaxGSIs, Covers, Apic
  <1> QED
    BY <1>2, <1>4 DEF MissesIOAPIC

LEMMA SupportedRoutes ==
  ASSUME TypeInv, MadtInv, Supported, ~broken, MaskGSI \/ RouteGSI
  PROVE  ~broken'
  <1>1. WellFormed /\ LinesCovered
    BY DEF Supported
  <1>2. phase \notin Early
    BY DEF MaskGSI, RouteGSI, At, Early
  <1>3. \A g \in Nat : Covered(g) /\ RedirectionTable(g) => ~broken'
    BY <1>1, <1>2, CoveredFound DEF RedirectionTable
  <1>4. CASE MaskGSI
    <2>1. PICK lines \in GetMaxGSIs(apic) :
            LET g == Apic(apic).gsiBase + gsi
            IN  IF g < lines
                THEN RedirectionTable(g) /\ gsi' = gsi + 1 /\ UNCHANGED apic
                ELSE apic' = apic + 1 /\ gsi' = 0 /\ UNCHANGED <<phase, broken>>
      BY <1>4 DEF MaskGSI
    <2>2. apic \in Apics
      BY <1>4 DEF MaskGSI
    <2> DEFINE k == entries[1][apic]
               g == machine.madt[k].gsiBase + gsi
    <2>3. k \in OfType(1)
      BY <1>1, <1>2, <2>2, ApicFacts
    <2>4. /\ machine.madt[k].gsiBase \in Nat /\ machine.madt[k].answers \subseteq Nat
          /\ gsi \in Nat
      BY <2>3, MadtFacts DEF OfType, TypeInv
    <2>5. lines \in machine.madt[k].answers
      BY <2>1 DEF GetMaxGSIs, Apic
    <2>6. CASE g < lines
      <3>1. RedirectionTable(g)
        BY <2>1, <2>6 DEF Apic
      <3>2. g \in machine.madt[k].gsiBase .. lines - 1 /\ g \in Nat
        BY <2>4, <2>5, <2>6
      <3>3. Covered(g)
        BY <1>1, <2>3, <2>5, <3>2 DEF LinesCovered
      <3> QED
        BY <1>3, <3>1, <3>2, <3>3
    <2>7. CASE ~(g < lines)
      BY <2>1, <2>7 DEF Apic
    <2> QED
      BY <2>6, <2>7
  <1>5. CASE RouteGSI
    <2>1. gsi \in 0 .. Lines - 1 /\ gsi \in Nat /\ RedirectionTable(gsi)
      BY <1>5 DEF RouteGSI, TypeInv
    <2> QED
      BY <1>1, <1>3, <2>1 DEF LinesCovered
  <1> QED
    BY <1>4, <1>5

-----------------------------------------------------------------------------
(* The walk over the PCI buses *)

(* A call of pciScanBus that has reached p is past place q of its bus.     *)
Past(p, q) == q[2] < p[2] \/ (q[2] = p[2] /\ q[3] < p[3])

(* With the calls s under way and the buses E entered so far, place q has  *)
(* been looked at.                                                         *)
Passed(s, E, q) == q[1] \in E /\ \A k \in DOMAIN s : s[k][1] = q[1] => Past(s[k], q)

(* No two of the calls are for the same bus. *)
OnePerBus(s) == \A k, l \in DOMAIN s : s[k][1] = s[l][1] => k = l

LEMMA VisibleFacts ==
  ASSUME machine \in Machines, NEW q \in Visible
  PROVE  /\ q \in DOMAIN machine.pci /\ q[1] \in Nat
         /\ q[2] \in 0 .. DevicesPerBus - 1 /\ q[3] \in 0 .. Functions - 1
         /\ q = <<q[1], q[2], q[3]>>
         /\ q[3] # 0 => LET first == Place(q[1], q[2], 0)
                        IN  There(first) /\ machine.pci[first].multi
  <1>1. q \in DOMAIN machine.pci
    BY DEF Visible
  <1>2. /\ q[1] \in Nat /\ q[2] \in 0 .. DevicesPerBus - 1 /\ q[3] \in 0 .. Functions - 1
        /\ q = <<q[1], q[2], q[3]>>
    BY <1>1, PciFacts
  <1>3. \/ q = Place(q[1], q[2], 0)
        \/ There(Place(q[1], q[2], 0)) /\ machine.pci[Place(q[1], q[2], 0)].multi
    BY DEF Visible
  <1>4. q = Place(q[1], q[2], 0) => q[3] = 0
    BY DEF Place
  <1> QED
    BY <1>1, <1>2, <1>3, <1>4

(* One iteration of the loops passes the place it looks at and no other    *)
(* that is visible.                                                        *)
LEMMA AfterPasses ==
  ASSUME machine \in Machines, NEW p \in Frame, p[2] < DevicesPerBus,
         NEW q \in Visible, q[1] = p[1]
  PROVE  Past(After(p), q) <=> Past(p, q) \/ q = p
  <1> DEFINE first == Place(p[1], p[2], 0)
             more == There(first) /\ machine.pci[first].multi
  <1>1. /\ p[2] \in 0 .. DevicesPerBus /\ p[3] \in 0 .. Functions - 1
        /\ p = <<p[1], p[2], p[3]>> /\ (p[3] # 0 => more)
    BY FrameFacts
  <1>2. /\ q[2] \in 0 .. DevicesPerBus - 1 /\ q[3] \in 0 .. Functions - 1
        /\ q = <<q[1], q[2], q[3]>> /\ (q[3] # 0 /\ q[2] = p[2] => more)
    BY VisibleFacts
  <1>3. q = p <=> q[2] = p[2] /\ q[3] = p[3]
    BY <1>1, <1>2
  <1> HIDE DEF first, more
  <1>4. CASE more /\ p[3] < Functions - 1
    <2>1. After(p) = <<p[1], p[2], p[3] + 1>>
      BY <1>4 DEF After, Place, more, first
    <2>2. After(p)[2] = p[2] /\ After(p)[3] = p[3] + 1
      BY <2>1
    <2> QED
      BY <1>1, <1>2, <1>3, <2>2 DEF Past
  <1>5. CASE ~(more /\ p[3] < Functions - 1)
    <2>1. After(p) = <<p[1], p[2] + 1, 0>>
      BY <1>5 DEF After, Place, more, first
    <2>2. After(p)[2] = p[2] + 1 /\ After(p)[3] = 0
      BY <2>1
    <2>3. q[2] = p[2] => q[3] <= p[3]
      BY <1>1, <1>2, <1>5
    <2> QED
      BY <1>1, <1>2, <1>3, <2>2, <2>3 DEF Past
  <1> QED
    BY <1>4, <1>5

LEMMA NotPastItself == ASSUME NEW p \in Frame PROVE ~Past(p, p)
  BY FrameFacts DEF Past

(* The call on top goes on, ... *)
LEMMA MovePasses ==
  ASSUME machine \in Machines, NEW s \in Seq(Frame), s # <<>>, OnePerBus(s), NEW E,
         NEW p, p = s[Len(s)], p[2] < DevicesPerBus, p[1] \in E,
         NEW t, t = WithTop(s, After(p))
  PROVE  /\ t \in Seq(Frame) /\ DOMAIN t = DOMAIN s
         /\ \A k \in DOMAIN s : t[k][1] = s[k][1]
         /\ \A q \in Visible : Passed(t, E, q) <=> Passed(s, E, q) \/ q = p
         /\ ~Passed(s, E, p)
  <1> DEFINE n == Len(s)
             x == After(p)
  <1>t. t = WithTop(s, x)
    OBVIOUS
  <1>1. /\ n \in Nat /\ n # 0 /\ DOMAIN s = 1 .. n /\ p \in Frame
    BY ReplaceTop, FirstFrame
  <1>2. x \in Frame /\ x[1] = p[1]
    BY <1>1, AfterFrame
  <1> HIDE DEF x
  <1>3. /\ t \in Seq(Frame) /\ DOMAIN t = 1 .. n
        /\ \A k \in 1 .. n - 1 : t[k] = s[k]
        /\ t[n] = x
    <2>1. LET u == WithTop(s, x)
          IN  /\ u \in Seq(Frame) /\ DOMAIN u = 1 .. n
              /\ \A k \in 1 .. n - 1 : u[k] = s[k]
              /\ u[n] = x
      BY <1>2, ReplaceTop
    <2> QED
      BY <1>t, <2>1
  <1>a. s[n] = p
    OBVIOUS
  <1> HIDE DEF n
  <1>5. n \in 1 .. n /\ s[n] = p /\ \A k \in 1 .. n : k = n \/ k \in 1 .. n - 1
    BY <1>1, <1>a
  <1>6. \A k \in 1 .. n : t[k][1] = s[k][1]
    BY <1>2, <1>3, <1>5
  <1>7. ASSUME NEW q \in Visible PROVE Passed(t, E, q) <=> Passed(s, E, q) \/ q = p
    <2>1. CASE q[1] = p[1]
      <3>1. \A k \in 1 .. n : s[k][1] = q[1] <=> k = n
        BY <1>1, <1>5, <2>1 DEF OnePerBus
      <3>2. Passed(s, E, q) <=> Past(p, q)
        BY <1>1, <1>5, <2>1, <3>1 DEF Passed
      <3>3. Passed(t, E, q) <=> Past(After(p), q)
        BY <1>1, <1>3, <1>5, <1>6, <2>1, <3>1 DEF Passed, x
      <3> QED
        BY <1>1, <2>1, <3>2, <3>3, AfterPasses
    <2>2. CASE q[1] # p[1]
      <3>1. \A k \in 1 .. n : s[k][1] = q[1] => t[k] = s[k]
        BY <1>3, <1>5, <2>2
      <3>2. Passed(t, E, q) <=> Passed(s, E, q)
        BY <1>1, <1>3, <1>6, <3>1 DEF Passed
      <3> QED
        BY <2>2, <3>2
    <2> QED
      BY <2>1, <2>2
  <1>8. ~Passed(s, E, p)
    BY <1>1, <1>5, NotPastItself DEF Passed
  <1> QED
    BY <1>1, <1>3, <1>6, <1>7, <1>8

(* ... calls itself for a bus that was not entered yet, ... *)
Calling(s, b) == Append(s, Place(b, 0, 0))

LEMMA PushPasses ==
  ASSUME machine \in Machines, NEW s \in Seq(Frame), OnePerBus(s), NEW E,
         \A k \in DOMAIN s : s[k][1] \in E, NEW b \in Nat, b \notin E,
         NEW t, t = Calling(s, b), NEW F, F = E \cup {b}
  PROVE  /\ t # <<>> /\ OnePerBus(t) /\ \A k \in DOMAIN t : t[k][1] \in F
         /\ \A q \in Visible : Passed(t, F, q) <=> Passed(s, E, q)
  <1> DEFINE n == Len(s)
             f == Place(b, 0, 0)
  <1>1. f \in Frame /\ f[1] = b /\ f[2] = 0 /\ f[3] = 0
    BY FirstFrame DEF Place
  <1>t. t = Append(s, f)
    BY DEF Calling
  <1> HIDE DEF f
  <1>2. /\ t # <<>> /\ n \in Nat /\ DOMAIN s = 1 .. n /\ DOMAIN t = 1 .. n + 1
        /\ \A k \in 1 .. n : t[k] = s[k]
        /\ t[n + 1] = f
    BY <1>1, <1>t, AppendIs
  <1> HIDE DEF n
  <1>3. n + 1 \in 1 .. n + 1 /\ (\A k \in 1 .. n + 1 : k \in 1 .. n \/ k = n + 1)
        /\ \A k \in 1 .. n : k \in 1 .. n + 1
    BY <1>2
  <1>4. OnePerBus(t) /\ \A k \in DOMAIN t : t[k][1] \in F
    BY <1>1, <1>2, <1>3 DEF OnePerBus
  <1>5. ASSUME NEW q \in Visible PROVE Passed(t, F, q) <=> Passed(s, E, q)
    <2>1. CASE q[1] = b
      <3>1. ~Past(f, q)
        BY <1>1, VisibleFacts DEF Past
      <3> QED
        BY <1>1, <1>2, <1>3, <2>1, <3>1 DEF Passed
    <2>2. CASE q[1] # b
      BY <1>1, <1>2, <1>3, <2>2 DEF Passed
    <2> QED
      BY <2>1, <2>2
  <1> QED
    BY <1>2, <1>4, <1>5

(* ... or is done with its bus. *)
LEMMA PopPasses ==
  ASSUME machine \in Machines, NEW s \in Seq(Frame), s # <<>>, OnePerBus(s), NEW E,
         s[Len(s)][2] = DevicesPerBus
  PROVE  LET t == Front(s)
         IN  /\ OnePerBus(t)
             /\ DOMAIN t \subseteq DOMAIN s /\ \A k \in DOMAIN t : t[k] = s[k]
             /\ \A q \in Visible : Passed(t, E, q) <=> Passed(s, E, q)
  <1> DEFINE n == Len(s)
             t == Front(s)
  <1>1. /\ n \in Nat /\ n # 0 /\ DOMAIN s = 1 .. n
        /\ DOMAIN t = 1 .. n - 1 /\ \A k \in 1 .. n - 1 : t[k] = s[k]
    BY ReplaceTop, FirstFrame
  <1>a. s[n][2] = DevicesPerBus
    OBVIOUS
  <1> HIDE DEF t, n
  <1>2. s[n][2] = DevicesPerBus /\ (\A k \in 1 .. n : k = n \/ k \in 1 .. n - 1)
        /\ \A k \in 1 .. n - 1 : k \in 1 .. n
    BY <1>1, <1>a
  <1>3. ASSUME NEW q \in Visible PROVE Passed(t, E, q) <=> Passed(s, E, q)
    <2>1. Past(s[n], q)
      BY <1>2, VisibleFacts DEF Past
    <2> QED
      BY <1>1, <1>2, <2>1 DEF Passed
  <1> QED
    BY <1>1, <1>2, <1>3 DEF OnePerBus, t

Behind(p) == machine.pci[p].secondary

LEMMA BusFacts ==
  ASSUME machine \in Machines
  PROVE  /\ 0 \in Buses /\ Buses \subseteq AllBuses /\ Buses \subseteq Nat
         /\ \A p \in Bridges : p[1] \in Buses => Behind(p) \in Buses
         /\ \A B \in SUBSET AllBuses : Closed(B) => Buses \subseteq B
         /\ IsFiniteSet(Buses) /\ IsFiniteSet(Present)
         /\ \A p \in Bridges : p \in Visible /\ Behind(p) \in Nat /\ Behind(p) \in AllBuses
  <1>1. IsFiniteSet(Visible) /\ IsFiniteSet(Bridges) /\ IsFiniteSet(Present)
    <2>1. IsFiniteSet(DOMAIN machine.pci)
      BY PciFacts
    <2>2. /\ Visible \subseteq DOMAIN machine.pci /\ Bridges \subseteq DOMAIN machine.pci
          /\ Present \subseteq DOMAIN machine.pci
      BY DEF Visible, Bridges, Present
    <2> QED
      BY <2>1, <2>2, FS_Subset
  <1>2. \A p \in Bridges : p \in Visible /\ Behind(p) \in Nat /\ Behind(p) \in AllBuses
    BY PciFacts DEF Bridges, Visible, AllBuses, Behind
  <1>3. AllBuses = {0} \cup {Behind(p) : p \in Bridges} /\ AllBuses \subseteq Nat
    BY <1>2 DEF AllBuses, Behind
  <1>4. IsFiniteSet(AllBuses)
    <2> DEFINE R == {Behind(p) : p \in Bridges}
               f == [p \in Bridges |-> Behind(p)]
    <2>1. f \in Surjection(Bridges, R)
      BY DEF Surjection
    <2>2. IsFiniteSet(R)
      BY <1>1, <2>1, FS_Surjection
    <2>3. IsFiniteSet(R \cup {0})
      BY <2>2, FS_AddElement
    <2>4. R \cup {0} = AllBuses
      BY <1>3
    <2> QED
      BY <2>3, <2>4
  <1>5. \A B \in SUBSET AllBuses : Closed(B) => Buses \subseteq B
    BY DEF Buses
  <1>6. 0 \in Buses
    BY <1>3 DEF Buses, Closed
  <1>7. ASSUME NEW p \in Bridges, p[1] \in Buses PROVE Behind(p) \in Buses
    BY <1>2, <1>7 DEF Buses, Closed, Behind
  <1>8. Buses \subseteq AllBuses
    BY DEF Buses
  <1>9. IsFiniteSet(Buses)
    BY <1>4, <1>8, FS_Subset
  <1> QED
    BY <1>1, <1>2, <1>3, <1>5, <1>6, <1>7, <1>8, <1>9

(* The buses entered so far are E: bus 0 and those behind the bridges that *)
(* were passed; the list has the functions that were passed, once each.    *)
Entered(E) ==
  /\ 0 \in E /\ E \subseteq Buses
  /\ OnePerBus(stack) /\ \A k \in DOMAIN stack : stack[k][1] \in E
  /\ \A b \in E \ {0} : \E p \in Bridges : Passed(stack, E, p) /\ Behind(p) = b
  /\ \A p \in Bridges : Passed(stack, E, p) => Behind(p) \in E
  /\ Range(devices) = {p \in Visible \ Bridges : Passed(stack, E, p)}
  /\ Distinct(devices)

ScanInv ==
  /\ ATree /\ ~broken => \E E : Entered(E)
  /\ phase \in {"ahci", "done"} => stack = <<>>

LEMMA SamePci ==
  ASSUME machine' = machine
  PROVE  /\ ATree' = ATree /\ Buses' = Buses /\ Visible' = Visible /\ Bridges' = Bridges
         /\ Present' = Present /\ Frame' = Frame
         /\ \A p : Behind(p)' = Behind(p)
  BY DEF ATree, Buses, AllBuses, Closed, Visible, Bridges, Present, Frame, There, Behind

LEMMA InitScanInv == Init => ScanInv
  <1> SUFFICES ASSUME Init PROVE Entered({0})
    BY DEF ScanInv, Init
  <1>1. machine \in Machines /\ stack = <<Place(0, 0, 0)>> /\ devices = <<>>
    BY DEF Init
  <1>2. /\ DOMAIN stack = {1} /\ stack[1][1] = 0 /\ stack[1][2] = 0 /\ stack[1][3] = 0
    BY <1>1 DEF Place
  <1>3. \A p \in Visible : ~Passed(stack, {0}, p)
    BY <1>1, <1>2, VisibleFacts DEF Passed, Past
  <1>4. \A p \in Bridges : p \in Visible
    BY DEF Bridges
  <1>5. Range(devices) = {} /\ Distinct(devices)
    BY <1>1 DEF Range, Distinct
  <1> QED
    BY <1>1, <1>2, <1>3, <1>4, <1>5, BusFacts DEF Entered, OnePerBus

(* A bus is entered through one bridge and once. *)
LEMMA NewBus ==
  ASSUME TypeInv, ATree, NEW E, Entered(E), stack # <<>>, Top \in Bridges
  PROVE  /\ Behind(Top) \in Buses /\ Behind(Top) \notin E /\ Top[1] \in E
         /\ ~Passed(stack, E, Top)
  <1>0. machine \in Machines /\ stack \in Seq(Frame) /\ Top \in Frame
    BY TopFacts DEF TypeInv
  <1>1. Len(stack) \in DOMAIN stack /\ Top = stack[Len(stack)]
    BY <1>0, LenProperties, EmptySeq DEF Top
  <1>2. Top[1] \in E /\ E \subseteq Buses
    BY <1>1 DEF Entered
  <1>3. ~Passed(stack, E, Top)
    BY <1>0, <1>1, NotPastItself DEF Passed
  <1>4. ASSUME Behind(Top) \in E PROVE FALSE
    <2>1. Behind(Top) # 0
      BY <1>2 DEF ATree, Behind
    <2>2. PICK p \in Bridges : Passed(stack, E, p) /\ Behind(p) = Behind(Top)
      BY <1>4, <2>1 DEF Entered
    <2>3. p[1] \in Buses
      BY <1>2, <2>2 DEF Passed
    <2>4. p = Top
      BY <1>2, <2>2, <2>3 DEF ATree, Behind
    <2> QED
      BY <1>3, <2>2, <2>4
  <1> QED
    BY <1>0, <1>2, <1>3, <1>4, BusFacts

(* What looking at one more place does to the buses entered and the list.  *)
LEMMA TopMoves ==
  ASSUME TypeInv, NEW E, Entered(E), Scanning
  PROVE  LET t == Append(Rest, After(Top))
         IN  /\ t \in Seq(Frame) /\ DOMAIN t = DOMAIN stack
             /\ OnePerBus(t) /\ \A k \in DOMAIN t : t[k][1] \in E
             /\ \A q \in Visible : Passed(t, E, q) <=> Passed(stack, E, q) \/ q = Top
             /\ ~Passed(stack, E, Top) /\ Top[1] \in E
             /\ There(Top) => Top \in Visible
  <1>0. machine \in Machines /\ stack \in Seq(Frame) /\ stack # <<>> /\ Top \in Frame
        /\ Top[2] < DevicesPerBus
    BY TopFacts DEF TypeInv, Scanning
  <1>1. Len(stack) \in DOMAIN stack /\ Top = stack[Len(stack)]
    BY <1>0, LenProperties, EmptySeq DEF Top
  <1>2. OnePerBus(stack) /\ Top[1] \in E /\ \A k \in DOMAIN stack : stack[k][1] \in E
    BY <1>1 DEF Entered
  <1> DEFINE t == Append(Rest, After(Top))
  <1>3. t = WithTop(stack, After(Top))
    BY <1>0, TopFacts
  <1> HIDE DEF t
  <1>4. /\ t \in Seq(Frame) /\ DOMAIN t = DOMAIN stack
        /\ \A k \in DOMAIN stack : t[k][1] = stack[k][1]
        /\ \A q \in Visible : Passed(t, E, q) <=> Passed(stack, E, q) \/ q = Top
        /\ ~Passed(stack, E, Top)
    <2> DEFINE p == Top
               s == stack
    <2>1. /\ machine \in Machines /\ s \in Seq(Frame) /\ s # <<>> /\ OnePerBus(s)
          /\ p = s[Len(s)] /\ p[2] < DevicesPerBus /\ p[1] \in E
          /\ t = WithTop(s, After(p))
      BY <1>0, <1>1, <1>2, <1>3
    <2> HIDE DEF p, s
    <2>2. /\ t \in Seq(Frame) /\ DOMAIN t = DOMAIN s
          /\ \A k \in DOMAIN s : t[k][1] = s[k][1]
          /\ \A q \in Visible : Passed(t, E, q) <=> Passed(s, E, q) \/ q = p
          /\ ~Passed(s, E, p)
      BY <2>1, MovePasses
    <2> QED
      BY <2>2 DEF p, s
  <1>5. OnePerBus(t) /\ \A k \in DOMAIN t : t[k][1] \in E
    BY <1>2, <1>4 DEF OnePerBus
  <1>6. There(Top) => Top \in Visible
    BY <1>0, FrameFacts DEF There, Visible, Place
  <1> QED
    BY <1>2, <1>4, <1>5, <1>6 DEF t

LEMMA NobodyScans ==
  ASSUME TypeInv, ATree, NEW E, Entered(E), Nobody
  PROVE  Entered(E)'
  <1>0. /\ machine' = machine /\ devices' = devices /\ Scanning /\ ~There(Top)
        /\ stack' = Append(Rest, After(Top))
    BY DEF Nobody
  <1>1. Top \notin Visible
    BY <1>0 DEF Visible, There
  <1>2. /\ OnePerBus(stack') /\ \A k \in DOMAIN stack' : stack'[k][1] \in E
        /\ \A q \in Visible : Passed(stack', E, q) <=> Passed(stack, E, q)
    BY <1>0, <1>1, TopMoves
  <1>3. Bridges \subseteq Visible
    BY DEF Bridges
  <1>4. \A p \in Bridges : Passed(stack', E, p) <=> Passed(stack, E, p)
    BY <1>2, <1>3
  <1>5. {p \in Visible \ Bridges : Passed(stack', E, p)}
          = {p \in Visible \ Bridges : Passed(stack, E, p)}
    BY <1>2
  <1> QED
    BY <1>0, <1>2, <1>4, <1>5, SamePci DEF Entered

LEMMA DeviceScans ==
  ASSUME TypeInv, ATree, NEW E, Entered(E), AddPCIDevice, ~broken'
  PROVE  Entered(E)'
  <1>0. /\ machine' = machine /\ Scanning /\ There(Top) /\ devices' = Append(devices, Top)
        /\ stack' = Append(Rest, After(Top)) /\ machine.pci[Top].kind # "bridge"
    BY DEF AddPCIDevice, Break
  <1>1. /\ OnePerBus(stack') /\ \A k \in DOMAIN stack' : stack'[k][1] \in E
        /\ \A q \in Visible : Passed(stack', E, q) <=> Passed(stack, E, q) \/ q = Top
        /\ ~Passed(stack, E, Top) /\ Top \in Visible
    BY <1>0, TopMoves
  <1>2. Top \notin Bridges /\ Bridges \subseteq Visible
    BY <1>0 DEF Bridges
  <1>3. \A p \in Bridges : Passed(stack', E, p) <=> Passed(stack, E, p)
    BY <1>1, <1>2
  <1>4. {p \in Visible \ Bridges : Passed(stack', E, p)}
          = {p \in Visible \ Bridges : Passed(stack, E, p)} \cup {Top}
    BY <1>1, <1>2
  <1>5. devices \in Seq(DOMAIN machine.pci) /\ Top \in DOMAIN machine.pci
    BY <1>0 DEF TypeInv, There
  <1>6. Range(devices') = Range(devices) \cup {Top}
    BY <1>0, <1>5, AppendRange
  <1>7. Top \notin Range(devices) /\ Distinct(devices)
    BY <1>1 DEF Entered
  <1>8. Distinct(devices')
    BY <1>0, <1>5, <1>7, AppendDistinct
  <1>9. Range(devices') = {p \in Visible \ Bridges : Passed(stack', E, p)}
    BY <1>4, <1>6 DEF Entered
  <1> QED
    BY <1>0, <1>1, <1>3, <1>8, <1>9, SamePci DEF Entered

LEMMA BridgeScans ==
  ASSUME TypeInv, ATree, NEW E, Entered(E), Bridge, ~broken',
         NEW F, F = E \cup {Behind(Top)}
  PROVE  Entered(F)'
  <1> DEFINE b == Behind(Top)
             t == Append(Rest, After(Top))
  <1>f. F = E \cup {b}
    OBVIOUS
  <1>0. /\ machine' = machine /\ devices' = devices /\ Scanning /\ There(Top)
        /\ machine.pci[Top].kind = "bridge" /\ machine \in Machines
        /\ stack' = Append(t, Place(b, 0, 0)) /\ stack # <<>>
    BY DEF Bridge, Break, Behind, TypeInv, Scanning
  <1>1. /\ t \in Seq(Frame) /\ OnePerBus(t) /\ \A k \in DOMAIN t : t[k][1] \in E
        /\ \A q \in Visible : Passed(t, E, q) <=> Passed(stack, E, q) \/ q = Top
        /\ ~Passed(stack, E, Top) /\ Top \in Visible
    BY <1>0, TopMoves
  <1>2. Top \in Bridges /\ Bridges \subseteq Visible
    BY <1>0, <1>1 DEF Bridges
  <1>3. b \in Buses /\ b \notin E /\ b \in Nat
    BY <1>0, <1>2, NewBus, BusFacts
  <1> HIDE DEF b, t
  <1>4. /\ OnePerBus(stack') /\ \A k \in DOMAIN stack' : stack'[k][1] \in F
        /\ \A q \in Visible : Passed(stack', F, q) <=> Passed(t, E, q)
    <2> DEFINE u == stack'
    <2>1. /\ machine \in Machines /\ t \in Seq(Frame) /\ OnePerBus(t)
          /\ \A k \in DOMAIN t : t[k][1] \in E
          /\ b \in Nat /\ b \notin E
      BY <1>0, <1>1, <1>3
    <2>2. u = Calling(t, b) /\ F = E \cup {b}
      BY <1>0, <1>f DEF Calling
    <2> HIDE DEF u
    <2>3. /\ OnePerBus(u) /\ \A k \in DOMAIN u : u[k][1] \in F
          /\ \A q \in Visible : Passed(u, F, q) <=> Passed(t, E, q)
      BY <2>1, <2>2, PushPasses
    <2> QED
      BY <2>3 DEF u
  <1>5. \A q \in Visible : Passed(stack', F, q) <=> Passed(stack, E, q) \/ q = Top
    BY <1>1, <1>4
  <1>6. 0 \in F /\ F \subseteq Buses
    BY <1>3, <1>f DEF Entered
  <1>7. ASSUME NEW x \in F \ {0}
        PROVE  \E p \in Bridges : Passed(stack', F, p) /\ Behind(p) = x
    <2>1. CASE x \in E
      <3>1. PICK p \in Bridges : Passed(stack, E, p) /\ Behind(p) = x
        BY <1>7, <2>1 DEF Entered
      <3> QED
        BY <1>2, <1>5, <3>1
    <2>2. CASE x = b
      BY <1>2, <1>5, <2>2 DEF b
    <2> QED
      BY <1>f, <2>1, <2>2
  <1>8. ASSUME NEW p \in Bridges, Passed(stack', F, p) PROVE Behind(p) \in F
    BY <1>2, <1>5, <1>8, <1>f DEF Entered, b
  <1>9. {p \in Visible \ Bridges : Passed(stack', F, p)}
          = {p \in Visible \ Bridges : Passed(stack, E, p)}
    BY <1>2, <1>5
  <1>10. Range(devices') = {p \in Visible \ Bridges : Passed(stack', F, p)}
    BY <1>0, <1>9 DEF Entered
  <1>11. Distinct(devices')
    BY <1>0 DEF Entered
  <1>12. /\ Buses' = Buses /\ Visible' = Visible /\ Bridges' = Bridges
         /\ \A p : Behind(p)' = Behind(p)
    BY <1>0, SamePci
  <1>13. \A x \in F \ {0} : \E p \in Bridges' : Passed(stack', F, p) /\ Behind(p)' = x
    BY <1>7, <1>12
  <1>14. \A p \in Bridges' : Passed(stack', F, p) => Behind(p)' \in F
    BY <1>8, <1>12
  <1>15. Range(devices') = {p \in Visible' \ Bridges' : Passed(stack', F, p)}
    BY <1>10, <1>12
  <1> QED
    BY <1>4, <1>6, <1>11, <1>12, <1>13, <1>14, <1>15 DEF Entered

LEMMA BusEndsScans ==
  ASSUME TypeInv, NEW E, Entered(E), BusEnds
  PROVE  Entered(E)'
  <1>0. /\ machine' = machine /\ devices' = devices /\ stack' = Front(stack)
        /\ machine \in Machines /\ stack \in Seq(Frame) /\ stack # <<>>
        /\ Top[2] = DevicesPerBus
    BY TopFacts DEF BusEnds, TypeInv
  <1>1. OnePerBus(stack) /\ \A k \in DOMAIN stack : stack[k][1] \in E
    BY DEF Entered
  <1>2. stack[Len(stack)][2] = DevicesPerBus
    BY <1>0 DEF Top
  <1>3. /\ OnePerBus(Front(stack))
        /\ DOMAIN Front(stack) \subseteq DOMAIN stack
        /\ \A k \in DOMAIN Front(stack) : Front(stack)[k] = stack[k]
        /\ \A q \in Visible : Passed(Front(stack), E, q) <=> Passed(stack, E, q)
    BY <1>0, <1>1, <1>2, PopPasses
  <1>4. /\ OnePerBus(stack') /\ \A k \in DOMAIN stack' : stack'[k][1] \in E
        /\ \A q \in Visible : Passed(stack', E, q) <=> Passed(stack, E, q)
    BY <1>0, <1>1, <1>3
  <1>5. Bridges \subseteq Visible
    BY DEF Bridges
  <1>6. \A p \in Bridges : Passed(stack', E, p) <=> Passed(stack, E, p)
    BY <1>4, <1>5
  <1>7. {p \in Visible \ Bridges : Passed(stack', E, p)}
          = {p \in Visible \ Bridges : Passed(stack, E, p)}
    BY <1>4
  <1> QED
    BY <1>0, <1>4, <1>6, <1>7, SamePci DEF Entered

LEMMA NextScanInv == TypeInv /\ ScanInv /\ [Next]_vars => ScanInv'
  <1> SUFFICES ASSUME TypeInv, ScanInv, [Next]_vars PROVE ScanInv'
    OBVIOUS
  <1>1. machine' = machine /\ ATree' = ATree
    BY SameMachine, SamePci
  <1>2. broken => broken'
    BY DEF Next, vars, RsdpInit, InitHPET, FindMADT, WalkMADT, WalkEnds, MaskGSI, MaskEnds, At,
           Scanning, RouteGSI, RouteEnds, Nobody, Bridge, AddPCIDevice, BusEnds, ScanEnds, InitAHCI
  <1>3. ASSUME ATree, ~broken' PROVE \E E : Entered(E)'
    <2>1. PICK E : Entered(E)
      BY <1>2, <1>3 DEF ScanInv
    <2>2. CASE Nobody
      BY <1>3, <2>1, <2>2, NobodyScans
    <2>3. CASE Bridge
      BY <1>3, <2>1, <2>3, BridgeScans
    <2>4. CASE AddPCIDevice
      BY <1>3, <2>1, <2>4, DeviceScans
    <2>5. CASE BusEnds
      BY <2>1, <2>5, BusEndsScans
    <2>6. CASE ~(Nobody \/ Bridge \/ AddPCIDevice \/ BusEnds)
      <3>1. UNCHANGED <<machine, stack, devices>>
        BY <2>6 DEF Next, vars, pciVars, RsdpInit, InitHPET, FindMADT, WalkMADT, WalkEnds, MaskGSI,
               MaskEnds, RouteGSI, RouteEnds, ScanEnds, InitAHCI
      <3>2. Entered(E)'
        BY <2>1, <3>1, SamePci DEF Entered
      <3> QED
        BY <3>2
    <2> QED
      BY <2>2, <2>3, <2>4, <2>5, <2>6
  <1>4. phase' \in {"ahci", "done"} => stack' = <<>>
    <2>1. CASE ScanEnds \/ InitAHCI
      BY <2>1 DEF ScanEnds, InitAHCI, ScanInv, At, Go, pciVars
    <2>2. CASE Nobody \/ Bridge \/ AddPCIDevice \/ BusEnds
      <3>1. phase = "pci" /\ phase' = "pci"
        BY <2>2 DEF Nobody, Bridge, AddPCIDevice, BusEnds, Scanning, At, Break
      <3> QED
        BY <3>1
    <2>3. CASE RsdpInit \/ InitHPET \/ FindMADT \/ WalkMADT \/ WalkEnds \/ MaskGSI
               \/ MaskEnds \/ RouteGSI \/ RouteEnds
      <3>1. phase' \notin {"ahci", "done"}
        BY <2>3 DEF RsdpInit, InitHPET, FindMADT, WalkMADT, WalkEnds, MaskGSI,
               MaskEnds, RouteGSI, RouteEnds, RedirectionTable, At, Go, Break
      <3> QED
        BY <3>1
    <2>4. CASE UNCHANGED vars
      BY <2>4 DEF vars, pciVars, ScanInv
    <2> QED
      BY <2>1, <2>2, <2>3, <2>4 DEF Next
  <1> QED
    BY <1>1, <1>3, <1>4 DEF ScanInv

(* The scan fits in the stack and the table of a machine that is not too   *)
(* large: there is one call for each bus on the way, and one more device   *)
(* in the machine than in the list.                                        *)
LEMMA TooMany ==
  ASSUME NEW S, IsFiniteSet(S), NEW T \in SUBSET S, NEW x \in S, x \notin T
  PROVE  Cardinality(T) \in Nat /\ Cardinality(S) \in Nat
         /\ Cardinality(T) + 1 <= Cardinality(S)
  <1>1. IsFiniteSet(T) /\ Cardinality(T) \in Nat /\ Cardinality(S) \in Nat
    BY FS_Subset, FS_CardinalityType
  <1>2. Cardinality(T \cup {x}) = Cardinality(T) + 1
    BY <1>1, FS_AddElement
  <1>3. Cardinality(T \cup {x}) <= Cardinality(S)
    <2>1. T \cup {x} \subseteq S
      OBVIOUS
    <2> QED
      BY <2>1, FS_Subset
  <1> QED
    BY <1>1, <1>2, <1>3

LEMMA BridgeBreaks ==
  ASSUME TypeInv, ATree, NEW E, Entered(E), Bridge, broken'
  PROVE  ~(Cardinality(Buses) <= MaxDepth)
  <1>0. /\ There(Top) /\ machine.pci[Top].kind = "bridge" /\ Scanning
        /\ machine \in Machines /\ stack \in Seq(Frame) /\ stack # <<>>
        /\ Len(stack) = MaxDepth
    BY DEF Bridge, TypeInv, Scanning, At
  <1>1. Top \in Bridges
    BY <1>0, TopMoves DEF Bridges
  <1>2. Behind(Top) \in Buses /\ Behind(Top) \notin E
    BY <1>0, <1>1, NewBus
  <1> DEFINE n == MaxDepth
             bus == [k \in 1 .. n |-> stack[k][1]]
  <1>3. n \in Nat /\ DOMAIN stack = 1 .. n
    BY <1>0, LenProperties
  <1>4. (\A k \in 1 .. n : stack[k][1] \in E) /\ OnePerBus(stack) /\ E \subseteq Buses
    BY <1>3 DEF Entered
  <1>5. bus \in [1 .. n -> E] /\ DOMAIN bus = 1 .. n /\ Distinct(bus)
    BY <1>3, <1>4 DEF Distinct, OnePerBus
  <1> HIDE DEF bus, n
  <1>6. bus \in Seq(E) /\ Len(bus) = n
    BY <1>3, <1>5, SeqDef, LenProperties
  <1>7. Range(bus) \subseteq E /\ Cardinality(Range(bus)) = n
    BY <1>5, <1>6, DistinctSize
  <1>8. Range(bus) \in SUBSET Buses /\ Behind(Top) \notin Range(bus)
    BY <1>2, <1>4, <1>7
  <1>9. Cardinality(Range(bus)) + 1 <= Cardinality(Buses) /\ Cardinality(Buses) \in Nat
    BY <1>0, <1>2, <1>8, TooMany, BusFacts
  <1> QED
    BY <1>3, <1>7, <1>9 DEF n

LEMMA DeviceBreaks ==
  ASSUME TypeInv, ATree, NEW E, Entered(E), AddPCIDevice, broken'
  PROVE  ~(Cardinality(Present) <= PciCapacity)
  <1>0. /\ There(Top) /\ machine.pci[Top].kind # "bridge" /\ Scanning
        /\ machine \in Machines /\ devices \in Seq(DOMAIN machine.pci)
        /\ Len(devices) = PciCapacity
    BY DEF AddPCIDevice, TypeInv, Scanning, At
  <1>1. Top \in Visible /\ Top[1] \in E /\ ~Passed(stack, E, Top)
    BY <1>0, TopMoves
  <1>2. Range(devices) = {p \in Visible \ Bridges : Passed(stack, E, p)} /\ E \subseteq Buses
        /\ Distinct(devices)
    BY DEF Entered
  <1>3. Range(devices) \in SUBSET Present
    BY <1>2 DEF Present, Passed
  <1>4. Top \in Present /\ Top \notin Range(devices)
    BY <1>0, <1>1, <1>2 DEF Present, Bridges
  <1>5. Cardinality(Range(devices)) = PciCapacity
    BY <1>0, <1>2, DistinctSize
  <1>6. Cardinality(Range(devices)) + 1 <= Cardinality(Present) /\ Cardinality(Present) \in Nat
    BY <1>0, <1>3, <1>4, TooMany, BusFacts
  <1> QED
    BY <1>5, <1>6

(* When the walk is over, it was everywhere. *)
LEMMA ScanComplete ==
  ASSUME TypeInv, ScanInv, ~broken, stack = <<>>
  PROVE  BusesScanned
  <1> SUFFICES ASSUME ATree
               PROVE  Range(devices) = Present /\ Len(devices) = Cardinality(Present)
    BY DEF BusesScanned
  <1>0. machine \in Machines /\ devices \in Seq(DOMAIN machine.pci)
    BY DEF TypeInv
  <1>1. PICK E : Entered(E)
    BY DEF ScanInv
  <1>2. \A q : Passed(stack, E, q) <=> q[1] \in E
    <2>1. DOMAIN stack = {}
      OBVIOUS
    <2> QED
      BY <2>1 DEF Passed
  <1>3. Closed(E)
    BY <1>1, <1>2 DEF Closed, Entered, Behind
  <1>4. E = Buses
    <2>1. E \subseteq Buses /\ Buses \subseteq AllBuses
      BY <1>0, <1>1, BusFacts DEF Entered
    <2>2. Buses \subseteq E
      BY <1>0, <1>3, <2>1, BusFacts
    <2> QED
      BY <2>1, <2>2
  <1>5. Range(devices) = Present /\ Distinct(devices)
    BY <1>1, <1>2, <1>4 DEF Entered, Present
  <1> QED
    BY <1>0, <1>5, DistinctSize

-----------------------------------------------------------------------------
(* The AHCI controller *)

LEMMA GreatestIn ==
  ASSUME NEW n \in Nat, NEW T \in SUBSET (1 .. n), T # {}
  PROVE  \E x \in T : \A y \in T : y <= x
  <1> DEFINE R == OpToRel(<, Nat)
             U == {n - y : y \in T}
  <1>1. U \subseteq Nat /\ U # {} /\ \A y \in T : y \in Nat /\ n - y \in Int
    <2>1. \A y \in T : y \in Nat /\ n - y \in Nat
      OBVIOUS
    <2>2. PICK y : y \in T
      OBVIOUS
    <2>3. n - y \in U
      BY <2>2
    <2> QED
      BY <2>1, <2>3
  <1>2. \A x, y \in Nat : y < x => <<y, x>> \in R
    BY DEF OpToRel
  <1>3. \E x \in U : \A y \in U : ~ (<<y, x>> \in R)
    BY <1>1, WFMin, NatLessThanWellFounded
  <1> HIDE DEF R
  <1>4. PICK x \in U : \A y \in U : ~(y < x)
    BY <1>1, <1>2, <1>3
  <1>5. PICK t \in T : x = n - t
    BY <1>4
  <1>6. \A y \in T : ~(n - y < n - t)
    BY <1>4, <1>5
  <1>7. \A y \in T : y <= t
    BY <1>1, <1>6
  <1> QED
    BY <1>7

Kind(d) == machine.pci[devices[d]].kind

LEMMA KindFacts ==
  ASSUME TypeInv
  PROVE  /\ Len(devices) \in Nat /\ DOMAIN devices = 1 .. Len(devices)
         /\ DOMAIN Kinds = 1 .. Len(devices)
         /\ \A d \in 1 .. Len(devices) : Kinds[d] = Kind(d) /\ devices[d] \in Range(devices)
         /\ \A p \in Range(devices) : \E d \in 1 .. Len(devices) : p = devices[d]
  <1>1. devices \in Seq(DOMAIN machine.pci)
    BY DEF TypeInv
  <1>2. Len(devices) \in Nat /\ DOMAIN devices = 1 .. Len(devices)
    BY <1>1, LenProperties
  <1> QED
    BY <1>2 DEF Kinds, Kind, Range

(* It is the last one of the list, when there is one. *)
LEMMA LastAhci ==
  ASSUME TypeInv, NEW d \in DOMAIN Kinds, Kinds[d] = "ahci"
  PROVE  \E l \in DOMAIN Kinds : Kinds[l] = "ahci" /\
                                 \A e \in DOMAIN Kinds : Kinds[e] = "ahci" => e <= l
  <1> DEFINE T == {e \in DOMAIN Kinds : Kinds[e] = "ahci"}
             n == Len(devices)
  <1>1. n \in Nat /\ T \in SUBSET (1 .. n) /\ T # {}
    BY KindFacts
  <1> HIDE DEF n
  <1>2. PICK l \in T : \A e \in T : e <= l
    BY <1>1, GreatestIn
  <1> QED
    BY <1>2

ChosenInv ==
  /\ phase # "done" => chosen = 0
  /\ At("done") => \/ chosen = 0 /\ \E p \in Range(devices) : machine.pci[p].kind = "vendor"
                   \/ /\ chosen \in DOMAIN devices
                      /\ machine.pci[devices[chosen]].kind = "ahci"
                      /\ \A p \in Range(devices) : machine.pci[p].kind # "vendor"

LEMMA NextChosenInv == TypeInv /\ ChosenInv /\ [Next]_vars => ChosenInv'
  <1> SUFFICES ASSUME TypeInv, ChosenInv, [Next]_vars PROVE ChosenInv'
    OBVIOUS
  <1>1. CASE InitAHCI
    <2>1. phase = "ahci" /\ ~broken /\ chosen = 0 /\ machine' = machine /\ devices' = devices
      BY <1>1 DEF InitAHCI, At, ChosenInv
    <2> DEFINE last == {d \in DOMAIN Kinds : Kinds[d] = "ahci" /\
                                     \A e \in DOMAIN Kinds : Kinds[e] = "ahci" => e <= d}
    <2>2. CASE \E d \in DOMAIN Kinds : Kinds[d] = "vendor"
      <3>1. chosen' = 0 /\ phase' = "done"
        BY <1>1, <2>1, <2>2 DEF InitAHCI, Go
      <3>2. \E p \in Range(devices) : machine.pci[p].kind = "vendor"
        BY <2>2, KindFacts DEF Kind
      <3> QED
        BY <2>1, <3>1, <3>2 DEF ChosenInv
    <2>3. CASE ~(\E d \in DOMAIN Kinds : Kinds[d] = "vendor") /\ last = {}
      BY <1>1, <2>1, <2>3 DEF InitAHCI, Break, ChosenInv, At
    <2>4. CASE ~(\E d \in DOMAIN Kinds : Kinds[d] = "vendor") /\ last # {}
      <3>1. chosen' = (CHOOSE d \in last : TRUE) /\ phase' = "done"
        BY <1>1, <2>1, <2>4 DEF InitAHCI, Go
      <3>2. chosen' \in last
        BY <2>4, <3>1
      <3>3. chosen' \in DOMAIN devices /\ machine.pci[devices[chosen']].kind = "ahci"
        BY <3>2, KindFacts DEF Kind
      <3>4. \A p \in Range(devices) : machine.pci[p].kind # "vendor"
        BY <2>4, KindFacts DEF Kind
      <3> QED
        BY <2>1, <3>1, <3>3, <3>4 DEF ChosenInv
    <2> QED
      BY <2>2, <2>3, <2>4
  <1>2. CASE ~InitAHCI
    <2>1. chosen' = chosen /\ machine' = machine
      BY <1>2 DEF Next, vars, pciVars, RsdpInit, InitHPET, FindMADT, WalkMADT, WalkEnds, MaskGSI,
             MaskEnds, RouteGSI, RouteEnds, Nobody, Bridge, AddPCIDevice, BusEnds, ScanEnds
    <2>2. \/ phase' # "done" /\ phase # "done"
          \/ phase' = phase /\ devices' = devices /\ broken' = broken
      BY <1>2 DEF Next, vars, pciVars, RsdpInit, InitHPET, FindMADT, WalkMADT, WalkEnds, MaskGSI,
             MaskEnds, RouteGSI, RouteEnds, Nobody, Bridge, AddPCIDevice, BusEnds, ScanEnds,
             RedirectionTable, Scanning, At, Go, Break
    <2> QED
      BY <2>1, <2>2 DEF ChosenInv, At
  <1> QED
    BY <1>1, <1>2

-----------------------------------------------------------------------------
(* What all of this says about a machine the code is written for *)

IInv == /\ TypeInv /\ RootInv /\ MadtInv /\ ScanInv /\ ChosenInv
        /\ OnlyBadFirmwareBreaks

LEMMA SameSupported == machine' = machine => Supported' = Supported
  BY SameMadt, SamePci DEF Supported, WellFormed, EndOf, OfType, Present

LEMMA SupportedFinds ==
  ASSUME RootInv, Supported, phase # "rsdp"
  PROVE  Finds("HPET") /\ Finds("APIC")
  BY DEF RootInv, Supported, Finds

LEMMA SupportedWalks ==
  ASSUME TypeInv, MadtInv, Supported, WalkMADT
  PROVE  ~broken'
  <1>1. phase = "walk" /\ ~broken /\ WellFormed /\ \A t \in Types : Cardinality(OfType(t)) <= MaxEntries
    BY DEF WalkMADT, At, Supported
  <1>2. PICK k \in 1 .. Len(machine.madt) + 1 : ReadUpTo(k)
    BY <1>1 DEF MadtInv, Early
  <1> QED
    BY <1>1, <1>2, WalkBreaks

LEMMA SupportedScans ==
  ASSUME TypeInv, ScanInv, Supported, ~broken, Bridge \/ AddPCIDevice
  PROVE  ~broken'
  <1>1. ATree /\ Cardinality(Buses) <= MaxDepth /\ Cardinality(Present) <= PciCapacity
    BY DEF Supported
  <1>2. PICK E : Entered(E)
    BY <1>1 DEF ScanInv
  <1> QED
    BY <1>1, <1>2, BridgeBreaks, DeviceBreaks

LEMMA SupportedDrives ==
  ASSUME TypeInv, ScanInv, Supported, InitAHCI
  PROVE  ~broken'
  <1>1. ~broken /\ stack = <<>> /\ ATree
    BY DEF InitAHCI, At, ScanInv, Supported
  <1>2. Range(devices) = Present
    BY <1>1, ScanComplete DEF BusesScanned
  <1>3. PICK p \in Range(devices) : machine.pci[p].kind = "ahci"
    BY <1>2 DEF Supported
  <1>4. PICK d \in DOMAIN Kinds : Kinds[d] = "ahci"
    BY <1>3, KindFacts DEF Kind
  <1>5. PICK l \in DOMAIN Kinds : Kinds[l] = "ahci" /\
                                  \A e \in DOMAIN Kinds : Kinds[e] = "ahci" => e <= l
    BY <1>4, LastAhci
  <1> DEFINE last == {e \in DOMAIN Kinds : Kinds[e] = "ahci" /\
                                     \A f \in DOMAIN Kinds : Kinds[f] = "ahci" => f <= e}
  <1>6. last # {}
    BY <1>5
  <1> QED
    BY <1>1, <1>6 DEF InitAHCI, Go

LEMMA NextBreaks == IInv /\ [Next]_vars => OnlyBadFirmwareBreaks'
  <1> SUFFICES ASSUME IInv, [Next]_vars, Supported PROVE ~broken'
    BY SameMachine, SameSupported DEF OnlyBadFirmwareBreaks
  <1>1. TypeInv /\ RootInv /\ MadtInv /\ ScanInv /\ ~broken
    BY DEF IInv, OnlyBadFirmwareBreaks
  <1>2. CASE InitHPET \/ FindMADT
    <2>1. phase # "rsdp"
      BY <1>2 DEF InitHPET, FindMADT, At
    <2> QED
      BY <1>1, <1>2, <2>1, SupportedFinds DEF InitHPET, FindMADT, Go
  <1>3. CASE WalkMADT
    BY <1>1, <1>3, SupportedWalks
  <1>4. CASE Bridge \/ AddPCIDevice
    BY <1>1, <1>4, SupportedScans
  <1>5. CASE InitAHCI
    BY <1>1, <1>5, SupportedDrives
  <1>6. CASE MaskGSI \/ RouteGSI
    BY <1>1, <1>6, SupportedRoutes
  <1>7. CASE ~(InitHPET \/ FindMADT \/ WalkMADT \/ MaskGSI \/ RouteGSI \/ Bridge
               \/ AddPCIDevice \/ InitAHCI)
    <2>1. broken' = broken
      BY <1>7 DEF Next, vars, RsdpInit, WalkEnds, MaskEnds, RouteEnds, Nobody, BusEnds,
             ScanEnds, Go
    <2> QED
      BY <1>1, <2>1
  <1> QED
    BY <1>2, <1>3, <1>4, <1>5, <1>6, <1>7

LEMMA InitIInv == Init => IInv
  <1> SUFFICES ASSUME Init PROVE IInv
    OBVIOUS
  <1>1. RootInv /\ ChosenInv /\ OnlyBadFirmwareBreaks
    BY DEF Init, RootInv, ChosenInv, OnlyBadFirmwareBreaks, At
  <1> QED
    BY <1>1, InitTypeInv, InitMadtInv, InitScanInv DEF IInv

LEMMA NextIInv == IInv /\ [Next]_vars => IInv'
  BY NextTypeInv, NextRootInv, NextMadtInv, NextScanInv, NextChosenInv, NextBreaks DEF IInv

LEMMA Understood == IInv => FirmwareUnderstood
  <1> SUFFICES ASSUME IInv PROVE FirmwareUnderstood
    OBVIOUS
  <1>0. TypeInv /\ MadtInv /\ ScanInv /\ ChosenInv
    BY DEF IInv
  <1>1. ASSUME ~broken, phase \notin Early PROVE MadtRead
    <2>1. WellFormed => \A t \in Types : Lists(entries[t], OfType(t))
      BY <1>0, <1>1 DEF MadtInv
    <2> QED
      BY <2>1 DEF MadtRead, Lists
  <1>2. ASSUME ~broken, phase \in {"ahci", "done"} PROVE BusesScanned
    <2>1. stack = <<>>
      BY <1>0, <1>2 DEF ScanInv
    <2> QED
      BY <1>0, <1>2, <2>1, ScanComplete
  <1> QED
    BY <1>0, <1>1, <1>2 DEF FirmwareUnderstood, ChosenInv, At, Early

LEMMA Invariance == Spec => []IInv
  <1>1. Init => IInv
    BY InitIInv
  <1>2. IInv /\ [Next]_vars => IInv'
    BY NextIInv
  <1> QED
    BY <1>1, <1>2, PTL DEF Spec

(* Neither findSDT, the walks over the MADT and the PCI buses, the search  *)
(* for a line's I/O APIC, nor the choice of a controller leaves the memory *)
(* it may use, on a machine whose firmware lists the two tables, whose     *)
(* MADT says where each entry begins, whose I/O APICs cover the lines      *)
(* asked for whatever is read from their registers, and whose PCI bridges  *)
(* form a tree that fits: rsdp.c:14, hpet.c:15, madt.c:42, apic.c:41-64,   *)
(* pci.c:28 and 90, ahci.c:31 test for none of these.                      *)
THEOREM OnlyBadFirmware == Spec => []OnlyBadFirmwareBreaks
  <1>1. IInv => OnlyBadFirmwareBreaks
    BY DEF IInv
  <1> QED
    BY <1>1, Invariance, PTL

(* The lists of madt.c are the entries of the MADT (madt.c:22), the list   *)
(* of pci.c is every function on a bus that can be reached, once each      *)
(* (pci.c:46), and the controller of initAHCI is one of them (ahci.c:30).  *)
(* Nothing is said of where the interrupt lines go.                        *)
THEOREM FirmwareIsUnderstood == Spec => []FirmwareUnderstood
  <1>1. IInv => FirmwareUnderstood
    BY Understood
  <1> QED
    BY <1>1, Invariance, PTL

=============================================================================
