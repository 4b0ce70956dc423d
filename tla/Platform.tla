------------------------------- MODULE Platform -------------------------------
(***************************************************************************)
(* What the boot core learns from the firmware and the hardware, one call  *)
(* of bootMain after the other: where the ACPI tables are (acpi/rsdp.c),   *)
(* the HPET (sched/hpet.c), the processors and I/O APICs of the MADT       *)
(* (acpi/madt.c), the routing of the sixteen old interrupt lines           *)
(* (int/apic.c), the functions on the PCI buses (drivers/pci.c) and the    *)
(* AHCI controller among them (drivers/ahci.c).                            *)
(*                                                                         *)
(* The machine is chosen in Init.  broken says that the code used memory   *)
(* that does not hold what it takes it for; nothing is said of what        *)
(* follows.                                                                *)
(***************************************************************************)
EXTENDS Integers, Sequences, Functions, FiniteSets

CONSTANTS Machines,       \* see below
          Lines,          \* interrupt lines routed; 16 in the code
          MaxEntries,     \* room for the MADT entries of a type; 50
          PciCapacity,    \* room for devices before the table grows; 10
          DevicesPerBus,  \* 32
          Functions,      \* functions of a device; 8
          MaxDepth        \* calls of pciScanBus that fit on the boot stack

ASSUME LinesAssumption == Lines \in Nat /\ MaxEntries \in Nat
ASSUME PciAssumption == /\ DevicesPerBus \in Nat \ {0} /\ Functions \in Nat \ {0}
                        /\ PciCapacity \in Nat /\ MaxDepth \in Nat \ {0}

(* A machine is a record with                                              *)
(*   root     "xsdt", "rsdt", "none", or "stale": the RSDP of ACPI 1.0 has *)
(*            no xsdtAddr, and something else lies at its place            *)
(*   tables   the signatures of the tables the root lists                  *)
(*   madt     the entries of the MADT, a sequence of [type, at, size,      *)
(*            gsiBase, answers]: at is where the entry begins, size how    *)
(*            long it says it is; the last two are of I/O APICs, type 1:   *)
(*            its first line, and what getMaxGSIs may read from it         *)
(*   length   where the last entry ends                                    *)
(*   pci      a function from places to [kind, secondary, multi], for the  *)
(*            functions that are there                                     *)
Place(bus, device, function) == <<bus, device, function>>

Entry == [type : Nat, at : Nat, size : Nat, gsiBase : Nat,
          answers : SUBSET Nat]
Function == [kind : {"bridge", "ahci", "vendor", "other"}, secondary : Nat,
             multi : BOOLEAN]

ASSUME MachinesAssumption ==
  \A m \in Machines :
    /\ m.madt \in Seq(Entry) /\ m.length \in Nat
    /\ m.madt = <<>> => m.length = 0
    /\ \A k \in DOMAIN m.madt :
         /\ m.madt[k].at < m.length /\ (k = 1 => m.madt[k].at = 0)
         /\ \A j \in DOMAIN m.madt : j < k => m.madt[j].at < m.madt[k].at
         /\ m.madt[k].type = 1 => m.madt[k].answers # {}
    /\ IsFiniteSet(DOMAIN m.pci) /\ m.pci \in [DOMAIN m.pci -> Function]
    /\ DOMAIN m.pci \subseteq Nat \X (0 .. DevicesPerBus - 1) \X (0 .. Functions - 1)

VARIABLES
  machine,
  phase,    \* the call bootMain has reached
  xsdt, rsdt, \* the pointers of rsdp.c: a root, or "null"
  i,        \* the loop variable of the MADT walk: an offset
  entries,  \* madtEntry0, 1, 2, 4, 5: indices into machine.madt, by type
  apic, gsi, \* the loop variables of initAPIC
  stack,    \* the calls of pciScanBus: the next place each looks at
  devices,  \* pciDevices
  chosen,   \* the device initAHCI drives: an index into devices, or 0
  broken

acpiVars == <<xsdt, rsdt>>
apicVars == <<apic, gsi>>
pciVars == <<stack, devices, chosen>>
vars == <<machine, phase, acpiVars, i, entries, apicVars, pciVars, broken>>

Types == {0, 1, 2, 4, 5}

At(p) == phase = p /\ ~broken
Break == broken' = TRUE /\ UNCHANGED phase
Go(p) == phase' = p /\ UNCHANGED broken

Init ==
  /\ machine \in Machines
  /\ phase = "rsdp" /\ broken = FALSE
  /\ xsdt = "null" /\ rsdt = "null"
  /\ i = 0
  /\ entries = [t \in Types |-> <<>>]
  /\ apic = 1 /\ gsi = 0
  /\ stack = <<Place(0, 0, 0)>> /\ devices = <<>> /\ chosen = 0

-----------------------------------------------------------------------------
(* ACPI                                                                    *)

(* rsdpInit does not look at the revision. *)
RsdpInit ==
  /\ At("rsdp")
  /\ xsdt' = IF machine.root \in {"xsdt", "stale"} THEN machine.root ELSE "null"
  /\ rsdt' = IF machine.root = "rsdt" THEN "rsdt" ELSE "null"
  /\ Go("hpet")
  /\ UNCHANGED <<machine, i, entries, apicVars, pciVars>>

(* findSDT compares signatures up to a bound that counts bytes for         *)
(* entries: a table that is not listed is looked for beyond the list.      *)
Finds(signature) == /\ xsdt = "xsdt" \/ (xsdt = "null" /\ rsdt = "rsdt")
                    /\ signature \in machine.tables

(* Nobody tests the result for NULL. *)
InitHPET == /\ At("hpet")
            /\ IF Finds("HPET") THEN Go("madt") ELSE Break
            /\ UNCHANGED <<machine, acpiVars, i, entries, apicVars, pciVars>>

FindMADT == /\ At("madt")
            /\ IF Finds("APIC") THEN Go("walk") ELSE Break
            /\ UNCHANGED <<machine, acpiVars, i, entries, apicVars, pciVars>>

StartsAt(o) == {k \in DOMAIN machine.madt : machine.madt[k].at = o}

(* Fault: the two bytes already read are not taken off. *)
StepTooFar(size) == 2 + size - 3 + 1 + 2

(* Type and size are read with i++, the loop adds entrySize - 3 and 1. *)
Step(size) == 2 + size - 3 + 1

(* An entry whose type has an array goes to its end, however long it is. *)
WalkMADT ==
  /\ At("walk") /\ i < machine.length
  /\ \/ StartsAt(i) = {} /\ Break /\ UNCHANGED <<i, entries>>
     \/ \E k \in StartsAt(i) :
          LET e == machine.madt[k]
          IN  /\ i' = i + Step(e.size)
              /\ IF e.type \notin Types THEN UNCHANGED <<entries, phase, broken>>
                 ELSE IF Len(entries[e.type]) = MaxEntries
                      THEN Break /\ UNCHANGED entries
                 ELSE /\ entries' = [entries EXCEPT ![e.type] = Append(@, k)]
                      /\ UNCHANGED <<phase, broken>>
  /\ UNCHANGED <<machine, acpiVars, apicVars, pciVars>>

WalkEnds == /\ At("walk") /\ i >= machine.length
            /\ Go("mask")
            /\ UNCHANGED <<machine, acpiVars, i, entries, apicVars, pciVars>>

-----------------------------------------------------------------------------
(* The I/O APICs                                                           *)

Apics == 1 .. Len(entries[1])
Apic(k) == machine.madt[entries[1][k]]

(* ioapicRead writes the register number into the data window and reads    *)
(* beside it: register 1, which has the number of lines, is never          *)
(* selected, and what getMaxGSIs returns is up to the device.              *)
GetMaxGSIs(k) == Apic(k).answers

Covers(k, g, answer) == Apic(k).gsiBase <= g /\ answer + Apic(k).gsiBase >= g

(* findVaildIOAPIC takes the first I/O APIC that covers the line.  The     *)
(* test that returns ERROR when there is none is inside the loop, where it *)
(* is never true.                                                          *)
FindsIOAPIC(g) == \E k \in Apics : \E answer \in GetMaxGSIs(k) : Covers(k, g, answer)
MissesIOAPIC(g) == \A k \in Apics : \E answer \in GetMaxGSIs(k) : ~Covers(k, g, answer)

(* Then the entry behind the last is used, in an array that was never      *)
(* cleared: the code writes through the address it finds there.            *)
RedirectionTable(g) == \/ FindsIOAPIC(g) /\ UNCHANGED <<phase, broken>>
                       \/ MissesIOAPIC(g) /\ Break

(* initAPIC masks the lines of each I/O APIC below its number of lines,    *)
(* which does not count from gsiBase, ...                                  *)
MaskGSI ==
  /\ At("mask") /\ apic \in Apics
  /\ \E lines \in GetMaxGSIs(apic) :
       LET g == Apic(apic).gsiBase + gsi
       IN  IF g < lines
           THEN RedirectionTable(g) /\ gsi' = gsi + 1 /\ UNCHANGED apic
           ELSE apic' = apic + 1 /\ gsi' = 0 /\ UNCHANGED <<phase, broken>>
  /\ UNCHANGED <<machine, acpiVars, i, entries, pciVars>>

MaskEnds == /\ At("mask") /\ apic \notin Apics
            /\ gsi' = 0
            /\ Go("route")
            /\ UNCHANGED <<machine, acpiVars, i, entries, apic, pciVars>>

(* ... and then gives line n the vector n + 32. *)
RouteGSI == /\ At("route") /\ gsi < Lines
            /\ RedirectionTable(gsi)
            /\ gsi' = gsi + 1
            /\ UNCHANGED <<machine, acpiVars, i, entries, apic, pciVars>>

RouteEnds == /\ At("route") /\ gsi = Lines
             /\ Go("pci")
             /\ UNCHANGED <<machine, acpiVars, i, entries, apicVars, pciVars>>

-----------------------------------------------------------------------------
(* PCI                                                                     *)

There(place) == place \in DOMAIN machine.pci
Top == stack[Len(stack)]
Rest == SubSeq(stack, 1, Len(stack) - 1)

(* Fault: only function 0 of each device is looked at.                     *)
AfterFirst(p) == Place(p[1], p[2] + 1, 0)

(* The other functions are looked at when function 0 is there and says so. *)
After(p) ==
  LET first == Place(p[1], p[2], 0)
  IN  IF There(first) /\ machine.pci[first].multi /\ p[3] < Functions - 1
      THEN Place(p[1], p[2], p[3] + 1)
      ELSE Place(p[1], p[2] + 1, 0)

Scanning == At("pci") /\ stack # <<>> /\ Top[2] < DevicesPerBus

Nobody == /\ Scanning /\ ~There(Top)
          /\ stack' = Append(Rest, After(Top))
          /\ UNCHANGED <<machine, phase, acpiVars, i, entries, apicVars, devices,
                         chosen, broken>>

(* A bridge: pciScanBus calls itself for the bus behind it. *)
Bridge ==
  /\ Scanning /\ There(Top) /\ machine.pci[Top].kind = "bridge"
  /\ IF Len(stack) = MaxDepth THEN Break /\ UNCHANGED stack
     ELSE /\ stack' = Append(Append(Rest, After(Top)),
                             Place(machine.pci[Top].secondary, 0, 0))
          /\ UNCHANGED <<phase, broken>>
  /\ UNCHANGED <<machine, acpiVars, i, entries, apicVars, devices, chosen>>

(* addPCIDevice grows the table when it is fuller than full: the entry     *)
(* behind the last is written first.                                       *)
AddPCIDevice ==
  /\ Scanning /\ There(Top) /\ machine.pci[Top].kind # "bridge"
  /\ IF Len(devices) = PciCapacity THEN Break /\ UNCHANGED <<stack, devices>>
     ELSE /\ devices' = Append(devices, Top)
          /\ stack' = Append(Rest, After(Top))
          /\ UNCHANGED <<phase, broken>>
  /\ UNCHANGED <<machine, acpiVars, i, entries, apicVars, chosen>>

BusEnds == /\ At("pci") /\ stack # <<>> /\ Top[2] = DevicesPerBus
           /\ stack' = Rest
           /\ UNCHANGED <<machine, phase, acpiVars, i, entries, apicVars, devices,
                          chosen, broken>>

ScanEnds == /\ At("pci") /\ stack = <<>>
            /\ Go("ahci")
            /\ UNCHANGED <<machine, acpiVars, i, entries, apicVars, pciVars>>

(* initAHCI gives up at the first storage controller of another kind, and  *)
(* otherwise takes the last AHCI one; with none it goes on with a device   *)
(* it never initialised.                                                   *)
Kinds == [d \in 1 .. Len(devices) |-> machine.pci[devices[d]].kind]
InitAHCI ==
  /\ At("ahci")
  /\ LET last == {d \in DOMAIN Kinds : Kinds[d] = "ahci" /\
                                       \A e \in DOMAIN Kinds : Kinds[e] = "ahci" => e <= d}
     IN  IF \E d \in DOMAIN Kinds : Kinds[d] = "vendor"
         THEN Go("done") /\ UNCHANGED chosen
         ELSE IF last = {} THEN Break /\ UNCHANGED chosen
         ELSE chosen' = (CHOOSE d \in last : TRUE) /\ Go("done")
  /\ UNCHANGED <<machine, acpiVars, i, entries, apicVars, stack, devices>>

Next == \/ RsdpInit \/ InitHPET \/ FindMADT \/ WalkMADT \/ WalkEnds
        \/ MaskGSI \/ MaskEnds \/ RouteGSI \/ RouteEnds
        \/ Nobody \/ Bridge \/ AddPCIDevice \/ BusEnds \/ ScanEnds \/ InitAHCI

Spec == Init /\ [][Next]_vars

-----------------------------------------------------------------------------
(* What the machine holds, said without walking through it                 *)

(* Every entry says where the next one begins. *)
EndOf(k) == IF k = Len(machine.madt) THEN machine.length ELSE machine.madt[k + 1].at
WellFormed == \A k \in DOMAIN machine.madt :
                machine.madt[k].size = EndOf(k) - machine.madt[k].at
OfType(t) == {k \in DOMAIN machine.madt : machine.madt[k].type = t}

(* Whatever is read from them, the I/O APICs cover the sixteen lines and   *)
(* those that are masked before.                                           *)
Covered(g) == \E k \in OfType(1) : \A answer \in machine.madt[k].answers :
                /\ machine.madt[k].gsiBase <= g
                /\ g <= machine.madt[k].gsiBase + answer
LinesCovered ==
  /\ \A g \in 0 .. Lines - 1 : Covered(g)
  /\ \A k \in OfType(1) : \A lines \in machine.madt[k].answers :
       \A g \in machine.madt[k].gsiBase .. lines - 1 : Covered(g)

Visible == {p \in DOMAIN machine.pci :
              LET first == Place(p[1], p[2], 0)
              IN  p = first \/ (There(first) /\ machine.pci[first].multi)}
Bridges == {p \in Visible : machine.pci[p].kind = "bridge"}
AllBuses == {0} \cup {machine.pci[p].secondary : p \in Bridges}
Closed(B) == 0 \in B /\ \A p \in Bridges : p[1] \in B => machine.pci[p].secondary \in B
Buses == {b \in AllBuses : \A B \in SUBSET AllBuses : Closed(B) => b \in B}
Present == {p \in Visible \ Bridges : p[1] \in Buses}
ATree == \A p, q \in {b \in Bridges : b[1] \in Buses} :
           /\ machine.pci[p].secondary # 0
           /\ machine.pci[p].secondary = machine.pci[q].secondary => p = q

(* The machine bootMain is written for.  Whether there is one is another   *)
(* matter: an I/O APIC whose answers are 0 has a single line.              *)
Supported ==
  /\ machine.root \in {"xsdt", "rsdt"} /\ {"HPET", "APIC"} \subseteq machine.tables
  /\ WellFormed /\ \A t \in Types : Cardinality(OfType(t)) <= MaxEntries
  /\ LinesCovered
  /\ ATree /\ Cardinality(Buses) <= MaxDepth /\ Cardinality(Present) <= PciCapacity
  /\ \E p \in Present : machine.pci[p].kind = "ahci"

(* The boot core leaves its tables and its stack only on a machine the     *)
(* code is not written for: none of rsdp.c, madt.c, apic.c, pci.c and      *)
(* ahci.c tests for one (rsdp.c:14, hpet.c:15, madt.c:42, apic.c:41-64,    *)
(* pci.c:28, 90, ahci.c:31).                                               *)
OnlyBadFirmwareBreaks == broken => ~Supported

(* The five lists of madt.c hold the entries of their type, in order.      *)
MadtRead ==
  WellFormed => \A t \in Types :
                  /\ Range(entries[t]) = OfType(t)
                  /\ \A m, n \in DOMAIN entries[t] : m < n => entries[t][m] < entries[t][n]

(* The depth-first walk of pci.c lists every function exactly once, on     *)
(* buses behind bridges too, and none of the echoes of a device that       *)
(* answers for each of its function numbers.                               *)
BusesScanned ==
  ATree => /\ Range(devices) = Present
           /\ Len(devices) = Cardinality(Present)

(* What the rest of the kernel starts from is what the machine has: the    *)
(* lists of processors and I/O APICs once the MADT is walked (madt.c:22),  *)
(* the devices once the scan is over (pci.c:46), and a controller among    *)
(* them (ahci.c:30).                                                       *)
FirmwareUnderstood ==
  /\ At("mask") \/ At("route") \/ At("pci") \/ At("ahci") \/ At("done") => MadtRead
  /\ At("ahci") \/ At("done") => BusesScanned
  /\ At("done") => \/ chosen = 0 /\ \E p \in Range(devices) : machine.pci[p].kind = "vendor"
                   \/ /\ chosen \in DOMAIN devices
                      /\ machine.pci[devices[chosen]].kind = "ahci"
                      /\ \A p \in Range(devices) : machine.pci[p].kind # "vendor"
=============================================================================
