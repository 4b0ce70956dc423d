------------------------------ MODULE BfsProofs ------------------------------
(***************************************************************************)
(* Theorems about Bfs and the driver below it (Ahci), for any number of    *)
(* cores, ports, slots, sectors and files: types, the shared command       *)
(* tables, the lookup by name, and where writes go.                        *)
(***************************************************************************)
EXTENDS Bfs, TLAPS, FiniteSetTheorems

LEMMA ModuloOfSmaller ==
  ASSUME NEW n \in Nat \ {0}, NEW s \in 0 .. n - 1
  PROVE  s % n = s
  OBVIOUS

(* The boot: initAHCI and initGFS run on the boot core, the others wait.   *)
BootInv ==
  /\ scan <= Cardinality(Ports)
  /\ stage = "ports" =>
       /\ ~lock
       /\ \A c \in Cores : request[c] = None /\ op[c] = None
       /\ \A c \in Cores \ {BootCore} : pc[c] = "idle"
       /\ pc[BootCore] # "spin"
       /\ pc[BootCore] = "idle" => scan \notin Ports
       /\ pc[BootCore] \in Using => scan \in Implemented \cap Ata
  /\ stage \in {"mount", "draw"} => op[BootCore] \in Loops
  /\ stage \in {"mount", "mounted", "draw"} =>
       \A c \in Cores \ {BootCore} : pc[c] = "idle" /\ op[c] = None
  /\ stage = "mounted" => pc[BootCore] = "idle" /\ op[BootCore] = None
  /\ stage # "ports" => scan \notin Ports /\ \A c \in Cores : pc[c] # "ports"

(* drives holds SATA ports only, and every one that has been passed.       *)
DrivesInv ==
  /\ \A k \in 1 .. Len(drives) : drives[k] \in Implemented \cap Ata
  /\ \A p \in Implemented \cap Ata : p < scan => drives # <<>>

(* One core at most is between spinLock and spinRelease. *)
LockInv ==
  \A c \in Cores : pc[c] \in Using =>
    /\ stage # "ports" => lock
    /\ \A d \in Cores : pc[d] \in Using => d = c

(* A loop stays inside the disk and the memory, a writing one on sectors   *)
(* that its call may write.                                                *)
LoopOK(l) ==
  /\ l.from <= l.i
  /\ \A k \in l.from .. l.end - 1 :
       /\ l.first + k \in Sectors
       /\ k - l.from \in Pages
       /\ l.w => Owns(l, l.first + k)

LoopInv == \A c \in Cores : op[c] \in Loops => LoopOK(op[c])

(* A core inside sataRW asks for the last sector its loop has come to. *)
CallInv ==
  \A c \in Cores :
    /\ stage # "ports" => (pc[c] = "idle" <=> request[c] = None)
    /\ request[c] # None =>
         /\ op[c] \in Loops
         /\ op[c].from < op[c].i /\ op[c].i <= op[c].end
         /\ request[c] = [port |-> op[c].port,
                          start |-> op[c].first + op[c].i - 1,
                          page |-> op[c].i - 1 - op[c].from,
                          w |-> op[c].w]

ControlInv == TypeOK /\ BootInv /\ DrivesInv /\ LockInv /\ LoopInv /\ CallInv

(* The command a core has built is in the table that its slot's header     *)
(* names, until the call returns.                                          *)
CommandInv ==
  \A c \in Cores : pc[c] \in {"ready", "stopped", "issue", "wait"} =>
    table[header[PortOf(c)][slot[c]]] = Command(c)

(* A port has a command outstanding only while a core waits for it, and    *)
(* works only on that command.                                             *)
PortInv ==
  \A p \in Ports :
    /\ \A s \in port[p].ci :
         \E c \in Cores : pc[c] = "wait" /\ PortOf(c) = p /\ slot[c] = s
    /\ port[p].phase # "idle" =>
         /\ port[p].st /\ port[p].cr /\ port[p].slot \in port[p].ci
         /\ port[p].cmd = table[header[p][port[p].slot]]

(* Nothing but the boot loader writes Super: what a core writes is data.   *)
BufferInv ==
  \A c \in Cores : op[c] \in Loops /\ op[c].w =>
    \A k \in Pages : memory[c][k] \in Values

(* What initGFS and drawBmp read. *)
SuperLoop == Loop(Drive0, 0, 0, SuperSectors, FALSE, By(None, SuperSectors))
BmpLoop   == Loop(Drive0, BmpSector, 0, BmpRoom + BmpOverrun, FALSE, By(None, BmpRoom))

(* A loop stays inside the buffer of its call, but for the end of drawBmp. *)
RoomInv ==
  \A c \in Cores : op[c] \in Loops =>
    \A k \in op[c].from .. op[c].end - 1 : k - op[c].from < RoomOf(op[c])

(* The loop of initGFS over the inode table. *)
SuperBlockLoop(l) ==
  /\ l.port = Drive0 /\ l.first = 0 /\ l.from = 0 /\ l.end = SuperSectors
  /\ l.w = FALSE /\ l.i \in 0 .. SuperSectors

(* While initGFS reads the inode table, the first page of its buffer is    *)
(* the first sector of the disk as soon as that sector has been read.      *)
MountInv ==
  /\ stage = "mount" =>
       /\ SuperBlockLoop(op[BootCore])
       /\ op[BootCore].i > 0
            /\ (request[BootCore] = None \/ op[BootCore].i > 1 \/ Moved(BootCore))
          => memory[BootCore][0] = disk[Drive0][0]
  /\ stage \in {"mounted", "draw", "up"} /\ disk[Drive0][0] = Super
       => Cardinality(Used) <= known

DriverInv == ControlInv /\ CommandInv /\ PortInv

-----------------------------------------------------------------------------
(* The constants. *)

LEMMA Intervals ==
  /\ Cardinality(Ports) \in Nat /\ Cardinality(Slots) \in Nat
  /\ Cardinality(Inodes) \in Nat
  /\ 0 \in Ports /\ 0 \in Slots /\ 0 \in Sectors /\ 0 \in Pages
  /\ Sectors \subseteq Nat
  <1>1. /\ Cardinality(Ports) \in Nat /\ Cardinality(Slots) \in Nat
        /\ Cardinality(Inodes) \in Nat
    BY FS_CardinalityType, AhciAssumption, BfsAssumption
  <1>2. 0 \in Ports /\ 0 \in Slots /\ Sectors \subseteq Nat
    BY <1>1, AhciAssumption
  <1>3. 0 \in Sectors /\ 0 \in Pages
    BY LayoutAssumption, BfsAssumption
  <1> QED
    BY <1>1, <1>2, <1>3

(* The sector number of a command has room for every sector. *)
LEMMA LbaExact == \A s \in Sectors : Lba(s) = s
  BY ModuloOfSmaller, AhciAssumption DEF Lba

(* After the ports, drives[1] is a drive. *)
LEMMA FirstDrive ==
  ASSUME ControlInv, scan \notin Ports
  PROVE  Drive0 \in Implemented \cap Ata /\ Drive0 \in Ports
  <1>1. scan = Cardinality(Ports)
    BY Intervals, AhciAssumption DEF ControlInv, TypeOK, AhciTypeOK, BootInv
  <1>2. PICK p \in Implemented \cap Ata : TRUE
    BY DriveAssumption
  <1>3. p < scan
    BY <1>1, Intervals, AhciAssumption
  <1>4. drives \in Seq(Ports) /\ drives # <<>>
    BY <1>3 DEF ControlInv, TypeOK, AhciTypeOK, DrivesInv
  <1>5. 1 \in 1 .. Len(drives)
    BY <1>4
  <1> QED
    BY <1>5, AhciAssumption DEF ControlInv, DrivesInv, Drive0

(* The sector a loop asks for next is one. *)
LEMMA NextRequest ==
  ASSUME NEW l \in Loops, LoopOK(l), l.i < l.end
  PROVE  [port |-> l.port, start |-> l.first + l.i, page |-> l.i - l.from,
          w |-> l.w] \in Requests
  <1>1. l.i \in l.from .. l.end - 1
    BY DEF Loops, LoopOK
  <1> QED
    BY <1>1 DEF Loops, LoopOK, Requests

(* A core with a call in hand uses a port, and its command is one. *)
LEMMA CommandType ==
  ASSUME ControlInv, NEW c \in Cores, pc[c] \in Using
  PROVE  PortOf(c) \in Ports /\ Command(c) \in Commands
  <1>0. /\ scan \in Nat /\ request \in [Cores -> Requests \cup {None}]
        /\ pc \in [Cores -> Using \cup {"idle", "ports", "spin", "halted"}]
    BY DEF ControlInv, TypeOK, AhciTypeOK
  <1>1. CASE Booting(c)
    BY <1>1, Intervals DEF Booting, PortOf, Command, Commands
  <1>2. CASE ~Booting(c)
    <2>1. request[c] \in Requests
      <3>1. stage # "ports"
        BY <1>2, AhciAssumption DEF ControlInv, BootInv, Booting, Using, Building
      <3> QED
        BY <1>0, <3>1 DEF ControlInv, CallInv, Using, Building
    <2>2. request[c].port \in Ports /\ request[c].start \in Sectors
            /\ request[c].page \in Pages
      BY <2>1 DEF Requests
    <2>3. Lba(request[c].start) = request[c].start
      BY <2>2, LbaExact
    <2> QED
      BY <1>2, <2>2, <2>3 DEF PortOf, Command, Commands
  <1> QED
    BY <1>1, <1>2

(* A busy port works on the command of a core that waits for it. *)
LEMMA BusyPort ==
  ASSUME DriverInv, NEW p \in Ports, port[p].phase # "idle"
  PROVE  \E c \in Cores :
           /\ pc[c] = "wait" /\ PortOf(c) = p /\ slot[c] = port[p].slot
           /\ port[p].cmd = Command(c) /\ Command(c) \in Commands
           /\ table[header[p][port[p].slot]] = Command(c)
  <1>1. PICK c \in Cores : pc[c] = "wait" /\ PortOf(c) = p /\ slot[c] = port[p].slot
    BY DEF DriverInv, PortInv
  <1>2. Command(c) \in Commands
    BY <1>1, CommandType DEF DriverInv, Using
  <1>3. table[header[p][port[p].slot]] = Command(c)
    BY <1>1 DEF DriverInv, CommandInv
  <1> QED
    BY <1>1, <1>2, <1>3 DEF DriverInv, PortInv

(* What the driver and the controller do to a port. *)
LEMMA PortTypes ==
  ASSUME NEW p \in Ports, port \in [Ports -> PortStates], NEW s \in Slots
  PROVE  /\ ClearST(p) => port' \in [Ports -> PortStates]
         /\ port' = [port EXCEPT ![p].st = TRUE] => port' \in [Ports -> PortStates]
         /\ port' = [port EXCEPT ![p].ci = @ \cup {s}]
              => port' \in [Ports -> PortStates]
  <1>1. ASSUME ClearST(p) PROVE port' \in [Ports -> PortStates]
    BY <1>1 DEF ClearST, PortStates
  <1>2. ASSUME port' = [port EXCEPT ![p].st = TRUE]
        PROVE  port' \in [Ports -> PortStates]
    BY <1>2 DEF PortStates
  <1>3. ASSUME port' = [port EXCEPT ![p].ci = @ \cup {s}]
        PROVE  port' \in [Ports -> PortStates]
    BY <1>3 DEF PortStates
  <1> QED
    BY <1>1, <1>2, <1>3

LEMMA ControllerTypes ==
  ASSUME DriverInv, NEW p \in Ports, Controller(p) \/ Fail(p)
  PROVE  port' \in [Ports -> PortStates]
  <1>1. port \in [Ports -> PortStates]
    BY DEF DriverInv, ControlInv, TypeOK, AhciTypeOK
  <1>2. CASE StartList(p)
    BY <1>1, <1>2 DEF StartList, PortStates
  <1>3. CASE StopList(p)
    <2>1. port[p] \in PortStates
      BY <1>1
    <2>2. [port[p] EXCEPT !.cr = FALSE, !.phase = "idle", !.cmd = None] \in PortStates
      BY <2>1 DEF PortStates
    <2>3. port' = [port EXCEPT ![p] = [port[p] EXCEPT !.cr = FALSE, !.phase = "idle",
                                                      !.cmd = None]]
      BY <1>3 DEF StopList
    <2> QED
      BY <1>1, <2>2, <2>3
  <1>4. CASE Fetch(p)
    <2>1. PICK s \in port[p].ci :
            port' = [port EXCEPT ![p].phase = "fetched", ![p].slot = s,
                                 ![p].cmd = table[header[p][s]]]
      BY <1>4 DEF Fetch
    <2>2. s \in Slots
      BY <1>1 DEF PortStates
    <2>3. table[header[p][s]] \in Commands \cup {None}
      BY <2>2 DEF DriverInv, ControlInv, TypeOK, AhciTypeOK
    <2>4. port[p] \in PortStates
      BY <1>1
    <2>5. [port[p] EXCEPT !.phase = "fetched", !.slot = s,
                          !.cmd = table[header[p][s]]] \in PortStates
      BY <2>2, <2>3, <2>4 DEF PortStates
    <2>6. port' = [port EXCEPT ![p] = [port[p] EXCEPT !.phase = "fetched", !.slot = s,
                                                      !.cmd = table[header[p][s]]]]
      BY <2>1
    <2> QED
      BY <1>1, <2>5, <2>6
  <1>5. CASE Move(p)
    BY <1>1, <1>5 DEF Move, PortStates
  <1>6. CASE Complete(p)
    <2>1. port[p] \in PortStates
      BY <1>1
    <2>2. [port[p] EXCEPT !.phase = "idle", !.cmd = None, !.slot = 0,
                          !.ci = @ \ {port[p].slot}] \in PortStates
      BY <2>1, Intervals DEF PortStates
    <2>3. port' = [port EXCEPT ![p] = [port[p] EXCEPT !.phase = "idle", !.cmd = None,
                                         !.slot = 0, !.ci = @ \ {port[p].slot}]]
      BY <1>6 DEF Complete
    <2> QED
      BY <1>1, <2>2, <2>3
  <1>7. CASE Fail(p)
    BY <1>1, <1>7 DEF Fail, PortStates
  <1> QED
    BY <1>2, <1>3, <1>4, <1>5, <1>6, <1>7 DEF Controller

LEMMA UsedIsFinite ==
  IsFiniteSet(Used) /\ Cardinality(Used) \in Nat
    /\ Cardinality(Used) <= Cardinality(Inodes)
  BY BfsAssumption, FS_Subset, FS_CardinalityType DEF Used

(* The loops of the file operations. *)
LEMMA FileLoops ==
  ASSUME NEW f \in Inodes, Drive0 \in Ports,
         NEW from \in 0 .. MaxCount, NEW end \in 0 .. MaxCount, NEW w \in BOOLEAN
  PROVE  Loop(Drive0, StartOf(f), from, end, w, By(f, end)) \in Loops
    /\ LoopOK(Loop(Drive0, StartOf(f), from, end, w, By(f, end)))
  <1>1. /\ FileLength[f] \in Nat /\ blockNumber[f] \in Nat /\ SuperSectors \in Nat
        /\ from \in Nat /\ end \in Nat /\ end <= MaxCount /\ MaxCount \in Nat
    BY BfsAssumption
  <1>2. StartOf(f) \in Nat
    BY <1>1 DEF StartOf, FilesSector
  <1>3. Loop(Drive0, StartOf(f), from, end, w, By(f, end)) \in Loops
    BY <1>1, <1>2 DEF Loop, Loops, By, Callers
  <1>4. ASSUME NEW k \in from .. end - 1
        PROVE  /\ StartOf(f) + k \in Sectors /\ k - from \in Pages
               /\ \/ StartOf(f) + k \in SectorsOf(f)
                  \/ /\ end > FileLength[f]
                     /\ StartOf(f) + k \in FirstSectors(f, end)
    <2>1. k \in 0 .. MaxCount - 1 /\ k - from \in 0 .. MaxCount - 1 /\ k \in 0 .. end - 1
      BY <1>1
    <2>2. StartOf(f) + k \in Sectors /\ k - from \in Pages
      BY <1>1, <2>1, LayoutAssumption DEF StartOf, FilesSector
    <2>3. StartOf(f) + k \in FirstSectors(f, end)
      BY <2>1 DEF StartOf, FirstSectors
    <2>4. CASE end > FileLength[f]
      BY <2>2, <2>3, <2>4
    <2>5. CASE end <= FileLength[f]
      <3>1. k \in 0 .. FileLength[f] - 1
        BY <1>1, <2>1, <2>5
      <3> QED
        BY <2>2, <3>1 DEF StartOf, SectorsOf, FirstSectors
    <2> QED
      BY <1>1, <2>4, <2>5
  <1> DEFINE l == Loop(Drive0, StartOf(f), from, end, w, By(f, end))
  <1>5. /\ l.from = from /\ l.i = from /\ l.end = end /\ l.first = StartOf(f)
        /\ l.port = Drive0 /\ l.by.file = f
    BY DEF Loop, By
  <1>6. LoopOK(l)
    <2> HIDE DEF l
    <2> QED
      BY <1>1, <1>4, <1>5 DEF LoopOK, Owns
  <1> QED
    BY <1>3, <1>6

(* ... and of the boot. *)
LEMMA BootLoops ==
  ASSUME Drive0 \in Ports
  PROVE  /\ SuperLoop \in Loops /\ LoopOK(SuperLoop)
         /\ BmpLoop \in Loops /\ LoopOK(BmpLoop)
  <1>1. \A k \in Nat : 0 + k = k /\ k - 0 = k
    OBVIOUS
  <1>2. SuperLoop \in Loops /\ BmpLoop \in Loops
    BY BfsAssumption DEF SuperLoop, BmpLoop, Loop, Loops, By, Callers, BmpOverrun
  <1>3. LoopOK(SuperLoop)
    BY <1>1, BfsAssumption, LayoutAssumption DEF SuperLoop, Loop, LoopOK
  <1>4. LoopOK(BmpLoop)
    BY <1>1, BfsAssumption, LayoutAssumption DEF BmpLoop, Loop, LoopOK, BmpOverrun
  <1> QED
    BY <1>2, <1>3, <1>4

-----------------------------------------------------------------------------
(* Types. *)

LEMMA InitTypeOK == Init => TypeOK
  <1> SUFFICES ASSUME Init PROVE TypeOK
    OBVIOUS
  <1> USE DEF Init, AhciInit
  <1>1. disk \in [Ports -> [Sectors -> Contents]]
    BY DEF Contents
  <1>2. memory \in [Cores -> [Pages -> Contents]]
    BY DEF Contents
  <1>3. /\ header \in [Ports -> [Slots -> Ports \cup {Low}]]
        /\ table \in [Ports \cup {Low} -> Commands \cup {None}]
    OBVIOUS
  <1>4. port \in [Ports -> PortStates]
    BY Intervals DEF PortStates
  <1>5. /\ pc \in [Cores -> Using \cup {"idle", "ports", "spin", "halted"}]
        /\ slot \in [Cores -> Slots] /\ request \in [Cores -> Requests \cup {None}]
        /\ drives \in Seq(Ports)
    BY Intervals
  <1>6. known \in 0 .. Cardinality(Inodes) + Garbage
    BY Intervals, BfsAssumption
  <1> QED
    BY <1>1, <1>2, <1>3, <1>4, <1>5, <1>6 DEF TypeOK, AhciTypeOK

LEMMA NextTypeOK == DriverInv /\ Next => TypeOK'
  <1> SUFFICES ASSUME DriverInv, Next PROVE TypeOK'
    OBVIOUS
  <1>0. ControlInv /\ TypeOK
    BY DEF DriverInv, ControlInv
  <1>a. disk \in [Ports -> [Sectors -> Contents]] /\ memory \in [Cores -> [Pages -> Contents]]
    BY <1>0 DEF TypeOK, AhciTypeOK
  <1>b. port \in [Ports -> PortStates]
    BY <1>0 DEF TypeOK, AhciTypeOK
  <1>c. /\ header \in [Ports -> [Slots -> Ports \cup {Low}]]
        /\ table \in [Ports \cup {Low} -> Commands \cup {None}]
    BY <1>0 DEF TypeOK, AhciTypeOK
  <1>d. /\ pc \in [Cores -> Using \cup {"idle", "ports", "spin", "halted"}]
        /\ slot \in [Cores -> Slots] /\ request \in [Cores -> Requests \cup {None}]
        /\ lock \in BOOLEAN /\ scan \in Nat /\ drives \in Seq(Ports)
    BY <1>0 DEF TypeOK, AhciTypeOK
  <1>e. /\ stage \in {"ports", "mount", "mounted", "draw", "up"}
        /\ op \in [Cores -> Loops \cup {None}]
        /\ known \in 0 .. Cardinality(Inodes) + Garbage
    BY <1>0 DEF TypeOK
  <1>f. BootCore \in Cores
    BY AhciAssumption
  <1> USE DEF controller, driver, ahciVars, bfsVars
  <1>1. ASSUME SkipPort \/ InitSATAdevice \/ PortsDone, UNCHANGED bfsVars
        PROVE  TypeOK'
    <2>1. pc' \in [Cores -> Using \cup {"idle", "ports", "spin", "halted"}]
      BY <1>1, <1>d DEF SkipPort, InitSATAdevice, PortsDone, Goto, Using
    <2>2. scan' \in Nat
      BY <1>1, <1>d DEF SkipPort, InitSATAdevice, PortsDone
    <2> QED
      BY <1>1, <1>a, <1>b, <1>c, <1>d, <1>e, <2>1, <2>2
         DEF SkipPort, InitSATAdevice, PortsDone, TypeOK, AhciTypeOK
  <1>2. ASSUME AddDrive, UNCHANGED bfsVars PROVE TypeOK'
    <2>1. pc' \in [Cores -> Using \cup {"idle", "ports", "spin", "halted"}]
      BY <1>2, <1>d DEF AddDrive, Goto
    <2>2. scan' \in Nat /\ drives' \in Seq(Ports)
      BY <1>2, <1>d DEF AddDrive
    <2> QED
      BY <1>2, <1>a, <1>b, <1>c, <1>d, <1>e, <2>1, <2>2
         DEF AddDrive, TypeOK, AhciTypeOK
  <1>3. ASSUME NEW c \in Cores, Spin(c), UNCHANGED bfsVars PROVE TypeOK'
    BY <1>3, <1>a, <1>b, <1>c, <1>d, <1>e
       DEF Spin, SpinLock, SpinsTooLong, Goto, Using, TypeOK, AhciTypeOK
  <1>4. ASSUME NEW c \in Cores, Build(c), UNCHANGED bfsVars PROVE TypeOK'
    <2>0. pc[c] \in Using
      BY <1>4 DEF Build, FindCMD, WriteHeader, WriteTable, Goto, Using, Building
    <2>1. pc' \in [Cores -> Using \cup {"idle", "ports", "spin", "halted"}]
      BY <1>4, <1>d DEF Build, FindCMD, WriteHeader, WriteTable, Goto, Using, Building
    <2>2. slot' \in [Cores -> Slots]
      BY <1>4, <1>d DEF Build, FindCMD, WriteHeader, WriteTable
    <2>3. header' \in [Ports -> [Slots -> Ports \cup {Low}]]
      BY <1>4, <1>c, <2>0, <1>0, CommandType, Intervals
         DEF Build, FindCMD, WriteHeader, WriteTable
    <2>4. table' \in [Ports \cup {Low} -> Commands \cup {None}]
      BY <1>4, <1>c, <1>d, <2>0, <1>0, CommandType
         DEF Build, FindCMD, WriteHeader, WriteTable
    <2> QED
      BY <1>4, <1>a, <1>b, <1>d, <1>e, <2>1, <2>2, <2>3, <2>4
         DEF Build, FindCMD, WriteHeader, WriteTable, TypeOK, AhciTypeOK
  <1>5. ASSUME NEW c \in Cores, SendCommand(c), UNCHANGED bfsVars PROVE TypeOK'
    <2>0. pc[c] \in Using
      BY <1>5 DEF SendCommand, WaitReady, StartPort, Issue, WaitDone, Goto, Using, Building
    <2>1. pc' \in [Cores -> Using \cup {"idle", "ports", "spin", "halted"}]
      BY <1>5, <1>d DEF SendCommand, WaitReady, StartPort, Issue, WaitDone, Goto,
         Using, Building
    <2>2. PortOf(c) \in Ports /\ slot[c] \in Slots
      BY <1>d, <2>0, <1>0, CommandType
    <2>3. \/ ClearST(PortOf(c))
          \/ port' = [port EXCEPT ![PortOf(c)].st = TRUE]
          \/ port' = [port EXCEPT ![PortOf(c)].ci = @ \cup {slot[c]}]
      BY <1>5 DEF SendCommand, WaitReady, StartPort, Issue, WaitDone
    <2>4. port' \in [Ports -> PortStates]
      BY <1>b, <2>2, <2>3, PortTypes
    <2> QED
      BY <1>5, <1>a, <1>c, <1>d, <1>e, <2>1, <2>4
         DEF SendCommand, WaitReady, StartPort, Issue, WaitDone, TypeOK, AhciTypeOK
  <1>6. ASSUME NEW c \in Cores, Return(c), UNCHANGED bfsVars PROVE TypeOK'
    <2>1. pc' \in [Cores -> Using \cup {"idle", "ports", "spin", "halted"}]
      BY <1>6, <1>d DEF Return, Goto
    <2>2. slot' \in [Cores -> Slots] /\ request' \in [Cores -> Requests \cup {None}]
      BY <1>6, <1>d, Intervals DEF Return, ForgetCall
    <2>3. table' \in [Ports \cup {Low} -> Commands \cup {None}]
      BY <1>6, <1>c DEF Return, ForgetCall
    <2> QED
      BY <1>6, <1>a, <1>b, <1>c, <1>d, <1>e, <2>1, <2>2, <2>3
         DEF Return, TypeOK, AhciTypeOK
  <1>7. ASSUME NEW p \in Ports, Controller(p) \/ Fail(p), UNCHANGED bfsVars
        PROVE  TypeOK'
    <2>1. port' \in [Ports -> PortStates]
      BY <1>7, ControllerTypes
    <2>2. CASE ~Move(p)
      BY <1>7, <1>a, <1>c, <1>d, <1>e, <2>1, <2>2
         DEF Controller, StartList, StopList, Fetch, Complete, Fail, TypeOK, AhciTypeOK
    <2>3. CASE Move(p)
      <3>1. port[p].cmd \in Commands /\ table[header[p][port[p].slot]] = port[p].cmd
        BY <2>3, BusyPort DEF Move
      <3>2. /\ port[p].cmd.lba \in Sectors
            /\ port[p].cmd.dba[1] \in Cores /\ port[p].cmd.dba[2] \in Pages
        BY <3>1 DEF Commands
      <3> DEFINE cmd == port[p].cmd
                 k == cmd.dba[1]
                 g == cmd.dba[2]
      <3>a. cmd.lba \in Sectors /\ k \in Cores /\ g \in Pages
        BY <3>2
      <3>b. disk[p][cmd.lba] \in Contents /\ memory[k][g] \in Contents
        BY <1>a, <3>a
      <3>c. /\ [memory EXCEPT ![k][g] = disk[p][cmd.lba]] \in [Cores -> [Pages -> Contents]]
            /\ [disk EXCEPT ![p][cmd.lba] = memory[k][g]] \in [Ports -> [Sectors -> Contents]]
        BY <1>a, <3>a, <3>b
      <3>d. \/ memory' = [memory EXCEPT ![k][g] = disk[p][cmd.lba]] /\ disk' = disk
            \/ disk' = [disk EXCEPT ![p][cmd.lba] = memory[k][g]] /\ memory' = memory
            \/ disk' = disk /\ memory' = memory
        BY <2>3, <3>1 DEF Move
      <3> HIDE DEF cmd, k, g
      <3>3. disk' \in [Ports -> [Sectors -> Contents]] /\ memory' \in [Cores -> [Pages -> Contents]]
        BY <1>a, <3>c, <3>d
      <3> QED
        BY <1>7, <1>c, <1>d, <1>e, <2>1, <2>3, <3>3 DEF Move, TypeOK, AhciTypeOK
    <2> QED
      BY <2>2, <2>3
  <1>8. CASE ReadSuperBlock
    <2>1. Drive0 \in Ports
      BY <1>8, <1>0, FirstDrive DEF ReadSuperBlock
    <2>2. SuperLoop \in Loops
      BY <2>1, BootLoops
    <2> QED
      BY <1>8, <1>a, <1>b, <1>c, <1>d, <1>e, <2>2
         DEF ReadSuperBlock, SuperLoop, TypeOK, AhciTypeOK
  <1>15. CASE DrawBmp
    <2>1. Drive0 \in Ports
      BY <1>15, <1>0, FirstDrive DEF DrawBmp, ControlInv, BootInv
    <2>2. BmpLoop \in Loops
      BY <2>1, BootLoops
    <2> QED
      BY <1>15, <1>a, <1>b, <1>c, <1>d, <1>e, <2>2
         DEF DrawBmp, BmpLoop, TypeOK, AhciTypeOK
  <1>16. CASE BmpDrawn
    <2>1. op' \in [Cores -> Loops \cup {None}] /\ memory' \in [Cores -> [Pages -> Contents]]
      BY <1>16, <1>a, <1>e DEF BmpDrawn, LoopEnds, Contents
    <2> QED
      BY <1>16, <1>a, <1>b, <1>c, <1>d, <1>e, <2>1
         DEF BmpDrawn, LoopEnds, TypeOK, AhciTypeOK
  <1>9. CASE CountInodes
    <2>1. op' \in [Cores -> Loops \cup {None}] /\ memory' \in [Cores -> [Pages -> Contents]]
      BY <1>9, <1>a, <1>e DEF CountInodes, LoopEnds, Contents
    <2>2. known' \in 0 .. Cardinality(Inodes) + Garbage
      <3>1. Cardinality(Used) \in Nat /\ Cardinality(Used) <= Cardinality(Inodes)
        BY UsedIsFinite
      <3> QED
        BY <1>9, <1>e, <3>1, Intervals, BfsAssumption DEF CountInodes
    <2> QED
      BY <1>9, <1>a, <1>b, <1>c, <1>d, <1>e, <2>1, <2>2
         DEF CountInodes, LoopEnds, TypeOK, AhciTypeOK
  <1>10. ASSUME NEW c \in Cores, NextSector(c) PROVE TypeOK'
    <2>1. op[c] \in Loops /\ LoopOK(op[c])
      BY <1>10, <1>0, <1>e DEF NextSector, ControlInv, LoopInv
    <2>2. [port |-> op[c].port, start |-> op[c].first + op[c].i,
           page |-> op[c].i - op[c].from, w |-> op[c].w] \in Requests
      BY <1>10, <2>1, NextRequest DEF NextSector
    <2>3. request' \in [Cores -> Requests \cup {None}]
      BY <1>10, <1>d, <2>2 DEF NextSector, SataRW
    <2>4. op' \in [Cores -> Loops \cup {None}]
      BY <1>10, <1>e, <2>1 DEF NextSector, Loops
    <2>5. pc' \in [Cores -> Using \cup {"idle", "ports", "spin", "halted"}]
      BY <1>10, <1>d DEF NextSector, SataRW, Goto
    <2> QED
      BY <1>10, <1>a, <1>b, <1>c, <1>d, <1>e, <2>3, <2>4, <2>5
         DEF NextSector, SataRW, TypeOK, AhciTypeOK
  <1>11. ASSUME NEW c \in Cores, FileOpEnds(c) PROVE TypeOK'
    <2>1. op' \in [Cores -> Loops \cup {None}] /\ memory' \in [Cores -> [Pages -> Contents]]
      BY <1>11, <1>a, <1>e DEF FileOpEnds, LoopEnds, Contents
    <2> QED
      BY <1>11, <1>a, <1>b, <1>c, <1>d, <1>e, <2>1
         DEF FileOpEnds, LoopEnds, TypeOK, AhciTypeOK
  <1>12. ASSUME NEW c \in Cores, ReadIn(c) \/ Fopen(c) PROVE TypeOK'
    <2>1. Drive0 \in Ports
      BY <1>12, <1>0, FirstDrive DEF ReadIn, Fopen, Free, ControlInv, BootInv
    <2>2. \A f \in Inodes, from, end \in 0 .. MaxCount :
            Loop(Drive0, StartOf(f), from, end, FALSE, By(f, end)) \in Loops
      BY <2>1, FileLoops
    <2>3. 0 \in 0 .. MaxCount
      BY BfsAssumption
    <2>4. \E l \in Loops \cup {None} : op' = [op EXCEPT ![c] = l]
      <3>1. CASE ReadIn(c)
        BY <3>1, <2>2 DEF ReadIn
      <3>2. CASE Fopen(c)
        BY <3>2, <2>2, <2>3 DEF Fopen
      <3> QED
        BY <1>12, <3>1, <3>2
    <2>5. op' \in [Cores -> Loops \cup {None}]
      BY <1>e, <2>4
    <2> QED
      BY <1>12, <1>a, <1>b, <1>c, <1>d, <1>e, <2>5
         DEF ReadIn, Fopen, TypeOK, AhciTypeOK
  <1>13. ASSUME NEW c \in Cores, WriteBack(c) PROVE TypeOK'
    <2>1. Drive0 \in Ports
      BY <1>13, <1>0, FirstDrive DEF WriteBack, Free, ControlInv, BootInv
    <2>2. \A f \in Inodes, end \in 0 .. MaxCount :
            Loop(Drive0, StartOf(f), 0, end, TRUE, By(f, end)) \in Loops
      <3>1. 0 \in 0 .. MaxCount
        BY BfsAssumption
      <3> QED
        BY <2>1, <3>1, FileLoops
    <2>4. op' \in [Cores -> Loops \cup {None}]
      BY <1>13, <1>e, <2>2 DEF WriteBack
    <2>3. memory' \in [Cores -> [Pages -> Contents]]
      BY <1>13, <1>a DEF WriteBack, Contents
    <2> QED
      BY <1>13, <1>a, <1>b, <1>c, <1>d, <1>e, <2>3, <2>4
         DEF WriteBack, TypeOK, AhciTypeOK
  <1>14. ASSUME NEW c \in Cores, DirectRW(c) PROVE TypeOK'
    <2>1. \A p \in Direct, w \in BOOLEAN : Loop(p, 0, 0, 1, w, By(None, 1)) \in Loops
      BY BfsAssumption, AhciAssumption DEF Loop, Loops, By, Callers
    <2>2. op' \in [Cores -> Loops \cup {None}]
      BY <1>14, <1>e, <2>1 DEF DirectRW
    <2>3. memory' \in [Cores -> [Pages -> Contents]]
      BY <1>14, <1>a DEF DirectRW, Contents
    <2> QED
      BY <1>14, <1>a, <1>b, <1>c, <1>d, <1>e, <2>2, <2>3
         DEF DirectRW, TypeOK, AhciTypeOK
  <1> QED
    BY <1>1, <1>2, <1>3, <1>4, <1>5, <1>6, <1>7, <1>8, <1>9, <1>10, <1>11,
       <1>12, <1>13, <1>14, <1>15, <1>16
       DEF Next, InitAHCI, Driver, InitGFS, Draw, FileOp, Calls

-----------------------------------------------------------------------------
(* The boot, the lock and the loops. *)

LEMMA ControlTypes ==
  ASSUME DriverInv
  PROVE  /\ pc \in [Cores -> Using \cup {"idle", "ports", "spin", "halted"}]
         /\ slot \in [Cores -> Slots] /\ request \in [Cores -> Requests \cup {None}]
         /\ op \in [Cores -> Loops \cup {None}]
         /\ stage \in {"ports", "mount", "mounted", "draw", "up"}
         /\ lock \in BOOLEAN /\ scan \in Nat /\ drives \in Seq(Ports)
         /\ BootCore \in Cores
  BY AhciAssumption DEF DriverInv, ControlInv, TypeOK, AhciTypeOK

(* sendCommand and what comes before it only move one core on. *)
LEMMA DriverSteps ==
  ASSUME NEW c \in Cores, Build(c) \/ SendCommand(c), UNCHANGED bfsVars
  PROVE  /\ UNCHANGED <<lock, request, scan, drives, stage, op, known, disk, memory>>
         /\ pc[c] \in Using /\ \E l \in Using : pc' = [pc EXCEPT ![c] = l]
  <1> USE DEF Goto, Using, Building, bfsVars, controller, driver
  <1>1. CASE Build(c)
    BY <1>1 DEF Build, FindCMD, WriteHeader, WriteTable
  <1>2. CASE WaitReady(c) \/ StartPort(c)
    BY <1>2 DEF WaitReady, StartPort
  <1>3. CASE Issue(c) \/ WaitDone(c)
    BY <1>3 DEF Issue, WaitDone
  <1> QED
    BY <1>1, <1>2, <1>3 DEF SendCommand

(* initAHCI begins and ends on a port. *)
LEMMA InitAHCISteps ==
  ASSUME InitAHCI
  PROVE  /\ pc[BootCore] = "ports" \/ (pc[BootCore] = "quiet" /\ scan \in Ports)
         /\ UNCHANGED <<disk, memory, port, header, table, lock, slot, request>>
  <1> USE DEF Goto, controller, driver
  <1>1. CASE SkipPort
    BY <1>1 DEF SkipPort
  <1>2. CASE InitSATAdevice
    BY <1>2 DEF InitSATAdevice
  <1>3. CASE AddDrive
    BY <1>3 DEF AddDrive
  <1>4. CASE PortsDone
    BY <1>4 DEF PortsDone
  <1> QED
    BY <1>1, <1>2, <1>3, <1>4 DEF InitAHCI

(* The controller moves no core. *)
LEMMA ControllerSteps ==
  ASSUME NEW p \in Ports, Controller(p) \/ Fail(p), UNCHANGED bfsVars
  PROVE  UNCHANGED <<driver, pc, bfsVars>>
  BY DEF Controller, Fail, StartList, StopList, Fetch, Move, Complete

LEMMA NextBootInv == DriverInv /\ Next => BootInv'
  <1> SUFFICES ASSUME DriverInv, Next PROVE BootInv'
    OBVIOUS
  <1>0. BootInv
    BY DEF DriverInv, ControlInv
  <1>a. Ports = 0 .. Cardinality(Ports) - 1 /\ Cardinality(Ports) \in Nat
    BY AhciAssumption, Intervals
  <1> USE <1>0, ControlTypes DEF controller, driver, ahciVars, bfsVars
  <1>1. ASSUME InitAHCI, UNCHANGED bfsVars PROVE BootInv'
    <2>1. stage = "ports"
      <3>1. pc[BootCore] = "ports" \/ (pc[BootCore] = "quiet" /\ scan \in Ports)
        BY <1>1, InitAHCISteps
      <3> QED
        BY <3>1 DEF BootInv, Using
    <2>2. CASE SkipPort
      BY <1>1, <1>a, <2>1, <2>2 DEF SkipPort, BootInv, Using, Building
    <2>3. CASE InitSATAdevice
      BY <1>1, <1>a, <2>1, <2>3 DEF InitSATAdevice, BootInv, Goto
    <2>4. CASE AddDrive
      BY <1>1, <1>a, <2>1, <2>4 DEF AddDrive, BootInv, Goto, Using, Building
    <2>5. CASE PortsDone
      BY <1>1, <1>a, <2>1, <2>5 DEF PortsDone, BootInv, Goto, Using, Building
    <2> QED
      BY <1>1, <2>2, <2>3, <2>4, <2>5 DEF InitAHCI
  <1>2. ASSUME NEW c \in Cores, Spin(c), UNCHANGED bfsVars PROVE BootInv'
    BY <1>2 DEF Spin, SpinLock, SpinsTooLong, Goto, BootInv
  <1>3. ASSUME NEW c \in Cores, Build(c) \/ SendCommand(c), UNCHANGED bfsVars
        PROVE  BootInv'
    <2>1. PICK l \in Using : pc' = [pc EXCEPT ![c] = l]
      BY <1>3, DriverSteps
    <2>2. pc[c] \in Using /\ UNCHANGED <<lock, request, scan, stage, op>>
      BY <1>3, DriverSteps
    <2> QED
      BY <2>1, <2>2 DEF BootInv, Using, Building
  <1>4. ASSUME NEW c \in Cores, Return(c), UNCHANGED bfsVars PROVE BootInv'
    <2>1. stage # "ports"
      BY <1>4, AhciAssumption DEF Return, Goto, BootInv, Booting, Using
    <2> QED
      BY <1>4, <2>1 DEF Return, Goto, BootInv
  <1>5. ASSUME NEW p \in Ports, Controller(p) \/ Fail(p), UNCHANGED bfsVars
        PROVE  BootInv'
    BY <1>5, ControllerSteps DEF BootInv
  <1>6. CASE ReadSuperBlock
    <2>1. Drive0 \in Ports
      BY <1>6, FirstDrive DEF ReadSuperBlock, DriverInv
    <2>2. SuperLoop \in Loops
      BY <2>1, BootLoops
    <2> QED
      BY <1>6, <2>2 DEF ReadSuperBlock, SuperLoop, BootInv
  <1>7. CASE CountInodes \/ BmpDrawn
    BY <1>7 DEF CountInodes, BmpDrawn, LoopEnds, BootInv
  <1>10. CASE DrawBmp
    <2>1. Drive0 \in Ports
      BY <1>10, FirstDrive DEF DrawBmp, DriverInv, BootInv
    <2>2. BmpLoop \in Loops
      BY <2>1, BootLoops
    <2> QED
      BY <1>10, <2>2 DEF DrawBmp, BmpLoop, BootInv
  <1>8. ASSUME NEW c \in Cores, NextSector(c) PROVE BootInv'
    <2>1. op[c] \in Loops /\ stage # "ports"
      BY <1>8 DEF NextSector, BootInv
    <2>2. [op[c] EXCEPT !.i = @ + 1] \in Loops
      BY <2>1 DEF Loops
    <2> QED
      BY <1>8, <2>1, <2>2 DEF NextSector, SataRW, Goto, BootInv
  <1>9. ASSUME NEW c \in Cores, FileOpEnds(c) \/ Calls(c) PROVE BootInv'
    <2>1. stage = "up" /\ UNCHANGED <<stage, driver, pc>>
      BY <1>9 DEF FileOpEnds, LoopEnds, Calls, ReadIn, Fopen, WriteBack, DirectRW, Free
    <2> QED
      BY <2>1 DEF BootInv
  <1> QED
    BY <1>1, <1>2, <1>3, <1>4, <1>5, <1>6, <1>7, <1>8, <1>9, <1>10
       DEF Next, Driver, InitGFS, Draw, FileOp

LEMMA NextDrivesInv == DriverInv /\ Next => DrivesInv'
  <1> SUFFICES ASSUME DriverInv, Next PROVE DrivesInv'
    OBVIOUS
  <1>0. DrivesInv
    BY DEF DriverInv, ControlInv
  <1>1. CASE SkipPort
    BY <1>0, <1>1, ControlTypes, AhciAssumption, Intervals DEF SkipPort, DrivesInv
  <1>2. CASE AddDrive
    <2>1. scan \in Implemented \cap Ata
      BY <1>2, ControlTypes DEF AddDrive, Goto, DriverInv, ControlInv, BootInv, Using
    <2>2. drives' = Append(drives, scan) /\ scan \in Ports
      BY <1>2 DEF AddDrive
    <2>3. \A k \in 1 .. Len(drives') : drives'[k] \in Implemented \cap Ata
      BY <1>0, <2>1, <2>2, ControlTypes DEF DrivesInv
    <2>4. drives' # <<>>
      BY <2>2, ControlTypes
    <2> QED
      BY <2>3, <2>4 DEF DrivesInv
  <1>3. CASE UNCHANGED <<drives, scan>>
    BY <1>0, <1>3 DEF DrivesInv
  <1>4. SkipPort \/ AddDrive \/ UNCHANGED <<drives, scan>>
    BY DriverSteps, ControllerSteps DEF Next, InitAHCI, InitSATAdevice, PortsDone, Driver,
       Spin, SpinLock, SpinsTooLong, Return, InitGFS, ReadSuperBlock, CountInodes,
       Draw, DrawBmp, BmpDrawn, LoopEnds, FileOp,
       NextSector, SataRW, FileOpEnds, Calls, ReadIn, Fopen, WriteBack, DirectRW,
       ahciVars, driver
  <1> QED
    BY <1>1, <1>2, <1>3, <1>4

LEMMA NextLockInv == DriverInv /\ Next => LockInv'
  <1> SUFFICES ASSUME DriverInv, Next PROVE LockInv'
    OBVIOUS
  <1>0. LockInv /\ BootInv
    BY DEF DriverInv, ControlInv
  <1> USE <1>0, ControlTypes DEF LockInv, controller, driver, ahciVars, bfsVars
  <1>1. ASSUME InitAHCI, UNCHANGED bfsVars PROVE LockInv'
    <2>1. stage = "ports"
      <3>1. pc[BootCore] = "ports" \/ (pc[BootCore] = "quiet" /\ scan \in Ports)
        BY <1>1, InitAHCISteps
      <3> QED
        BY <3>1 DEF BootInv, Using
    <2>2. \A c \in Cores \ {BootCore} : pc[c] \notin Using /\ pc'[c] = pc[c]
      BY <1>1, <2>1 DEF InitAHCI, SkipPort, InitSATAdevice, AddDrive, PortsDone, Goto,
         BootInv, Using, Building
    <2> QED
      BY <1>1, <2>1, <2>2
  <1>2. ASSUME NEW c \in Cores, Spin(c), UNCHANGED bfsVars PROVE LockInv'
    <2>1. stage # "ports"
      BY <1>2 DEF Spin, SpinLock, SpinsTooLong, Goto, BootInv
    <2>2. CASE SpinLock(c)
      BY <1>2, <2>1, <2>2 DEF SpinLock, Goto
    <2>3. CASE SpinsTooLong(c)
      BY <1>2, <2>1, <2>3 DEF SpinsTooLong, Goto, Using, Building
    <2> QED
      BY <1>2, <2>2, <2>3 DEF Spin
  <1>3. ASSUME NEW c \in Cores, Build(c) \/ SendCommand(c), UNCHANGED bfsVars
        PROVE  LockInv'
    <2>1. PICK l \in Using : pc' = [pc EXCEPT ![c] = l]
      BY <1>3, DriverSteps
    <2>2. pc[c] \in Using /\ UNCHANGED <<lock, stage>>
      BY <1>3, DriverSteps
    <2> QED
      BY <2>1, <2>2
  <1>4. ASSUME NEW c \in Cores, Return(c), UNCHANGED bfsVars PROVE LockInv'
    <2>1. pc[c] \in Using
      BY <1>4 DEF Return, Goto, Using
    <2> QED
      BY <1>4, <2>1 DEF Return, Goto, Using, Building
  <1>5. ASSUME NEW p \in Ports, Controller(p) \/ Fail(p), UNCHANGED bfsVars
        PROVE  LockInv'
    BY <1>5, ControllerSteps
  <1>6. CASE ReadSuperBlock
    <2>1. \A c \in Cores : pc[c] \notin Using
      BY <1>6 DEF ReadSuperBlock, BootInv, Using, Building
    <2> QED
      BY <1>6, <2>1 DEF ReadSuperBlock
  <1>7. CASE CountInodes \/ Draw
    <2>1. \A c \in Cores : pc[c] \notin Using
      BY <1>7 DEF CountInodes, Draw, DrawBmp, BmpDrawn, LoopEnds, BootInv, Using, Building
    <2> QED
      BY <1>7, <2>1 DEF CountInodes, Draw, DrawBmp, BmpDrawn, LoopEnds
  <1>8. ASSUME NEW c \in Cores, NextSector(c) PROVE LockInv'
    BY <1>8 DEF NextSector, SataRW, Goto, Using, Building
  <1>9. ASSUME NEW c \in Cores, FileOpEnds(c) \/ Calls(c) PROVE LockInv'
    <2>1. UNCHANGED <<stage, driver, pc>>
      BY <1>9 DEF FileOpEnds, LoopEnds, Calls, ReadIn, Fopen, WriteBack, DirectRW, Free
    <2> QED
      BY <2>1
  <1> QED
    BY <1>1, <1>2, <1>3, <1>4, <1>5, <1>6, <1>7, <1>8, <1>9
       DEF Next, Driver, InitGFS, Draw, FileOp

(* What the calls put in op. *)
LEMMA DirectLoop ==
  ASSUME NEW p \in Direct, NEW w \in BOOLEAN
  PROVE  Loop(p, 0, 0, 1, w, By(None, 1)) \in Loops /\ LoopOK(Loop(p, 0, 0, 1, w, By(None, 1)))
  <1>1. p \in Ports
    BY BfsAssumption, AhciAssumption
  <1> QED
    BY <1>1, Intervals DEF Loop, Loops, LoopOK, By, Callers, Owns

LEMMA CalledLoop ==
  ASSUME DriverInv, NEW c \in Cores, Calls(c)
  PROVE  /\ \E l \in Loops \cup {None} :
              op' = [op EXCEPT ![c] = l] /\ (l \in Loops => LoopOK(l))
         /\ stage = "up" /\ pc[c] = "idle" /\ op[c] = None
         /\ UNCHANGED <<disk, port, driver, pc, stage, known>>
  <1>0. stage = "up" /\ pc[c] = "idle" /\ op[c] = None
    BY DEF Calls, ReadIn, Fopen, WriteBack, DirectRW, Free
  <1>1. Drive0 \in Ports
    BY <1>0, FirstDrive DEF DriverInv, ControlInv, BootInv
  <1>2. 0 \in 0 .. MaxCount
    BY BfsAssumption
  <1>3. \A f \in Inodes, from, end \in 0 .. MaxCount, w \in BOOLEAN :
          /\ Loop(Drive0, StartOf(f), from, end, w, By(f, end)) \in Loops
          /\ LoopOK(Loop(Drive0, StartOf(f), from, end, w, By(f, end)))
    BY <1>1, FileLoops
  <1>4. None \notin Loops
    BY NoLoopAssumption
  <1>5. UNCHANGED <<disk, port, driver, pc, stage, known>>
    BY DEF Calls, ReadIn, Fopen, WriteBack, DirectRW, ahciVars, controller
  <1>6. CASE ReadIn(c)
    <2>1. PICK f \in Inodes : \E start, count \in 0 .. MaxCount :
            op' = [op EXCEPT ![c] =
                     IF Found(f) THEN Loop(Drive0, StartOf(f), start, count, FALSE, By(f, count))
                                 ELSE None]
      BY <1>6 DEF ReadIn
    <2> QED
      BY <1>0, <1>3, <1>4, <1>5, <2>1
  <1>7. CASE Fopen(c)
    <2>1. PICK f \in Inodes : \E size \in 0 .. MaxCount :
            op' = [op EXCEPT ![c] =
                     IF Found(f) THEN Loop(Drive0, StartOf(f), 0, size, FALSE, By(f, size))
                                 ELSE None]
      BY <1>7 DEF Fopen
    <2> QED
      BY <1>0, <1>2, <1>3, <1>4, <1>5, <2>1
  <1>8. CASE WriteBack(c)
    <2>1. PICK f \in Inodes : \E count \in 0 .. MaxCount :
            op' = [op EXCEPT ![c] = Loop(Drive0, StartOf(f), 0, count, TRUE, By(f, count))]
      BY <1>8 DEF WriteBack
    <2> QED
      BY <1>0, <1>2, <1>3, <1>5, <2>1
  <1>9. CASE DirectRW(c)
    <2>1. PICK p \in Direct, w \in BOOLEAN : op' = [op EXCEPT ![c] = Loop(p, 0, 0, 1, w, By(None, 1))]
      BY <1>9 DEF DirectRW
    <2> QED
      BY <1>0, <1>5, <2>1, DirectLoop
  <1> QED
    BY <1>6, <1>7, <1>8, <1>9 DEF Calls

LEMMA LoopOKStays ==
  ASSUME UNCHANGED drives, NEW l, LoopOK(l)
  PROVE  LoopOK(l)'
  BY DEF LoopOK, Owns, Drive0

LEMMA NextLoopInv == DriverInv /\ Next => LoopInv'
  <1> SUFFICES ASSUME DriverInv, Next PROVE LoopInv'
    OBVIOUS
  <1>0. LoopInv /\ BootInv
    BY DEF DriverInv, ControlInv
  <1>a. None \notin Loops
    BY NoLoopAssumption
  <1> USE <1>a, ControlTypes DEF controller, driver, ahciVars, bfsVars
  <1>1. ASSUME UNCHANGED <<op, drives>> PROVE LoopInv'
    BY <1>0, <1>1, LoopOKStays DEF LoopInv
  <1>2. ASSUME InitAHCI, UNCHANGED bfsVars PROVE LoopInv'
    <2>1. stage = "ports"
      BY <1>0, <1>2, InitAHCISteps DEF BootInv, Using
    <2> QED
      BY <1>0, <1>2, <2>1 DEF BootInv, LoopInv
  <1>3. ASSUME NEW c \in Cores, Spin(c) \/ Driver(c), UNCHANGED bfsVars
        PROVE  LoopInv'
    BY <1>1, <1>3, DriverSteps DEF Spin, SpinLock, SpinsTooLong, Driver, Return
  <1>4. ASSUME NEW p \in Ports, Controller(p) \/ Fail(p), UNCHANGED bfsVars
        PROVE  LoopInv'
    BY <1>1, <1>4, ControllerSteps
  <1>5. ASSUME NEW l, op' = [op EXCEPT ![BootCore] = l], UNCHANGED drives, LoopOK(l),
               \A c \in Cores \ {BootCore} : op[c] = None
        PROVE  LoopInv'
    <2>1. \A d \in Cores : op'[d] \in Loops => LoopOK(op'[d])
      BY <1>5
    <2> QED
      BY <1>5, <2>1 DEF LoopInv, LoopOK, Owns, Drive0
  <1>9. CASE ReadSuperBlock
    <2>1. Drive0 \in Ports /\ UNCHANGED drives
      BY <1>9, FirstDrive DEF ReadSuperBlock, DriverInv
    <2>2. LoopOK(SuperLoop)
      BY <2>1, BootLoops
    <2> QED
      BY <1>0, <1>5, <1>9, <2>1, <2>2 DEF ReadSuperBlock, BootInv, SuperLoop
  <1>10. CASE DrawBmp
    <2>1. Drive0 \in Ports /\ UNCHANGED drives
      BY <1>0, <1>10, FirstDrive DEF DrawBmp, DriverInv, BootInv
    <2>2. LoopOK(BmpLoop)
      BY <2>1, BootLoops
    <2> QED
      BY <1>0, <1>5, <1>10, <2>1, <2>2 DEF DrawBmp, BootInv, BmpLoop
  <1>6. ASSUME NEW c \in Cores, CountInodes \/ BmpDrawn \/ FileOpEnds(c) PROVE LoopInv'
    <2>1. UNCHANGED drives /\ \E d \in Cores : op' = [op EXCEPT ![d] = None]
      BY <1>6 DEF CountInodes, BmpDrawn, FileOpEnds, LoopEnds
    <2> QED
      BY <1>0, <2>1, LoopOKStays DEF LoopInv
  <1>7. ASSUME NEW c \in Cores, NextSector(c) PROVE LoopInv'
    <2>1. op[c] \in Loops /\ LoopOK(op[c]) /\ UNCHANGED drives
      BY <1>0, <1>7 DEF NextSector, SataRW, LoopInv
    <2>2. LoopOK([op[c] EXCEPT !.i = @ + 1])
      <3> DEFINE l == [op[c] EXCEPT !.i = @ + 1]
      <3>1. /\ l.first = op[c].first /\ l.from = op[c].from /\ l.end = op[c].end
            /\ l.w = op[c].w /\ l.port = op[c].port /\ l.by = op[c].by
            /\ l.i = op[c].i + 1 /\ op[c].i \in Nat /\ op[c].from \in Nat
        BY <2>1 DEF Loops
      <3> HIDE DEF l
      <3> QED
        BY <2>1, <3>1 DEF LoopOK, Owns
    <2>3. \A d \in Cores : op'[d] = IF d = c THEN [op[c] EXCEPT !.i = @ + 1] ELSE op[d]
      BY <1>7 DEF NextSector
    <2>4. \A d \in Cores : op'[d] \in Loops => LoopOK(op'[d])
      BY <1>0, <2>2, <2>3 DEF LoopInv
    <2> QED
      BY <2>1, <2>4 DEF LoopInv, LoopOK, Owns, Drive0
  <1>8. ASSUME NEW c \in Cores, Calls(c) PROVE LoopInv'
    <2>1. PICK l \in Loops \cup {None} :
            op' = [op EXCEPT ![c] = l] /\ (l \in Loops => LoopOK(l))
      BY <1>8, CalledLoop
    <2>2. UNCHANGED drives
      BY <1>8, CalledLoop
    <2>3. \A d \in Cores : op'[d] \in Loops => LoopOK(op'[d])
      BY <1>0, <2>1 DEF LoopInv
    <2> QED
      BY <2>2, <2>3 DEF LoopInv, LoopOK, Owns, Drive0
  <1> QED
    BY <1>2, <1>3, <1>4, <1>6, <1>7, <1>8, <1>9, <1>10
       DEF Next, InitGFS, Draw, FileOp

LEMMA NextCallInv == DriverInv /\ Next => CallInv'
  <1> SUFFICES ASSUME DriverInv, Next PROVE CallInv'
    OBVIOUS
  <1>0. CallInv /\ BootInv
    BY DEF DriverInv, ControlInv
  <1>a. None \notin Requests /\ None \notin Loops
    BY NoneAssumption, NoLoopAssumption
  <1> USE <1>0, <1>a, ControlTypes DEF controller, driver, ahciVars, bfsVars
  <1>1. ASSUME InitAHCI, UNCHANGED bfsVars PROVE CallInv'
    <2>1. stage = "ports" /\ UNCHANGED request
      BY <1>1, InitAHCISteps DEF BootInv, Using
    <2> QED
      BY <1>1, <2>1 DEF BootInv, CallInv
  <1>2. ASSUME NEW c \in Cores, Spin(c), UNCHANGED bfsVars PROVE CallInv'
    BY <1>2 DEF Spin, SpinLock, SpinsTooLong, Goto, CallInv
  <1>3. ASSUME NEW c \in Cores, Build(c) \/ SendCommand(c), UNCHANGED bfsVars
        PROVE  CallInv'
    <2>1. PICK l \in Using : pc' = [pc EXCEPT ![c] = l]
      BY <1>3, DriverSteps
    <2>2. pc[c] \in Using /\ UNCHANGED <<request, stage, op>>
      BY <1>3, DriverSteps
    <2> QED
      BY <2>1, <2>2 DEF CallInv, Using, Building
  <1>4. ASSUME NEW c \in Cores, Return(c), UNCHANGED bfsVars PROVE CallInv'
    BY <1>4 DEF Return, Goto, ForgetCall, CallInv
  <1>5. ASSUME NEW p \in Ports, Controller(p) \/ Fail(p), UNCHANGED bfsVars
        PROVE  CallInv'
    BY <1>5, ControllerSteps DEF CallInv
  <1>6. CASE ReadSuperBlock \/ DrawBmp
    BY <1>6 DEF ReadSuperBlock, DrawBmp, BootInv, CallInv
  <1>7. ASSUME NEW c \in Cores, CountInodes \/ BmpDrawn \/ FileOpEnds(c) PROVE CallInv'
    <2>1. UNCHANGED <<request, pc>> /\ stage # "ports" /\ stage' # "ports"
      BY <1>7 DEF CountInodes, BmpDrawn, FileOpEnds, LoopEnds
    <2>2. PICK d \in Cores : pc[d] = "idle" /\ op' = [op EXCEPT ![d] = None]
      BY <1>7 DEF CountInodes, BmpDrawn, FileOpEnds, LoopEnds
    <2>3. request[d] = None
      BY <2>1, <2>2 DEF CallInv
    <2> QED
      BY <2>1, <2>2, <2>3 DEF CallInv
  <1>8. ASSUME NEW c \in Cores, NextSector(c) PROVE CallInv'
    <2>1. op[c] \in Loops /\ LoopOK(op[c]) /\ op[c].i < op[c].end
      BY <1>8 DEF NextSector, DriverInv, ControlInv, LoopInv
    <2>2. DEFINE r == [port |-> op[c].port, start |-> op[c].first + op[c].i,
                       page |-> op[c].i - op[c].from, w |-> op[c].w]
                 l == [op[c] EXCEPT !.i = @ + 1]
    <2>3. r \in Requests
      BY <2>1, NextRequest
    <2>a. /\ op[c].i \in Nat /\ op[c].first \in Nat /\ op[c].from \in Nat
          /\ op[c].end \in Nat /\ op[c].from <= op[c].i
      BY <2>1 DEF Loops, LoopOK
    <2>b. /\ l.port = op[c].port /\ l.first = op[c].first /\ l.from = op[c].from
          /\ l.end = op[c].end /\ l.w = op[c].w /\ l.i = op[c].i + 1
      BY <2>1 DEF Loops
    <2>c. l \in Loops
      BY <2>1 DEF Loops
    <2>d. l.from < l.i /\ l.i <= l.end
      BY <2>1, <2>a, <2>b
    <2>4. l \in Loops /\ l.from < l.i /\ l.i <= l.end
      BY <2>c, <2>d
    <2>e. l.first + l.i - 1 = op[c].first + op[c].i /\ l.i - 1 - l.from = op[c].i - op[c].from
      BY <2>a, <2>b
    <2>5. r = [port |-> l.port, start |-> l.first + l.i - 1,
               page |-> l.i - 1 - l.from, w |-> l.w]
      BY <2>b, <2>e
    <2>6. op' = [op EXCEPT ![c] = l] /\ request' = [request EXCEPT ![c] = r]
            /\ pc' = [pc EXCEPT ![c] = "spin"] /\ UNCHANGED stage
      BY <1>8 DEF NextSector, SataRW, Goto
    <2> HIDE DEF r, l
    <2> QED
      BY <2>3, <2>4, <2>5, <2>6 DEF CallInv
  <1>9. ASSUME NEW c \in Cores, Calls(c) PROVE CallInv'
    <2>1. PICK l \in Loops \cup {None} : op' = [op EXCEPT ![c] = l]
      BY <1>9, CalledLoop
    <2>2. UNCHANGED <<request, pc, stage>> /\ pc[c] = "idle" /\ stage = "up"
      BY <1>9, CalledLoop
    <2>3. request[c] = None
      BY <2>2 DEF CallInv
    <2> QED
      BY <2>1, <2>2, <2>3 DEF CallInv
  <1> QED
    BY <1>1, <1>2, <1>3, <1>4, <1>5, <1>6, <1>7, <1>8, <1>9
       DEF Next, Driver, InitGFS, Draw, FileOp

-----------------------------------------------------------------------------
(* The commands. *)

(* When no core waits for a command, every port is at rest. *)
LEMMA NobodyWaits ==
  ASSUME DriverInv, \A c \in Cores : pc[c] # "wait"
  PROVE  \A p \in Ports : port[p].ci = {} /\ port[p].phase = "idle"
  BY DEF DriverInv, PortInv

LEMMA OneCoreInDriver ==
  ASSUME DriverInv, NEW c \in Cores, pc[c] \in Using
  PROVE  \A d \in Cores : d # c => pc[d] \notin Using
  BY DEF DriverInv, ControlInv, LockInv

(* During initAHCI nobody waits, and the boot core has no command in hand. *)
LEMMA InitAHCIAlone ==
  ASSUME DriverInv, InitAHCI, UNCHANGED bfsVars
  PROVE  \A c \in Cores :
           /\ pc[c] # "wait"
           /\ pc'[c] \notin {"ready", "stopped", "issue", "wait"}
  <1>0. BootInv
    BY DEF DriverInv, ControlInv
  <1>1. stage = "ports"
    BY <1>0, ControlTypes, InitAHCISteps DEF BootInv, Using
  <1>2. \A c \in Cores \ {BootCore} : pc[c] = "idle"
    BY <1>0, <1>1 DEF BootInv
  <1>3. pc[BootCore] \in {"ports", "quiet"}
    BY InitAHCISteps
  <1>4. \A c \in Cores : pc'[c] \notin {"ready", "stopped", "issue", "wait"}
    BY <1>2, <1>3, ControlTypes DEF InitAHCI, SkipPort, InitSATAdevice, AddDrive,
       PortsDone, Goto
  <1> QED
    BY <1>2, <1>3, <1>4

(* What CommandInv and PortInv say about a core that has a command in hand *)
(* is about these variables.                                               *)
LEMMA CommandKept ==
  ASSUME UNCHANGED <<header, slot, scan>>, NEW c \in Cores, request'[c] = request[c]
  PROVE  PortOf(c)' = PortOf(c) /\ Command(c)' = Command(c)
  BY DEF PortOf, Command, Booting

LEMMA NextCommandInv == DriverInv /\ Next => CommandInv'
  <1> SUFFICES ASSUME DriverInv, Next PROVE CommandInv'
    OBVIOUS
  <1>0. CommandInv
    BY DEF DriverInv
  <1> DEFINE Holding == {"ready", "stopped", "issue", "wait"}
  <1> USE ControlTypes DEF controller, driver, ahciVars, bfsVars
  <1>a. Holding \subseteq Using
    BY DEF Using, Building
  <1>b. ASSUME UNCHANGED <<header, table, slot, scan>>,
               \A c \in Cores : pc'[c] \in Holding
                 => pc[c] \in Holding /\ request'[c] = request[c]
        PROVE  CommandInv'
    BY <1>0, <1>b, CommandKept DEF CommandInv
  <1>1. ASSUME InitAHCI, UNCHANGED bfsVars PROVE CommandInv'
    BY <1>1, InitAHCIAlone DEF CommandInv
  <1>2. ASSUME NEW c \in Cores, Spin(c), UNCHANGED bfsVars PROVE CommandInv'
    BY <1>2, <1>b DEF Spin, SpinLock, SpinsTooLong, Goto
  <1>3. ASSUME NEW c \in Cores, FindCMD(c) \/ WriteHeader(c) \/ Return(c)
        PROVE  CommandInv'
    <2>1. \A d \in Cores : d # c => pc[d] \notin Using
      BY <1>3, OneCoreInDriver DEF FindCMD, WriteHeader, Return, Goto, Using, Building
    <2>2. \A d \in Cores : pc'[d] \notin Holding
      BY <1>3, <1>a, <2>1 DEF FindCMD, WriteHeader, Return, Goto
    <2> QED
      BY <2>2 DEF CommandInv
  <1>4. ASSUME NEW c \in Cores, WriteTable(c) PROVE CommandInv'
    <2>1. pc[c] \in Using
      BY <1>4 DEF WriteTable, Goto, Using, Building
    <2>2. \A d \in Cores : d # c => pc'[d] \notin Holding
      BY <1>4, <1>a, <2>1, OneCoreInDriver DEF WriteTable, Goto
    <2>3. PortOf(c) \in Ports /\ header[PortOf(c)][slot[c]] \in Ports \cup {Low}
      BY <2>1, CommandType DEF DriverInv, ControlInv, TypeOK, AhciTypeOK
    <2>4. table'[header[PortOf(c)][slot[c]]] = Command(c)
      BY <1>4, <2>3 DEF WriteTable, DriverInv, ControlInv, TypeOK, AhciTypeOK
    <2>5. PortOf(c)' = PortOf(c) /\ Command(c)' = Command(c) /\ UNCHANGED <<header, slot>>
      BY <1>4, CommandKept DEF WriteTable
    <2> QED
      BY <2>2, <2>4, <2>5 DEF CommandInv
  <1>5. ASSUME NEW c \in Cores, SendCommand(c) PROVE CommandInv'
    <2>1. UNCHANGED <<header, table, slot, scan, request>>
      BY <1>5 DEF SendCommand, WaitReady, StartPort, Issue, WaitDone
    <2>2. \A d \in Cores : pc'[d] \in Holding => pc[d] \in Holding
      BY <1>5 DEF SendCommand, WaitReady, StartPort, Issue, WaitDone, Goto
    <2> QED
      BY <1>b, <2>1, <2>2
  <1>6. ASSUME NEW p \in Ports, Controller(p) \/ Fail(p), UNCHANGED bfsVars
        PROVE  CommandInv'
    BY <1>6, <1>b, ControllerSteps
  <1>7. ASSUME NEW c \in Cores, InitGFS \/ Draw \/ FileOpEnds(c) PROVE CommandInv'
    BY <1>7, <1>b DEF InitGFS, ReadSuperBlock, CountInodes,
       Draw, DrawBmp, BmpDrawn, FileOpEnds, LoopEnds
  <1>8. ASSUME NEW c \in Cores, NextSector(c) PROVE CommandInv'
    <2>1. UNCHANGED <<header, table, slot, scan>>
      BY <1>8 DEF NextSector, SataRW
    <2>2. \A d \in Cores : pc'[d] \in Holding
                 => pc[d] \in Holding /\ request'[d] = request[d]
      BY <1>8 DEF NextSector, SataRW, Goto
    <2> QED
      BY <1>b, <2>1, <2>2
  <1>9. ASSUME NEW c \in Cores, Calls(c) PROVE CommandInv'
    BY <1>9, <1>b, CalledLoop
  <1> QED
    BY <1>1, <1>2, <1>3, <1>4, <1>5, <1>6, <1>7, <1>8, <1>9
       DEF Next, Driver, Build, FileOp

LEMMA NextPortInv == DriverInv /\ Next => PortInv'
  <1> SUFFICES ASSUME DriverInv, Next PROVE PortInv'
    OBVIOUS
  <1>0. PortInv /\ port \in [Ports -> PortStates]
    BY DEF DriverInv, ControlInv, TypeOK, AhciTypeOK
  <1> USE ControlTypes DEF controller, driver, ahciVars, bfsVars
  <1>a. ASSUME UNCHANGED <<header, table, port, slot, scan>>,
               \A c \in Cores : pc[c] = "wait"
                 => pc'[c] = "wait" /\ request'[c] = request[c]
        PROVE  PortInv'
    BY <1>0, <1>a, CommandKept DEF PortInv
  (* Nobody waits, and the step leaves every port at rest. *)
  <1>b. ASSUME \A p \in Ports : port'[p].ci = {} /\ port'[p].phase = "idle"
        PROVE  PortInv'
    BY <1>b DEF PortInv
  <1>1. ASSUME InitAHCI, UNCHANGED bfsVars PROVE PortInv'
    BY <1>1, <1>b, InitAHCIAlone, NobodyWaits, InitAHCISteps
  <1>2. ASSUME NEW c \in Cores, Spin(c), UNCHANGED bfsVars PROVE PortInv'
    BY <1>2, <1>a DEF Spin, SpinLock, SpinsTooLong, Goto
  <1>3. ASSUME NEW c \in Cores, Build(c) \/ Return(c) PROVE PortInv'
    <2>1. pc[c] \in Using \ {"wait"} /\ UNCHANGED port
      BY <1>3 DEF Build, FindCMD, WriteHeader, WriteTable, Return, Goto, Using, Building
    <2>2. \A d \in Cores : pc[d] # "wait"
      BY <2>1, OneCoreInDriver DEF Using
    <2> QED
      BY <1>b, <2>1, <2>2, NobodyWaits
  <1>4. ASSUME NEW c \in Cores, WaitReady(c) \/ StartPort(c) \/ Issue(c) PROVE PortInv'
    <2>1. pc[c] \in Using \ {"wait"}
      BY <1>4 DEF WaitReady, StartPort, Issue, Goto, Using, Building
    <2>2. \A d \in Cores : d # c => pc[d] # "wait"
      BY <2>1, OneCoreInDriver DEF Using
    <2>3. \A p \in Ports : port[p].ci = {} /\ port[p].phase = "idle"
      BY <2>1, <2>2, NobodyWaits
    <2>4. CASE WaitReady(c) \/ StartPort(c)
      <3>1. \A p \in Ports : port'[p].ci = {} /\ port'[p].phase = "idle"
        <4>1. CASE WaitReady(c)
          BY <1>0, <2>3, <4>1 DEF WaitReady, ClearST, PortStates
        <4>2. CASE StartPort(c)
          BY <1>0, <2>3, <4>2 DEF StartPort, PortStates
        <4> QED
          BY <2>4, <4>1, <4>2
      <3> QED
        BY <1>b, <3>1
    <2>5. CASE Issue(c)
      <3>1. \A p \in Ports : /\ port'[p].ci = IF p = PortOf(c) THEN {slot[c]} ELSE {}
                             /\ port'[p].phase = "idle"
        BY <1>0, <2>3, <2>5 DEF Issue, PortStates
      <3>2. pc'[c] = "wait" /\ PortOf(c)' = PortOf(c) /\ UNCHANGED slot
        BY <2>5, CommandKept DEF Issue, Goto
      <3> QED
        BY <3>1, <3>2 DEF PortInv
    <2> QED
      BY <1>4, <2>4, <2>5
  <1>5. ASSUME NEW c \in Cores, WaitDone(c) PROVE PortInv'
    <2>1. pc[c] = "wait" /\ slot[c] \notin port[PortOf(c)].ci
      BY <1>5 DEF WaitDone, Goto, Outstanding
    <2>2. \A d \in Cores : pc[d] = "wait" => d = c
      BY <2>1, OneCoreInDriver DEF Using
    <2>3. \A p \in Ports : port[p].ci = {} /\ port[p].phase = "idle"
      BY <1>0, <2>1, <2>2 DEF PortInv
    <2>4. \A p \in Ports : port'[p].ci = {} /\ port'[p].phase = "idle"
      BY <1>0, <1>5, <2>3 DEF WaitDone, ClearST, PortStates
    <2> QED
      BY <1>b, <2>4
  <1>6. ASSUME NEW p \in Ports, Controller(p) \/ Fail(p), UNCHANGED bfsVars
        PROVE  PortInv'
    <2>0. /\ UNCHANGED <<header, table, slot, scan, request, pc>>
          /\ \A q \in Ports : q # p => port'[q] = port[q]
      BY <1>0, <1>6, ControllerSteps DEF Controller, StartList, StopList, Fetch, Move,
         Complete, Fail
    <2>1. \A c \in Cores : PortOf(c)' = PortOf(c)
      BY <2>0, CommandKept
    <2>2. \A s \in port'[p].ci : s \in port[p].ci
      <3>1. CASE StartList(p) \/ StopList(p)
        BY <1>0, <3>1 DEF StartList, StopList, PortStates
      <3>2. CASE Fetch(p)
        BY <1>0, <3>2 DEF Fetch, PortStates
      <3>3. CASE Move(p) \/ Fail(p)
        BY <1>0, <3>3 DEF Move, Fail, PortStates
      <3>4. CASE Complete(p)
        BY <1>0, <3>4 DEF Complete, PortStates
      <3> QED
        BY <1>6, <3>1, <3>2, <3>3, <3>4 DEF Controller
    <2>3. port'[p].phase # "idle" =>
            /\ port'[p].st /\ port'[p].cr /\ port'[p].slot \in port'[p].ci
            /\ port'[p].cmd = table[header[p][port'[p].slot]]
      <3>1. port[p] \in PortStates
        BY <1>0
      <3>2. port[p].phase # "idle" =>
              /\ port[p].st /\ port[p].cr /\ port[p].slot \in port[p].ci
              /\ port[p].cmd = table[header[p][port[p].slot]]
        BY <1>0 DEF PortInv
      <3>3. CASE StartList(p)
        BY <1>0, <3>1, <3>2, <3>3 DEF StartList, PortStates
      <3>4. CASE StopList(p)
        BY <1>0, <3>1, <3>2, <3>4 DEF StopList, PortStates
      <3>5. CASE Fetch(p)
        <4>1. PICK s \in port[p].ci :
                port' = [port EXCEPT ![p].phase = "fetched", ![p].slot = s,
                                     ![p].cmd = table[header[p][s]]]
          BY <3>5 DEF Fetch
        <4>2. port[p].st /\ port[p].cr
          BY <3>5 DEF Fetch
        <4> QED
          BY <1>0, <3>1, <4>1, <4>2 DEF PortStates
      <3>6. CASE Move(p)
        BY <1>0, <3>1, <3>2, <3>6 DEF Move, PortStates
      <3>7. CASE Complete(p)
        BY <1>0, <3>1, <3>7 DEF Complete, PortStates
      <3>8. CASE Fail(p)
        BY <1>0, <3>1, <3>2, <3>8 DEF Fail, PortStates
      <3> QED
        BY <1>6, <3>3, <3>4, <3>5, <3>6, <3>7, <3>8 DEF Controller
    <2>4. ASSUME NEW q \in Ports, NEW s \in port'[q].ci
          PROVE  \E c \in Cores : pc'[c] = "wait" /\ PortOf(c)' = q /\ slot'[c] = s
      <3>1. s \in port[q].ci
        BY <2>0, <2>2, <2>4
      <3>2. PICK c \in Cores : pc[c] = "wait" /\ PortOf(c) = q /\ slot[c] = s
        BY <1>0, <3>1 DEF PortInv
      <3> QED
        BY <2>0, <2>1, <3>2
    <2>5. ASSUME NEW q \in Ports, port'[q].phase # "idle"
          PROVE  /\ port'[q].st /\ port'[q].cr /\ port'[q].slot \in port'[q].ci
                 /\ port'[q].cmd = table'[header'[q][port'[q].slot]]
      <3>1. CASE q = p
        BY <2>0, <2>3, <2>5, <3>1
      <3>2. CASE q # p
        <4>1. port'[q] = port[q]
          BY <2>0, <3>2
        <4> QED
          BY <1>0, <2>0, <2>5, <4>1 DEF PortInv
      <3> QED
        BY <3>1, <3>2
    <2> QED
      BY <2>4, <2>5 DEF PortInv
  <1>7. ASSUME NEW c \in Cores, InitGFS \/ Draw \/ FileOpEnds(c) PROVE PortInv'
    BY <1>7, <1>a DEF InitGFS, ReadSuperBlock, CountInodes,
       Draw, DrawBmp, BmpDrawn, FileOpEnds, LoopEnds
  <1>8. ASSUME NEW c \in Cores, NextSector(c) PROVE PortInv'
    <2>1. UNCHANGED <<header, table, port, slot, scan>>
      BY <1>8 DEF NextSector, SataRW
    <2>2. \A d \in Cores : pc[d] = "wait" => pc'[d] = "wait" /\ request'[d] = request[d]
      BY <1>8 DEF NextSector, SataRW, Goto
    <2> QED
      BY <1>a, <2>1, <2>2
  <1>9. ASSUME NEW c \in Cores, Calls(c) PROVE PortInv'
    BY <1>9, <1>a, CalledLoop
  <1> QED
    BY <1>1, <1>2, <1>3, <1>4, <1>5, <1>6, <1>7, <1>8, <1>9
       DEF Next, Driver, SendCommand, FileOp

LEMMA InitDriverInv == Init => DriverInv
  <1> SUFFICES ASSUME Init PROVE DriverInv
    OBVIOUS
  <1>1. BootInv /\ LockInv /\ CommandInv
    BY AhciAssumption, Intervals DEF Init, AhciInit, BootInv, LockInv, CommandInv, Using, Building
  <1>2. DrivesInv
    BY AhciAssumption, Intervals DEF Init, AhciInit, DrivesInv
  <1>3. LoopInv /\ CallInv
    BY NoLoopAssumption DEF Init, AhciInit, LoopInv, CallInv
  <1>4. PortInv
    BY DEF Init, AhciInit, PortInv
  <1> QED
    BY <1>1, <1>2, <1>3, <1>4, InitTypeOK DEF DriverInv, ControlInv

LEMMA NextDriverInv == DriverInv /\ [Next]_vars => DriverInv'
  <1>1. DriverInv /\ UNCHANGED vars => DriverInv'
    BY DEF vars, ahciVars, bfsVars, controller, driver, DriverInv, ControlInv, TypeOK,
       AhciTypeOK, BootInv, DrivesInv, LockInv, LoopInv, LoopOK, Owns, CallInv, CommandInv,
       PortInv, PortOf, Command, Booting, Drive0
  <1> QED
    BY <1>1, NextTypeOK, NextBootInv, NextDrivesInv, NextLockInv, NextLoopInv,
       NextCallInv, NextCommandInv, NextPortInv DEF DriverInv, ControlInv

LEMMA DriverInvariant == Spec => []DriverInv
  BY InitDriverInv, NextDriverInv, PTL DEF Spec

(* Every variable keeps its type: every request is for a sector of the     *)
(* disk and a page of the buffer, whatever the calls are.                  *)
THEOREM TypeCorrect == Spec => []TypeOK
  <1>1. DriverInv => TypeOK
    BY DEF DriverInv, ControlInv
  <1> QED
    BY <1>1, DriverInvariant, PTL

(* The shared command tables are safe under the one lock: no port has a    *)
(* command outstanding while a core builds one.                            *)
THEOREM TablesAreUnused == Spec => []TableUnused
  <1>1. DriverInv => TableUnused
    <2> SUFFICES ASSUME DriverInv, NEW c \in Cores, pc[c] \in Building, NEW p \in Ports
                 PROVE  port[p].ci = {}
      BY DEF TableUnused
    <2>1. pc[c] \in Using \ {"wait"}
      BY DEF Using, Building
    <2>2. \A d \in Cores : pc[d] # "wait"
      BY <2>1, OneCoreInDriver DEF Using
    <2> QED
      BY <2>2, NobodyWaits
  <1> QED
    BY <1>1, DriverInvariant, PTL

-----------------------------------------------------------------------------
(* The data. *)

(* What a port moves is what the core that waits for it asked for. *)
LEMMA MoveEffect ==
  ASSUME DriverInv, NEW p \in Ports, Move(p)
  PROVE  \E c \in Cores :
           /\ pc[c] = "wait" /\ PortOf(c) = p /\ slot[c] = port[p].slot
           /\ \/ Booting(c) /\ UNCHANGED <<disk, memory>>
              \/ /\ ~Booting(c) /\ request[c] \in Requests /\ request[c].port = p
                 /\ ~request[c].w
                 /\ memory' = [memory EXCEPT ![c][request[c].page]
                                               = disk[p][request[c].start]]
                 /\ UNCHANGED disk
              \/ /\ ~Booting(c) /\ request[c] \in Requests /\ request[c].port = p
                 /\ request[c].w
                 /\ disk' = [disk EXCEPT ![p][request[c].start]
                                           = memory[c][request[c].page]]
                 /\ UNCHANGED memory
  <1>1. PICK c \in Cores :
          /\ pc[c] = "wait" /\ PortOf(c) = p /\ slot[c] = port[p].slot
          /\ port[p].cmd = Command(c) /\ Command(c) \in Commands
          /\ table[header[p][port[p].slot]] = Command(c)
    BY BusyPort DEF Move
  <1>2. CASE Booting(c)
    <2>1. Command(c).op = "identify"
      BY <1>2 DEF Command
    <2>2. UNCHANGED <<disk, memory>>
      BY <1>1, <2>1 DEF Move
    <2> QED
      BY <1>1, <1>2, <2>2
  <1>3. CASE ~Booting(c)
    <2>0. BootInv /\ CallInv
      BY DEF DriverInv, ControlInv
    <2>1. stage # "ports"
      BY <1>1, <1>3, <2>0, AhciAssumption DEF BootInv, Booting, Using, Building
    <2>2. request[c] \in Requests
      BY <1>1, <2>0, <2>1, ControlTypes DEF CallInv
    <2>3. request[c].port = p /\ request[c].start \in Sectors /\ request[c].w \in BOOLEAN
      BY <1>1, <1>3, <2>2 DEF PortOf, Requests
    <2>4. /\ Command(c).op = IF request[c].w THEN "write" ELSE "read"
          /\ Command(c).lba = request[c].start
          /\ Command(c).dba[1] = c /\ Command(c).dba[2] = request[c].page
      BY <1>3, <2>3, LbaExact DEF Command
    <2>5. CASE request[c].w
      <3>1. /\ disk' = [disk EXCEPT ![p][request[c].start] = memory[c][request[c].page]]
            /\ UNCHANGED memory
        BY <1>1, <2>4, <2>5 DEF Move
      <3> QED
        BY <1>1, <1>3, <2>2, <2>3, <2>5, <3>1
    <2>6. CASE ~request[c].w
      <3>1. /\ memory' = [memory EXCEPT ![c][request[c].page] = disk[p][request[c].start]]
            /\ UNCHANGED disk
        BY <1>1, <2>4, <2>6 DEF Move
      <3> QED
        BY <1>1, <1>3, <2>2, <2>3, <2>6, <3>1
    <2> QED
      BY <2>5, <2>6
  <1> QED
    BY <1>2, <1>3

(* Nothing else changes the disk. *)
LEMMA OnlyMovesWrite ==
  ASSUME DriverInv, Next, disk' # disk
  PROVE  \E p \in Ports : Move(p) /\ UNCHANGED bfsVars
  <1>1. ASSUME InitAHCI PROVE UNCHANGED disk
    BY <1>1, InitAHCISteps
  <1>2. ASSUME NEW c \in Cores, Spin(c) \/ Driver(c), UNCHANGED bfsVars
        PROVE  UNCHANGED disk
    BY <1>2, DriverSteps DEF Spin, SpinLock, SpinsTooLong, Driver, Return, controller
  <1>3. ASSUME NEW p \in Ports, Controller(p) \/ Fail(p), ~Move(p) PROVE UNCHANGED disk
    BY <1>3 DEF Controller, StartList, StopList, Fetch, Complete, Fail
  <1>4. ASSUME NEW c \in Cores, InitGFS \/ Draw \/ FileOp(c) \/ Calls(c) PROVE UNCHANGED disk
    <2>1. CASE Calls(c)
      BY <2>1, CalledLoop
    <2>2. CASE ~Calls(c)
      BY <1>4, <2>2 DEF InitGFS, ReadSuperBlock, CountInodes,
       Draw, DrawBmp, BmpDrawn, LoopEnds, FileOp, NextSector,
         SataRW, FileOpEnds, ahciVars, controller
    <2> QED
      BY <2>1, <2>2
  <1>5. BootCore \in Cores
    BY AhciAssumption
  <1> QED
    BY <1>1, <1>2, <1>3, <1>4, <1>5 DEF Next

(* The sector a request is about lies inside its loop. *)
LEMMA RequestOfLoop ==
  ASSUME DriverInv, NEW c \in Cores, request[c] \in Requests
  PROVE  /\ op[c] \in Loops /\ LoopOK(op[c])
         /\ request[c].port = op[c].port /\ request[c].w = op[c].w
         /\ request[c].start = op[c].first + (op[c].i - 1)
         /\ request[c].page = op[c].i - 1 - op[c].from
         /\ op[c].i - 1 \in op[c].from .. op[c].end - 1
  <1>0. CallInv /\ LoopInv
    BY DEF DriverInv, ControlInv
  <1>1. request[c] # None
    BY NoneAssumption
  <1>2. op[c] \in Loops /\ LoopOK(op[c])
    BY <1>0, <1>1 DEF CallInv, LoopInv
  <1>3. /\ op[c].from < op[c].i /\ op[c].i <= op[c].end
        /\ request[c] = [port |-> op[c].port, start |-> op[c].first + op[c].i - 1,
                         page |-> op[c].i - 1 - op[c].from, w |-> op[c].w]
    BY <1>0, <1>1 DEF CallInv
  <1> QED
    BY <1>2, <1>3 DEF Loops

(* A sector of the disk changes only under a call that writes: it is a     *)
(* sector of the file that call names, one behind it only when the call    *)
(* asks for more than the file has, or sector 0 for a direct call.         *)
THEOREM WritesAreInFiles == Spec => WritesStayInFiles
  <1>1. ASSUME DriverInv, [Next]_vars, NEW p \in Ports, NEW s \in Sectors,
               disk'[p][s] # disk[p][s]
        PROVE  \E c \in Cores : MayWrite(c, p, s)
    <2>0. Next
      BY <1>1 DEF vars, ahciVars, controller
    <2>1. PICK q \in Ports : Move(q)
      BY <1>1, <2>0, OnlyMovesWrite
    <2>2. PICK c \in Cores :
            /\ request[c] \in Requests /\ request[c].port = q /\ request[c].w
            /\ disk' = [disk EXCEPT ![q][request[c].start] = memory[c][request[c].page]]
      BY <1>1, <2>1, MoveEffect
    <2>3. p = q /\ s = request[c].start
      BY <1>1, <2>2 DEF DriverInv, ControlInv, TypeOK, AhciTypeOK
    <2>4. /\ op[c] \in Loops /\ LoopOK(op[c]) /\ op[c].port = p /\ op[c].w
          /\ s = op[c].first + (op[c].i - 1)
          /\ op[c].i - 1 \in op[c].from .. op[c].end - 1
      BY <1>1, <2>2, <2>3, RequestOfLoop
    <2>5. Owns(op[c], s)
      BY <2>4 DEF LoopOK
    <2> QED
      BY <2>4, <2>5, NoLoopAssumption DEF MayWrite
  <1>2. DriverInv /\ [Next]_vars
          => [\A p \in Ports, s \in Sectors :
                disk'[p][s] # disk[p][s] => \E c \in Cores : MayWrite(c, p, s)]_vars
    BY <1>1
  <1> QED
    BY <1>2, DriverInvariant, PTL DEF Spec, WritesStayInFiles

LEMMA NextRoomInv ==
  ASSUME DriverInv, RoomInv, Next
  PROVE  RoomInv'
  <1>0. BootInv
    BY DEF DriverInv, ControlInv
  <1>a. None \notin Loops
    BY NoLoopAssumption
  <1> USE <1>0, <1>a, ControlTypes DEF controller, driver, ahciVars, bfsVars
  <1>1. ASSUME UNCHANGED <<op, stage>> PROVE RoomInv'
    BY <1>1 DEF RoomInv, RoomOf
  <1>2. ASSUME UNCHANGED bfsVars PROVE RoomInv'
    BY <1>1, <1>2
  (* The boot core takes up or ends a loop, the others have none. *)
  <1>3. ASSUME NEW l, op' = [op EXCEPT ![BootCore] = l],
               \A c \in Cores \ {BootCore} : op[c] = None,
               l \in Loops => \A k \in l.from .. l.end - 1 : k - l.from < RoomOf(l)'
        PROVE  RoomInv'
    <2>1. \A c \in Cores \ {BootCore} : op'[c] = None
      BY <1>3
    <2>2. op'[BootCore] = l
      BY <1>3
    <2>3. ASSUME l \in Loops, NEW k \in l.from .. l.end - 1
          PROVE  k - l.from < l.by.room + IF stage' = "draw" THEN BmpOverrun ELSE 0
      BY <1>3, <2>3 DEF RoomOf
    <2> QED
      BY <2>1, <2>2, <2>3 DEF RoomInv, RoomOf
  <1>4. CASE ReadSuperBlock
    <2>1. op' = [op EXCEPT ![BootCore] = SuperLoop]
      BY <1>4 DEF ReadSuperBlock, SuperLoop
    <2>2. \A k \in SuperLoop.from .. SuperLoop.end - 1 :
            k - SuperLoop.from < SuperLoop.by.room + IF stage' = "draw" THEN BmpOverrun ELSE 0
      BY <1>4, BfsAssumption DEF ReadSuperBlock, SuperLoop, Loop, By
    <2> HIDE DEF SuperLoop
    <2> QED
      BY <1>3, <1>4, <2>1, <2>2 DEF ReadSuperBlock, BootInv, RoomOf
  <1>5. CASE DrawBmp
    <2>1. op' = [op EXCEPT ![BootCore] = BmpLoop]
      BY <1>5 DEF DrawBmp, BmpLoop
    <2>2. \A k \in BmpLoop.from .. BmpLoop.end - 1 :
            k - BmpLoop.from < BmpLoop.by.room + IF stage' = "draw" THEN BmpOverrun ELSE 0
      BY <1>5, BfsAssumption DEF DrawBmp, BmpLoop, Loop, By, BmpOverrun
    <2> QED
      BY <1>3, <1>5, <2>1, <2>2 DEF DrawBmp, BootInv, RoomOf
  <1>6. CASE CountInodes \/ BmpDrawn
    BY <1>3, <1>6 DEF CountInodes, BmpDrawn, LoopEnds, BootInv
  <1>7. ASSUME NEW c \in Cores, NextSector(c) PROVE RoomInv'
    <2>1. op[c] \in Loops /\ UNCHANGED stage
      BY <1>7 DEF NextSector
    <2>2. /\ op'[c].from = op[c].from /\ op'[c].end = op[c].end /\ op'[c].by = op[c].by
          /\ \A d \in Cores : d # c => op'[d] = op[d]
      BY <1>7, <2>1 DEF NextSector, Loops
    <2> QED
      BY <2>1, <2>2 DEF RoomInv, RoomOf
  <1>8. ASSUME NEW c \in Cores, FileOpEnds(c) PROVE RoomInv'
    <2>1. UNCHANGED stage /\ op' = [op EXCEPT ![c] = None]
      BY <1>8 DEF FileOpEnds, LoopEnds
    <2> QED
      BY <2>1 DEF RoomInv, RoomOf
  <1>9. ASSUME NEW c \in Cores, Calls(c) PROVE RoomInv'
    <2>1. PICK l : /\ op' = [op EXCEPT ![c] = l]
                   /\ l = None \/ \A k \in l.from .. l.end - 1 : k - l.from < l.by.room
      <3>0. MaxCount \in Nat
        BY BfsAssumption
      <3>1. ASSUME NEW p, NEW first, NEW from \in Nat, NEW end \in Nat, NEW w, NEW f,
                   NEW l, l = None \/ l = Loop(p, first, from, end, w, By(f, end)),
                   op' = [op EXCEPT ![c] = l]
            PROVE  \E m : /\ op' = [op EXCEPT ![c] = m]
                          /\ m = None \/ \A k \in m.from .. m.end - 1 : k - m.from < m.by.room
        <4>1. l = None \/ (l.from = from /\ l.end = end /\ l.by.room = end)
          BY <3>1 DEF Loop, By
        <4>2. l = None \/ \A k \in l.from .. l.end - 1 : k - l.from < l.by.room
          BY <3>1, <4>1
        <4> QED
          BY <3>1, <4>2
      <3>2. CASE ReadIn(c)
        <4>1. PICK f \in Inodes, start \in 0 .. MaxCount, count \in 0 .. MaxCount :
                op' = [op EXCEPT ![c] =
                         IF Found(f) THEN Loop(Drive0, StartOf(f), start, count, FALSE, By(f, count))
                                     ELSE None]
          BY <3>2 DEF ReadIn
        <4>2. start \in Nat /\ count \in Nat
          BY <3>0
        <4>3. CASE Found(f)
          BY <3>1, <4>1, <4>2, <4>3
        <4>4. CASE ~Found(f)
          BY <4>1, <4>4
        <4> QED
          BY <4>3, <4>4
      <3>3. CASE Fopen(c)
        <4>1. PICK f \in Inodes, size \in 0 .. MaxCount :
                op' = [op EXCEPT ![c] =
                         IF Found(f) THEN Loop(Drive0, StartOf(f), 0, size, FALSE, By(f, size))
                                     ELSE None]
          BY <3>3 DEF Fopen
        <4>2. 0 \in Nat /\ size \in Nat
          BY <3>0
        <4>3. CASE Found(f)
          BY <3>1, <4>1, <4>2, <4>3
        <4>4. CASE ~Found(f)
          BY <4>1, <4>4
        <4> QED
          BY <4>3, <4>4
      <3>4. CASE WriteBack(c)
        <4>1. PICK f \in Inodes, count \in 0 .. MaxCount :
                op' = [op EXCEPT ![c] = Loop(Drive0, StartOf(f), 0, count, TRUE, By(f, count))]
          BY <3>4 DEF WriteBack
        <4>2. 0 \in Nat /\ count \in Nat
          BY <3>0
        <4> QED
          BY <3>1, <4>1, <4>2
      <3>5. CASE DirectRW(c)
        <4>1. PICK p \in Direct, w \in BOOLEAN :
                op' = [op EXCEPT ![c] = Loop(p, 0, 0, 1, w, By(None, 1))]
          BY <3>5 DEF DirectRW
        <4> QED
          BY <3>1, <4>1
      <3> QED
        BY <1>9, <3>2, <3>3, <3>4, <3>5 DEF Calls
    <2>2. stage' = stage /\ stage = "up"
      BY <1>9, CalledLoop
    <2>3. \A d \in Cores : op'[d] = IF d = c THEN l ELSE op[d]
      BY <2>1
    <2>4. ASSUME l \in Loops, NEW k \in l.from .. l.end - 1 PROVE k - l.from < l.by.room + 0
      BY <2>1, <2>4 DEF Loops, Callers
    <2> QED
      BY <2>2, <2>3, <2>4 DEF RoomInv, RoomOf
  <1> QED
    BY <1>2, <1>4, <1>5, <1>6, <1>7, <1>8, <1>9 DEF Next, InitGFS, Draw, FileOp

(* The controller moves data only into the memory of a call that reads and *)
(* that waits for it, inside the buffer but for the two sectors that       *)
(* drawBmp reads too many.                                                 *)
THEOREM TransfersAreInBuffers == Spec => TransfersStayInBuffers
  <1>1. ASSUME DriverInv, RoomInv, Next, NEW c \in Cores, NEW k \in Pages,
               op'[c] = op[c], memory'[c][k] # memory[c][k]
        PROVE  op[c] # None /\ ~op[c].w /\ k < RoomOf(op[c])
    <2>0. memory \in [Cores -> [Pages -> Contents]] /\ None \notin Loops
      BY <1>1, NoLoopAssumption DEF DriverInv, ControlInv, TypeOK, AhciTypeOK
    <2> USE <1>1, <2>0, ControlTypes DEF controller, driver, ahciVars, bfsVars
    <2>1. ASSUME NEW p \in Ports, Move(p)
          PROVE  op[c] # None /\ ~op[c].w /\ k < RoomOf(op[c])
      <3>m. memory' # memory
        BY <1>1
      <3>n. \E d \in Cores :
              \/ UNCHANGED memory
              \/ /\ request[d] \in Requests /\ ~request[d].w
                 /\ memory' = [memory EXCEPT ![d][request[d].page]
                                               = disk[p][request[d].start]]
        BY ONLY <1>1, <2>1, MoveEffect
      <3>0. PICK d \in Cores :
              /\ request[d] \in Requests /\ ~request[d].w
              /\ memory' = [memory EXCEPT ![d][request[d].page]
                                            = disk[p][request[d].start]]
        BY <3>m, <3>n
      <3> DEFINE s == request[d].page
                 v == disk[p][request[d].start]
      <3>a. memory' = [memory EXCEPT ![d][s] = v]
        BY <3>0
      <3> HIDE DEF s, v
      <3>b. ASSUME d # c PROVE FALSE
        BY <3>a, <3>b
      <3>c. ASSUME d = c, k # s PROVE FALSE
        BY <3>a, <3>c
      <3>1. d = c /\ k = request[c].page
        BY <3>b, <3>c DEF s
      <3>2. /\ op[c] \in Loops /\ ~op[c].w
            /\ k = op[c].i - 1 - op[c].from /\ op[c].i - 1 \in op[c].from .. op[c].end - 1
        BY <3>0, <3>1, RequestOfLoop
      <3> QED
        BY <3>2 DEF RoomInv
    <2>2. ASSUME NEW d \in Cores, LoopEnds(d) PROVE FALSE
      <3>1. op[d] # None /\ op'[d] = None /\ (d # c => memory'[c] = memory[c])
        BY <2>2 DEF LoopEnds
      <3> QED
        BY <3>1
    <2>3. ASSUME NEW d \in Cores, Calls(d) PROVE FALSE
      <3>1. CASE ReadIn(d) \/ Fopen(d)
        BY <3>1 DEF ReadIn, Fopen
      <3>2. CASE WriteBack(d) \/ DirectRW(d)
        <4>1. op[d] = None /\ (d # c => memory'[c] = memory[c])
          BY <3>2 DEF WriteBack, DirectRW, Free
        <4>2. Drive0 \in Ports /\ 0 \in 0 .. MaxCount
          <5>1. stage = "up"
            BY <2>3, CalledLoop
          <5> QED
            BY <5>1, BfsAssumption, FirstDrive DEF DriverInv, ControlInv, BootInv
        <4>3. op'[d] \in Loops
          <5>1. CASE WriteBack(d)
            <6>1. PICK f \in Inodes, count \in 0 .. MaxCount :
                    /\ Found(f)
                    /\ op' = [op EXCEPT ![d] = Loop(Drive0, StartOf(f), 0, count, TRUE, By(f, count))]
              BY <5>1 DEF WriteBack
            <6> QED
              BY <4>2, <6>1, FileLoops
          <5>2. CASE DirectRW(d)
            BY <5>2, DirectLoop DEF DirectRW
          <5> QED
            BY <3>2, <5>1, <5>2
        <4> QED
          BY <4>1, <4>3
      <3> QED
        BY <2>3, <3>1, <3>2 DEF Calls
    <2>4. ASSUME InitAHCI PROVE FALSE
      BY <2>4, InitAHCISteps
    <2>5. ASSUME NEW d \in Cores, Spin(d) \/ Driver(d), UNCHANGED bfsVars PROVE FALSE
      BY <2>5, DriverSteps DEF Spin, SpinLock, SpinsTooLong, Driver, Return
    <2>6. ASSUME NEW p \in Ports, Controller(p) \/ Fail(p), ~Move(p) PROVE FALSE
      BY <2>6 DEF Controller, StartList, StopList, Fetch, Complete, Fail
    <2>7. ASSUME NEW d \in Cores, ReadSuperBlock \/ DrawBmp \/ NextSector(d) PROVE FALSE
      BY <2>7 DEF ReadSuperBlock, DrawBmp, NextSector, SataRW
    <2> QED
      BY <2>1, <2>2, <2>3, <2>4, <2>5, <2>6, <2>7
         DEF Next, InitGFS, CountInodes, Draw, BmpDrawn, FileOp, FileOpEnds
  <1>2. Init => RoomInv
    BY NoLoopAssumption DEF Init, RoomInv
  <1>3. RoomInv /\ UNCHANGED vars => RoomInv'
    BY DEF RoomInv, RoomOf, vars, bfsVars
  <1>4. DriverInv /\ RoomInv /\ [Next]_vars
          => [\A c \in Cores, k \in Pages :
                op'[c] = op[c] /\ memory'[c][k] # memory[c][k]
                  => op[c] # None /\ ~op[c].w /\ k < RoomOf(op[c])]_vars
    BY <1>1
  <1>5. DriverInv /\ RoomInv /\ [Next]_vars => RoomInv'
    BY <1>3, NextRoomInv
  <1> QED
    BY <1>2, <1>4, <1>5, DriverInvariant, PTL DEF Spec, TransfersStayInBuffers

-----------------------------------------------------------------------------
(* The lookup. *)

FileInv == DriverInv /\ BufferInv /\ MountInv

(* A step changes the buffer of one core at most, and then it is a read of *)
(* that core, the end of its loop, or the call that fills the buffer.      *)
LEMMA NextBufferInv == FileInv /\ Next => BufferInv'
  <1> SUFFICES ASSUME FileInv, Next PROVE BufferInv'
    OBVIOUS
  <1>0. DriverInv /\ BufferInv /\ BootInv /\ memory \in [Cores -> [Pages -> Contents]]
    BY DEF FileInv, DriverInv, ControlInv, TypeOK, AhciTypeOK
  <1>a. None \notin Loops
    BY NoLoopAssumption
  <1> USE <1>0, <1>a, ControlTypes DEF controller, driver, ahciVars, bfsVars
  <1>1. ASSUME UNCHANGED <<op, memory>> PROVE BufferInv'
    BY <1>1 DEF BufferInv
  <1>2. ASSUME InitAHCI, UNCHANGED bfsVars PROVE BufferInv'
    BY <1>1, <1>2, InitAHCISteps
  <1>3. ASSUME NEW c \in Cores, Spin(c) \/ Driver(c), UNCHANGED bfsVars
        PROVE  BufferInv'
    BY <1>1, <1>3, DriverSteps DEF Spin, SpinLock, SpinsTooLong, Driver, Return
  <1>4. ASSUME NEW p \in Ports, Controller(p) \/ Fail(p), UNCHANGED bfsVars
        PROVE  BufferInv'
    <2>1. CASE ~Move(p)
      BY <1>1, <1>4, <2>1 DEF Controller, StartList, StopList, Fetch, Complete, Fail
    <2>2. CASE Move(p) /\ memory' # memory
      <3>1. PICK c \in Cores :
              /\ request[c] \in Requests /\ ~request[c].w
              /\ \A d \in Cores : d # c => memory'[d] = memory[d]
        BY <2>2, MoveEffect
      <3>2. ~op[c].w
        BY <3>1, RequestOfLoop
      <3> QED
        BY <1>4, <3>1, <3>2 DEF BufferInv
    <2> QED
      BY <1>1, <1>4, <2>1, <2>2
  <1>5. CASE ReadSuperBlock \/ DrawBmp
    <2>1. UNCHANGED memory
            /\ \E l \in {SuperLoop, BmpLoop} : op' = [op EXCEPT ![BootCore] = l]
      BY <1>5 DEF ReadSuperBlock, DrawBmp, SuperLoop, BmpLoop
    <2>2. ~SuperLoop.w /\ ~BmpLoop.w
      BY DEF SuperLoop, BmpLoop, Loop
    <2> QED
      BY <2>1, <2>2 DEF BufferInv
  <1>6. ASSUME NEW c \in Cores, CountInodes \/ BmpDrawn \/ FileOpEnds(c) PROVE BufferInv'
    <2>1. \E d \in Cores : /\ op' = [op EXCEPT ![d] = None]
                           /\ memory' = [memory EXCEPT ![d] = [k \in Pages |-> None]]
      BY <1>6 DEF CountInodes, BmpDrawn, FileOpEnds, LoopEnds
    <2> QED
      BY <2>1 DEF BufferInv
  <1>7. ASSUME NEW c \in Cores, NextSector(c) PROVE BufferInv'
    <2>1. op' = [op EXCEPT ![c].i = @ + 1] /\ UNCHANGED memory /\ op[c] \in Loops
      BY <1>7 DEF NextSector, SataRW
    <2>2. op'[c].w = op[c].w /\ \A d \in Cores : d # c => op'[d] = op[d]
      BY <2>1 DEF Loops
    <2> QED
      BY <2>1, <2>2 DEF BufferInv
  <1>8. ASSUME NEW c \in Cores, ReadIn(c) \/ Fopen(c) PROVE BufferInv'
    <2>1. UNCHANGED memory
      BY <1>8 DEF ReadIn, Fopen
    <2>2. op'[c] = None \/ ~op'[c].w
      BY <1>8 DEF ReadIn, Fopen, Loop
    <2>3. \A d \in Cores : d # c => op'[d] = op[d]
      BY <1>8 DEF ReadIn, Fopen
    <2> QED
      BY <2>1, <2>2, <2>3 DEF BufferInv
  <1>9. ASSUME NEW c \in Cores, WriteBack(c) \/ DirectRW(c) PROVE BufferInv'
    <2>1. \E v \in Values : memory' = [memory EXCEPT ![c] = [k \in Pages |-> v]]
      BY <1>9 DEF WriteBack, DirectRW
    <2>2. \A d \in Cores : d # c => op'[d] = op[d]
      BY <1>9 DEF WriteBack, DirectRW
    <2> QED
      BY <2>1, <2>2 DEF BufferInv
  <1> QED
    BY <1>2, <1>3, <1>4, <1>5, <1>6, <1>7, <1>8, <1>9
       DEF Next, InitGFS, Draw, FileOp, Calls

(* No step writes the signature. *)
LEMMA SuperIsOriginal ==
  ASSUME FileInv, Next, NEW p \in Ports, disk'[p][0] = Super
  PROVE  disk[p][0] = Super
  <1>1. CASE UNCHANGED disk
    BY <1>1
  <1>2. CASE disk' # disk
    <2>0. DriverInv /\ BufferInv
      BY DEF FileInv
    <2>1. PICK q \in Ports : Move(q)
      BY <1>2, <2>0, OnlyMovesWrite
    <2>2. PICK c \in Cores :
            /\ request[c] \in Requests /\ request[c].port = q /\ request[c].w
            /\ disk' = [disk EXCEPT ![q][request[c].start] = memory[c][request[c].page]]
      BY <1>2, <2>0, <2>1, MoveEffect
    <2>3. op[c] \in Loops /\ op[c].w
      BY <2>0, <2>2, RequestOfLoop
    <2>4. memory[c][request[c].page] \in Values
      BY <2>0, <2>2, <2>3 DEF BufferInv, Requests
    <2>5. memory[c][request[c].page] # Super
      BY <2>4, AhciAssumption
    <2>6. disk \in [Ports -> [Sectors -> Contents]] /\ 0 \in Sectors
      BY <2>0, Intervals DEF DriverInv, ControlInv, TypeOK, AhciTypeOK
    <2> QED
      BY <2>2, <2>5, <2>6
  <1> QED
    BY <1>1, <1>2

(* What MountInv says of the first page while the inode table is read. *)
FirstSectorRead ==
  op[BootCore].i > 0
    /\ (request[BootCore] = None \/ op[BootCore].i > 1 \/ Moved(BootCore))

(* A step during the mount that goes on with the mount. *)
LEMMA MountKept ==
  ASSUME MountInv, stage = "mount", stage' = "mount", UNCHANGED <<op, disk, drives>>,
         FirstSectorRead' => FirstSectorRead /\ memory'[BootCore][0] = memory[BootCore][0]
  PROVE  MountInv'
  BY DEF MountInv, FirstSectorRead, SuperBlockLoop, Drive0

LEMMA NextMountInv == FileInv /\ Next => MountInv'
  <1> SUFFICES ASSUME FileInv, Next PROVE MountInv'
    OBVIOUS
  <1>0. /\ DriverInv /\ MountInv /\ BootInv /\ CallInv
        /\ memory \in [Cores -> [Pages -> Contents]]
        /\ port \in [Ports -> PortStates]
    BY DEF FileInv, DriverInv, ControlInv, TypeOK, AhciTypeOK
  <1>a. None \notin Loops /\ None \notin Requests
    BY NoLoopAssumption, NoneAssumption
  <1>b. 0 \in Pages /\ 0 \in Sectors /\ SuperSectors \in Nat \ {0}
    BY Intervals, BfsAssumption
  <1> USE <1>0, ControlTypes DEF controller, driver, ahciVars, bfsVars
  (* After the boot *)
  <1> DEFINE Mounted == {"mounted", "draw", "up"}
  <1>1. ASSUME stage \in Mounted, stage' \in Mounted, UNCHANGED <<known, drives>>
        PROVE  MountInv'
    <2>1. Drive0 \in Ports /\ Drive0' = Drive0
      BY <1>1, FirstDrive DEF DriverInv, BootInv, Drive0
    <2>2. disk'[Drive0][0] = Super => disk[Drive0][0] = Super
      BY <2>1, SuperIsOriginal
    <2>3. Used' = Used
      BY DEF Used
    <2> QED
      BY <1>1, <2>1, <2>2, <2>3 DEF MountInv
  <1>2. CASE stage = "ports" /\ stage' = "ports"
    BY <1>2 DEF MountInv
  (* ... while it goes on, only the boot core is in the driver *)
  <1>3. CASE stage = "mount" /\ stage' = "mount"
    <2>0. /\ \A c \in Cores \ {BootCore} : pc[c] = "idle" /\ op[c] = None
          /\ ~Booting(BootCore) /\ op[BootCore] \in Loops
      BY <1>3 DEF BootInv, Booting
    <2>1. Drive0 \in Ports
      BY <1>3, FirstDrive DEF DriverInv, BootInv
    <2> DEFINE i == op[BootCore].i
    <2>3. /\ op[BootCore].port = Drive0 /\ op[BootCore].first = 0 /\ op[BootCore].from = 0
          /\ op[BootCore].end = SuperSectors /\ op[BootCore].w = FALSE
          /\ op[BootCore].i = i /\ i \in 0 .. SuperSectors
      BY <1>3 DEF MountInv, SuperBlockLoop
    <2> HIDE DEF i
    <2>4. ASSUME NEW c \in Cores, Spin(c) \/ Build(c) \/ SendCommand(c) \/ Return(c),
                 UNCHANGED bfsVars
          PROVE  MountInv'
      <3>1. c = BootCore /\ UNCHANGED <<op, disk, memory, drives, scan>>
        BY <2>0, <2>4, DriverSteps DEF Spin, SpinLock, SpinsTooLong, Return, Goto, Using, Building
      <3>2. FirstSectorRead' => FirstSectorRead
        <4>0. request[BootCore] # None => PortOf(BootCore) \in Ports /\ ~Booting(BootCore)'
          BY <2>0, <3>1, <1>a DEF PortOf, Requests, Booting
        <4>1. CASE Spin(c) \/ Build(c)
          BY <3>1, <4>1 DEF Spin, SpinLock, SpinsTooLong, Build, FindCMD, WriteHeader, WriteTable, Goto, Moved,
             FirstSectorRead
        <4>2. CASE WaitReady(c) \/ StartPort(c)
          BY <3>1, <4>2 DEF WaitReady, StartPort, Goto, Moved, FirstSectorRead
        <4>3. CASE Issue(c)
          <5>1. pc[BootCore] = "issue" /\ pc'[BootCore] = "wait" /\ UNCHANGED <<slot, request>>
            BY <3>1, <4>3 DEF Issue, Goto
          <5>2. \A d \in Cores : pc[d] # "wait"
            BY <2>0, <5>1
          <5>3. PortOf(BootCore) \in Ports /\ PortOf(BootCore)' = PortOf(BootCore)
            BY <3>1, <5>1, CommandType DEF DriverInv, Using, Building, PortOf, Booting
          <5>4. port[PortOf(BootCore)].phase = "idle"
            BY <5>2, <5>3, NobodyWaits
          <5>5. /\ slot[BootCore] \in port'[PortOf(BootCore)].ci
                /\ port'[PortOf(BootCore)].phase = "idle"
            BY <3>1, <4>3, <5>3, <5>4 DEF Issue, PortStates
          <5>6. ~Moved(BootCore)'
            BY <5>1, <5>3, <5>5 DEF Moved, Outstanding
          <5> QED
            BY <3>1, <5>1, <5>6 DEF FirstSectorRead
        <4>4. CASE WaitDone(c)
          <5>1. Moved(BootCore) /\ UNCHANGED request
            BY <3>1, <4>4 DEF WaitDone, Goto, Moved
          <5> QED
            BY <3>1, <5>1 DEF FirstSectorRead
        <4>5. CASE Return(c)
          <5>1. Moved(BootCore)
            BY <3>1, <4>5 DEF Return, Goto, Moved
          <5> QED
            BY <3>1, <5>1 DEF FirstSectorRead
        <4> QED
          BY <2>4, <4>1, <4>2, <4>3, <4>4, <4>5 DEF SendCommand
      <3> QED
        BY <1>3, <3>1, <3>2, MountKept
    <2>5. ASSUME NEW p \in Ports, Controller(p) \/ Fail(p), ~Move(p), UNCHANGED bfsVars
          PROVE  MountInv'
      <3>1. UNCHANGED <<op, disk, memory, drives, scan, request, pc, slot>>
        BY <2>5, ControllerSteps DEF Controller, StartList, StopList, Fetch, Complete, Fail
      <3>2. ASSUME Moved(BootCore)' PROVE Moved(BootCore)
        <4>0. pc[BootCore] = "quiet" \/ pc[BootCore] = "wait"
          BY <3>1, <3>2 DEF Moved
        <4>1. CASE pc[BootCore] = "quiet"
          BY <4>1 DEF Moved
        <4>2. CASE pc[BootCore] = "wait"
          <5>1. PortOf(BootCore) \in Ports /\ PortOf(BootCore)' = PortOf(BootCore)
            BY <3>1, <4>2, CommandType DEF DriverInv, Using, PortOf, Booting
          <5>2. CASE PortOf(BootCore) # p \/ StartList(p) \/ StopList(p) \/ Fetch(p) \/ Fail(p)
            <6>1. /\ port'[PortOf(BootCore)].ci = port[PortOf(BootCore)].ci
                  /\ port'[PortOf(BootCore)].phase = "moved"
                       => port[PortOf(BootCore)].phase = "moved"
              <7>1. CASE PortOf(BootCore) # p
                BY <2>5, <5>1, <7>1 DEF Controller, StartList, StopList, Fetch, Complete, Fail
              <7>2. CASE StartList(p)
                BY <5>1, <7>2 DEF StartList, PortStates
              <7>5. CASE StopList(p)
                BY <5>1, <7>5 DEF StopList, PortStates
              <7>3. CASE Fetch(p)
                BY <5>1, <7>3 DEF Fetch, PortStates
              <7>4. CASE Fail(p)
                BY <5>1, <7>4 DEF Fail, PortStates
              <7> QED
                BY <5>2, <7>1, <7>2, <7>3, <7>4, <7>5
            <6> QED
              BY <3>1, <3>2, <4>2, <5>1, <6>1 DEF Moved, Outstanding
          <5>3. CASE PortOf(BootCore) = p /\ Complete(p)
            BY <4>2, <5>3 DEF Complete, Moved
          <5> QED
            BY <2>5, <5>2, <5>3 DEF Controller
        <4> QED
          BY <4>0, <4>1, <4>2
      <3> QED
        BY <1>3, <3>1, <3>2, MountKept DEF FirstSectorRead
    <2>6. ASSUME NEW p \in Ports, Move(p), UNCHANGED bfsVars PROVE MountInv'
      <3>1. PICK c \in Cores :
              /\ pc[c] = "wait" /\ PortOf(c) = p /\ slot[c] = port[p].slot
              /\ \/ Booting(c) /\ UNCHANGED <<disk, memory>>
                 \/ /\ ~Booting(c) /\ request[c] \in Requests /\ request[c].port = p
                    /\ ~request[c].w
                    /\ memory' = [memory EXCEPT ![c][request[c].page]
                                                  = disk[p][request[c].start]]
                    /\ UNCHANGED disk
                 \/ /\ ~Booting(c) /\ request[c] \in Requests /\ request[c].port = p
                    /\ request[c].w
                    /\ disk' = [disk EXCEPT ![p][request[c].start]
                                              = memory[c][request[c].page]]
                    /\ UNCHANGED memory
        BY <2>6, MoveEffect
      <3>2. c = BootCore
        BY <2>0, <3>1
      <3>3. request[BootCore] \in Requests /\ op[BootCore].w = request[BootCore].w
        BY <2>0, <3>1, <3>2, RequestOfLoop
      <3>4. /\ memory' = [memory EXCEPT ![BootCore][request[BootCore].page]
                                           = disk[Drive0][request[BootCore].start]]
            /\ UNCHANGED disk
        BY <2>0, <2>3, <3>1, <3>2, <3>3, RequestOfLoop
      <3>5. i > 0 /\ request[BootCore].start = i - 1 /\ request[BootCore].page = i - 1
        BY <2>3, <3>3, RequestOfLoop
      <3>6. memory'[BootCore][0] = IF i = 1 THEN disk[Drive0][0] ELSE memory[BootCore][0]
        BY <1>b, <3>4, <3>5
      <3>7. UNCHANGED <<op, drives, request, stage>>
        BY <2>6, ControllerSteps DEF Controller
      <3>8. Drive0' = Drive0
        BY <3>7 DEF Drive0
      <3>9. i # 1 => memory[BootCore][0] = disk[Drive0][0]
        BY <1>3, <2>3, <3>5 DEF MountInv
      <3>10. memory'[BootCore][0] = disk'[Drive0'][0]
        BY <3>4, <3>6, <3>8, <3>9
      <3>11. SuperBlockLoop(op[BootCore])'
        BY <2>3, <3>7, <3>8 DEF SuperBlockLoop
      <3> QED
        BY <1>3, <3>10, <3>11 DEF MountInv
    <2>7. ASSUME NEW c \in Cores, NextSector(c) PROVE MountInv'
      <3>1. c = BootCore /\ pc[BootCore] = "idle" /\ request[BootCore] = None /\ i < SuperSectors
        BY <1>3, <2>0, <2>3, <2>7 DEF NextSector, SataRW, Goto, CallInv
      <3>2. /\ op' = [op EXCEPT ![BootCore].i = @ + 1] /\ UNCHANGED <<disk, memory, drives>>
            /\ pc' = [pc EXCEPT ![BootCore] = "spin"] /\ request'[BootCore] \in Requests
        <4>1. LoopOK(op[BootCore])
          BY <2>0 DEF DriverInv, ControlInv, LoopInv
        <4> QED
          BY <2>0, <2>7, <3>1, <4>1, NextRequest DEF NextSector, SataRW, Goto
      <3>3. Drive0' = Drive0
        BY <3>2 DEF Drive0
      <3>5. op'[BootCore].i = i + 1 /\ i + 1 \in 0 .. SuperSectors
        BY <1>b, <2>0, <2>3, <3>1, <3>2 DEF Loops
      <3>4. SuperBlockLoop(op[BootCore])'
        BY <2>0, <2>3, <3>2, <3>3, <3>5 DEF SuperBlockLoop, Loops
      <3>6. ~Moved(BootCore)' /\ request'[BootCore] # None
        BY <1>a, <3>2 DEF Moved
      <3>7. i > 0 => memory[BootCore][0] = disk[Drive0][0]
        BY <1>3, <2>3, <3>1 DEF MountInv
      <3>8. op'[BootCore].i > 1 => memory'[BootCore][0] = disk'[Drive0'][0]
        BY <2>3, <3>2, <3>3, <3>5, <3>7
      <3> QED
        BY <1>3, <3>4, <3>5, <3>6, <3>8 DEF MountInv
    <2> QED
      <3>1. ASSUME InitAHCI PROVE FALSE
        BY <1>3, <3>1, InitAHCISteps DEF BootInv
      <3> QED
        BY <1>3, <2>4, <2>5, <2>6, <2>7, <3>1 DEF Next, Driver, Controller, InitGFS, FileOp,
           ReadSuperBlock, CountInodes, Draw, DrawBmp, BmpDrawn, FileOpEnds, Calls,
           ReadIn, Fopen, WriteBack, DirectRW, Free
  <1>4. CASE ReadSuperBlock
    <2>1. op'[BootCore] = SuperLoop /\ stage' = "mount"
            /\ UNCHANGED drives
      BY <1>4 DEF ReadSuperBlock, SuperLoop
    <2>2. SuperBlockLoop(op[BootCore])' /\ op'[BootCore].i = 0
      BY <1>b, <2>1 DEF SuperBlockLoop, SuperLoop, Loop, Drive0
    <2>3. ~(op[BootCore].i > 0)'
      BY <2>2
    <2>4. (stage \notin Mounted)'
      BY <2>1
    <2> QED
      BY <2>2, <2>3, <2>4 DEF MountInv
  <1>5. CASE CountInodes
    <2>1. /\ stage = "mount" /\ stage' = "mounted" /\ pc[BootCore] = "idle"
          /\ op[BootCore].i >= op[BootCore].end /\ UNCHANGED <<disk, drives>>
      BY <1>5 DEF CountInodes, LoopEnds
    <2>3. op[BootCore].i > 0
      BY <1>b, <2>1 DEF MountInv, SuperBlockLoop
    <2>4. memory[BootCore][0] = disk[Drive0][0]
      BY <2>1, <2>3 DEF MountInv, CallInv
    <2>5. Cardinality(Used) \in Nat
      BY UsedIsFinite
    <2>6. memory[BootCore][0] = Super => Cardinality(Used) <= known'
      BY <1>5, <2>5, BfsAssumption DEF CountInodes
    <2> QED
      BY <2>1, <2>4, <2>6 DEF MountInv, Drive0, Used
  <1>6. stage' = stage \/ ReadSuperBlock \/ CountInodes \/ Draw
    BY CalledLoop DEF Next, InitGFS, FileOp, NextSector, FileOpEnds
  <1>7. stage \in Mounted => stage' \in Mounted /\ UNCHANGED <<known, drives>>
    <2>1. ASSUME stage \in Mounted, InitAHCI PROVE FALSE
      BY <2>1, InitAHCISteps DEF BootInv
    <2> QED
      BY <2>1, CalledLoop, DriverSteps, ControllerSteps DEF Next, Driver, Spin, SpinLock, SpinsTooLong, Return,
         InitGFS, ReadSuperBlock, CountInodes, Draw, DrawBmp, BmpDrawn, FileOp, NextSector,
         SataRW, FileOpEnds, LoopEnds
  <1>8. Draw => stage \in Mounted
    BY DEF Draw, DrawBmp, BmpDrawn
  <1> QED
    BY <1>1, <1>2, <1>3, <1>4, <1>5, <1>6, <1>7, <1>8

LEMMA FileInvariant == Spec => []FileInv
  <1>1. Init => FileInv
    BY InitDriverInv, NoLoopAssumption DEF Init, AhciInit, FileInv, BufferInv, MountInv
  <1>2. FileInv /\ UNCHANGED vars => FileInv'
    BY NextDriverInv DEF FileInv, vars, ahciVars, bfsVars, controller, driver, BufferInv,
       MountInv, SuperBlockLoop, Drive0, Moved, Outstanding, PortOf, Booting
  <1>3. FileInv /\ Next => FileInv'
    BY NextDriverInv, NextBufferInv, NextMountInv DEF FileInv
  <1> QED
    BY <1>1, <1>2, <1>3, PTL DEF Spec

(* On a disk with the signature, fopen and readIn find every file whose    *)
(* name, and the names before it, are longer than their index: inodeLookUp *)
(* counts at least those entries.                                          *)
THEOREM NamesAreFound == Spec => []LookupComplete
  <1>1. ASSUME FileInv, stage = "up", disk[Drive0][0] = Super, NEW f \in Inodes,
               \A g \in 0 .. f : nameLength[g] > g
        PROVE  Found(f)
    <2>1. f \in Nat /\ 0 .. f \subseteq Inodes
      BY Intervals, BfsAssumption
    <2>2. 0 .. f \subseteq Used
      BY <1>1, <2>1 DEF Used
    <2>3. Cardinality(0 .. f) = f + 1
      BY <2>1, FS_Interval
    <2>4. Cardinality(0 .. f) <= Cardinality(Used)
      BY <2>2, UsedIsFinite, FS_Subset
    <2>5. Cardinality(Used) <= known
      BY <1>1 DEF FileInv, MountInv
    <2>6. known \in Nat
      BY <1>1, Intervals, BfsAssumption DEF FileInv, DriverInv, ControlInv, TypeOK
    <2> QED
      BY <2>1, <2>3, <2>4, <2>5, <2>6, UsedIsFinite DEF Found
  <1>2. FileInv => LookupComplete
    BY <1>1 DEF LookupComplete
  <1> QED
    BY <1>2, FileInvariant, PTL

-----------------------------------------------------------------------------
(* The abstract disk. *)

(* The refinement mapping: what Disk calls phase. *)
PhaseOf == [c \in Cores |-> Phase(c)]

(* A core whose request is as it was, and which has, or has not, got its   *)
(* data, is in the same phase.                                             *)
LEMMA PhaseStays ==
  ASSUME \A c \in Cores : /\ request'[c] = request[c]
                          /\ request[c] # None => (Moved(c)' <=> Moved(c))
  PROVE  PhaseOf' = PhaseOf
  BY DEF PhaseOf, Phase

(* ... and the phase of one core alone changes. *)
LEMMA PhaseMoves ==
  ASSUME NEW c \in Cores, NEW to, Phase(c)' = to,
         \A d \in Cores \ {c} : /\ request'[d] = request[d]
                                /\ request[d] # None => (Moved(d)' <=> Moved(d))
  PROVE  PhaseOf' = [PhaseOf EXCEPT ![c] = to]
  <1>1. \A d \in Cores \ {c} : Phase(d)' = Phase(d)
    BY DEF Phase
  <1>2. PhaseOf' = [d \in Cores |-> Phase(d)'] /\ PhaseOf = [d \in Cores |-> Phase(d)]
    BY DEF PhaseOf
  <1> QED
    BY <1>1, <1>2

LEMMA StutterIsAllowed ==
  ASSUME UNCHANGED <<disk, memory, request>>, PhaseOf' = PhaseOf
  PROVE  [AbstractDisk!Next]_(AbstractDisk!vars)
  BY DEF AbstractDisk!vars, PhaseOf

(* A core outside the last steps of sataRW has not got its data. *)
LEMMA NotMoved ==
  ASSUME NEW c \in Cores, pc[c] \notin {"wait", "quiet"}
  PROVE  ~Moved(c)
  BY DEF Moved

(* The controller, but for the transfer itself. *)
LEMMA ControllerRefines ==
  ASSUME DriverInv, NEW p \in Ports, Controller(p) \/ Fail(p), ~Move(p), UNCHANGED bfsVars
  PROVE  [AbstractDisk!Next]_(AbstractDisk!vars)
  <1>0. port \in [Ports -> PortStates] /\ PortInv
    BY DEF DriverInv, ControlInv, TypeOK, AhciTypeOK
  <1>1. UNCHANGED <<disk, memory, request, pc, slot, scan, header, table>>
    BY ControllerSteps DEF Controller, StartList, StopList, Fetch, Complete, Fail,
       driver, controller
  <1>2. \A c \in Cores : PortOf(c)' = PortOf(c)
    BY <1>1 DEF PortOf, Booting
  <1>3. ASSUME NEW c \in Cores, pc[c] = "wait" PROVE Moved(c)' <=> Moved(c)
    <2>0. PortOf(c) \in Ports
      BY <1>3, CommandType DEF DriverInv, Using
    <2>1. CASE PortOf(c) # p
      <3>1. port'[PortOf(c)] = port[PortOf(c)]
        BY <1>0, <2>0, <2>1 DEF Controller, StartList, StopList, Fetch, Complete, Fail
      <3> QED
        BY <1>1, <1>2, <3>1 DEF Moved, Outstanding
    <2>2. CASE PortOf(c) = p /\ ~Complete(p)
      <3>1. /\ port'[p].ci = port[p].ci
            /\ port'[p].phase # "moved" /\ port[p].phase # "moved"
        <4>1. CASE StartList(p)
          BY <1>0, <4>1 DEF StartList, PortInv, PortStates
        <4>2. CASE StopList(p)
          BY <1>0, <4>2 DEF StopList, PortInv, PortStates
        <4>3. CASE Fetch(p)
          BY <1>0, <4>3 DEF Fetch, PortStates
        <4>4. CASE Fail(p)
          BY <1>0, <4>4 DEF Fail, PortStates
        <4> QED
          BY <2>2, <4>1, <4>2, <4>3, <4>4 DEF Controller
      <3> QED
        BY <1>1, <1>2, <2>2, <3>1 DEF Moved, Outstanding
    <2>3. CASE PortOf(c) = p /\ Complete(p)
      <3>1. PICK d \in Cores : pc[d] = "wait" /\ slot[d] = port[p].slot
        BY <2>3, BusyPort DEF Complete
      <3>2. d = c
        BY <1>3, <3>1, OneCoreInDriver DEF Using
      <3>3. port'[p].ci = port[p].ci \ {slot[c]}
        BY <1>0, <2>3, <3>1, <3>2 DEF Complete, PortStates
      <3>4. Moved(c)'
        BY <1>1, <1>2, <1>3, <2>3, <3>3 DEF Moved, Outstanding
      <3>5. Moved(c)
        BY <1>3, <2>3 DEF Complete, Moved
      <3> QED
        BY <3>4, <3>5
    <2> QED
      BY <2>1, <2>2, <2>3
  <1>4. \A c \in Cores : pc[c] # "wait" => (Moved(c)' <=> Moved(c))
    BY <1>1 DEF Moved
  <1> QED
    BY <1>1, <1>3, <1>4, PhaseStays, StutterIsAllowed

(* The transfer is the one step in which a request takes effect. *)
LEMMA MoveRefines ==
  ASSUME DriverInv, NEW p \in Ports, Move(p), UNCHANGED bfsVars
  PROVE  [AbstractDisk!Next]_(AbstractDisk!vars)
  <1>0. port \in [Ports -> PortStates] /\ PortInv /\ BootInv
    BY DEF DriverInv, ControlInv, TypeOK, AhciTypeOK
  <1>1. UNCHANGED <<request, pc, slot, scan>>
    BY DEF Move, driver
  <1>2. PICK c \in Cores :
          /\ pc[c] = "wait" /\ PortOf(c) = p /\ slot[c] = port[p].slot
          /\ \/ Booting(c) /\ UNCHANGED <<disk, memory>>
             \/ /\ ~Booting(c) /\ request[c] \in Requests /\ request[c].port = p
                /\ ~request[c].w
                /\ memory' = [memory EXCEPT ![c][request[c].page]
                                              = disk[p][request[c].start]]
                /\ UNCHANGED disk
             \/ /\ ~Booting(c) /\ request[c] \in Requests /\ request[c].port = p
                /\ request[c].w
                /\ disk' = [disk EXCEPT ![p][request[c].start]
                                          = memory[c][request[c].page]]
                /\ UNCHANGED memory
    BY MoveEffect
  <1>3. \A d \in Cores \ {c} : request'[d] = request[d] /\ ~Moved(d) /\ ~Moved(d)'
    <2>1. \A d \in Cores \ {c} : pc[d] \notin Using
      BY <1>2, OneCoreInDriver DEF Using
    <2> QED
      BY <1>1, <2>1 DEF Moved, Using
  <1>4. CASE request[c] = None
    <2>1. UNCHANGED <<disk, memory>>
      BY <1>2, <1>4, NoneAssumption
    <2>2. PhaseOf' = PhaseOf
      BY <1>1, <1>3, <1>4, PhaseStays
    <2> QED
      BY <1>1, <2>1, <2>2, StutterIsAllowed
  <1>5. CASE request[c] # None
    <2>0. ~Booting(c)
      BY <1>0, <1>5 DEF BootInv, Booting
    <2>1. ~Moved(c)
      BY <1>0, <1>2 DEF Move, Moved, Outstanding, PortInv
    <2>2. Moved(c)'
      <3>1. port'[p].phase = "moved"
        BY <1>0 DEF Move, PortStates
      <3>2. PortOf(c)' = p /\ pc'[c] = "wait"
        BY <1>1, <1>2 DEF PortOf, Booting
      <3> QED
        BY <3>1, <3>2 DEF Moved
    <2>3. PhaseOf[c] = "asked" /\ Phase(c)' = "done"
      BY <1>1, <1>5, <2>1, <2>2 DEF PhaseOf, Phase
    <2>4. PhaseOf' = [PhaseOf EXCEPT ![c] = "done"]
      BY <1>3, <2>3, PhaseMoves
    <2>5. AbstractDisk!Step(c, "asked", "done")
      BY <2>3, <2>4 DEF AbstractDisk!Step, PhaseOf
    <2>6. AbstractDisk!Effect(c)
      BY <1>1, <1>2, <2>0, <2>5 DEF AbstractDisk!Effect
    <2> QED
      BY <2>6 DEF AbstractDisk!Next
  <1> QED
    BY <1>4, <1>5

(* What the driver does before and after it is not seen. *)
LEMMA DriverRefines ==
  ASSUME DriverInv, NEW c \in Cores, Spin(c) \/ Build(c) \/ SendCommand(c),
         UNCHANGED bfsVars
  PROVE  [AbstractDisk!Next]_(AbstractDisk!vars)
  <1>0. port \in [Ports -> PortStates]
    BY DEF DriverInv, ControlInv, TypeOK, AhciTypeOK
  <1>1. UNCHANGED <<disk, memory, request, scan>>
    BY DriverSteps DEF Spin, SpinLock, SpinsTooLong, controller, driver
  <1>2. ASSUME NEW d \in Cores, d # c, request[d] # None PROVE Moved(d)' <=> Moved(d)
    <2>1. CASE Spin(c)
      BY <1>2, <2>1, ControlTypes DEF Spin, SpinLock, SpinsTooLong, Goto, Moved,
         Outstanding, PortOf, Booting, controller, driver
    <2>2. CASE Build(c) \/ SendCommand(c)
      <3>1. pc[d] \notin Using /\ pc'[d] = pc[d]
        BY <1>2, <2>2, DriverSteps, OneCoreInDriver, ControlTypes
      <3> QED
        BY <3>1 DEF Moved, Using
    <2> QED
      BY <2>1, <2>2
  <1>3. ASSUME request[c] # None PROVE Moved(c)' <=> Moved(c)
    <2>1. CASE Spin(c) \/ Build(c) \/ WaitReady(c) \/ StartPort(c)
      <3>1. pc[c] \notin {"wait", "quiet"} /\ pc'[c] \notin {"wait", "quiet"}
        BY <2>1, ControlTypes DEF Spin, SpinLock, SpinsTooLong, Build, FindCMD, WriteHeader, WriteTable,
           WaitReady, StartPort, Goto
      <3> QED
        BY <3>1 DEF Moved
    <2>2. CASE Issue(c)
      <3>1. pc[c] = "issue" /\ pc'[c] = "wait" /\ UNCHANGED <<slot, request, scan>>
        BY <2>2, ControlTypes DEF Issue, Goto, driver
      <3>2. \A d \in Cores : pc[d] # "wait"
        <4>1. \A d \in Cores : d # c => pc[d] \notin Using
          BY <3>1, OneCoreInDriver DEF Using, Building
        <4> QED
          BY <3>1, <4>1 DEF Using
      <3>3. PortOf(c) \in Ports /\ PortOf(c)' = PortOf(c)
        BY <3>1, CommandType DEF DriverInv, Using, Building, PortOf, Booting
      <3>4. port[PortOf(c)].phase = "idle"
        BY <3>2, <3>3, NobodyWaits
      <3>5. slot[c] \in port'[PortOf(c)].ci /\ port'[PortOf(c)].phase = "idle"
        BY <1>0, <2>2, <3>3, <3>4 DEF Issue, PortStates
      <3>6. ~Moved(c)'
        BY <3>1, <3>3, <3>5 DEF Moved, Outstanding
      <3> QED
        BY <3>1, <3>6 DEF Moved
    <2>3. CASE WaitDone(c)
      BY <2>3, ControlTypes DEF WaitDone, Goto, Moved
    <2> QED
      BY <2>1, <2>2, <2>3 DEF SendCommand
  <1>4. PhaseOf' = PhaseOf
    BY <1>1, <1>2, <1>3, PhaseStays
  <1> QED
    BY <1>1, <1>4, StutterIsAllowed

LEMMA ReturnRefines ==
  ASSUME DriverInv, NEW c \in Cores, Return(c), UNCHANGED bfsVars
  PROVE  [AbstractDisk!Next]_(AbstractDisk!vars)
  <1>0. BootInv /\ CallInv
    BY DEF DriverInv, ControlInv
  <1>1. pc[c] = "quiet" /\ stage # "ports"
    BY <1>0, AhciAssumption DEF Return, Goto, BootInv, Booting, Using
  <1>2. request[c] # None
    BY <1>0, <1>1 DEF CallInv
  <1>3. request' = [request EXCEPT ![c] = None] /\ UNCHANGED <<disk, memory>>
    BY DEF Return, ForgetCall, controller
  <1>4. \A d \in Cores \ {c} : request'[d] = request[d] /\ (Moved(d)' <=> Moved(d))
    <2>1. \A d \in Cores \ {c} : pc[d] \notin Using
      BY <1>1, OneCoreInDriver DEF Using
    <2>2. \A d \in Cores \ {c} : pc'[d] = pc[d]
      BY ControlTypes DEF Return, Goto
    <2> QED
      BY <1>3, <2>1, <2>2, ControlTypes DEF Moved, Using
  <1>5. PhaseOf[c] = "done" /\ Phase(c)' = "idle"
    BY <1>1, <1>2, <1>3, ControlTypes DEF PhaseOf, Phase, Moved
  <1>6. PhaseOf' = [PhaseOf EXCEPT ![c] = "idle"]
    BY <1>4, <1>5, PhaseMoves
  <1>7. AbstractDisk!Return(c)
    BY <1>3, <1>5, <1>6 DEF AbstractDisk!Return, AbstractDisk!Step, PhaseOf
  <1> QED
    BY <1>7 DEF AbstractDisk!Next

(* A call of sataRW asks, and nothing else does. *)
LEMMA NextSectorRefines ==
  ASSUME DriverInv, NEW c \in Cores, NextSector(c)
  PROVE  [AbstractDisk!Next]_(AbstractDisk!vars)
  <1>0. BootInv /\ CallInv /\ LoopInv
    BY DEF DriverInv, ControlInv
  <1>1. pc[c] = "idle" /\ stage # "ports" /\ op[c] \in Loops /\ op[c].i < op[c].end
    BY <1>0, ControlTypes DEF NextSector, SataRW, Goto, BootInv
  <1>2. request[c] = None
    BY <1>0, <1>1 DEF CallInv
  <1>3. /\ \E r \in Requests : request' = [request EXCEPT ![c] = r]
        /\ UNCHANGED <<disk, memory, port, slot, scan>> /\ pc' = [pc EXCEPT ![c] = "spin"]
    BY <1>0, <1>1, NextRequest DEF NextSector, SataRW, Goto, LoopInv, controller
  <1>4. \A d \in Cores \ {c} : request'[d] = request[d] /\ (Moved(d)' <=> Moved(d))
    BY <1>3, ControlTypes DEF Moved, Outstanding, PortOf, Booting
  <1>5. PhaseOf[c] = "idle" /\ Phase(c)' = "asked"
    BY <1>2, <1>3, ControlTypes, NoneAssumption DEF PhaseOf, Phase, Moved
  <1>6. PhaseOf' = [PhaseOf EXCEPT ![c] = "asked"]
    BY <1>4, <1>5, PhaseMoves
  <1>7. AbstractDisk!Ask(c)
    BY <1>3, <1>5, <1>6 DEF AbstractDisk!Ask, AbstractDisk!Step, PhaseOf
  <1> QED
    BY <1>7 DEF AbstractDisk!Next

(* Between its requests a core does what it likes with its own buffer. *)
LEMMA FileRefines ==
  ASSUME DriverInv, NEW c \in Cores, InitGFS \/ Draw \/ FileOpEnds(c) \/ Calls(c)
  PROVE  [AbstractDisk!Next]_(AbstractDisk!vars)
  <1>0. /\ BootInv /\ CallInv
        /\ memory \in [Cores -> [Pages -> Contents]]
    BY DEF DriverInv, ControlInv, TypeOK, AhciTypeOK
  <1>1. UNCHANGED <<disk, port, request, pc, slot, scan>>
    BY CalledLoop DEF InitGFS, ReadSuperBlock, CountInodes, Draw, DrawBmp, BmpDrawn, LoopEnds,
       FileOpEnds, ahciVars,
       controller, driver
  <1>2. PhaseOf' = PhaseOf
    BY <1>1, PhaseStays DEF Moved, Outstanding, PortOf, Booting
  <1>3. \/ UNCHANGED memory
        \/ \E d \in Cores : pc[d] = "idle" /\ stage # "ports" /\
             \E v \in [Pages -> Contents] : memory' = [memory EXCEPT ![d] = v]
    <2>1. \A v \in Contents : [k \in Pages |-> v] \in [Pages -> Contents]
      OBVIOUS
    <2>2. None \in Contents /\ Values \subseteq Contents
      BY DEF Contents
    <2>3. CASE ReadSuperBlock \/ DrawBmp \/ ReadIn(c) \/ Fopen(c)
      BY <2>3 DEF ReadSuperBlock, DrawBmp, ReadIn, Fopen, ahciVars, controller
    <2>4. CASE CountInodes \/ BmpDrawn \/ FileOpEnds(c)
      <3>1. PICK d \in Cores : /\ pc[d] = "idle" /\ stage # "ports"
                               /\ memory' = [memory EXCEPT ![d] = [k \in Pages |-> None]]
        BY <2>4, AhciAssumption DEF CountInodes, BmpDrawn, FileOpEnds, LoopEnds
      <3> QED
        BY <2>1, <2>2, <3>1
    <2>5. CASE WriteBack(c) \/ DirectRW(c)
      <3>1. PICK v \in Values : memory' = [memory EXCEPT ![c] = [k \in Pages |-> v]]
        BY <2>5 DEF WriteBack, DirectRW
      <3>2. pc[c] = "idle" /\ stage # "ports"
        BY <2>5 DEF WriteBack, DirectRW, Free
      <3> QED
        BY <2>1, <2>2, <3>1, <3>2
    <2> QED
      BY <2>3, <2>4, <2>5 DEF InitGFS, Draw, Calls
  <1>4. CASE UNCHANGED memory
    BY <1>1, <1>2, <1>4, StutterIsAllowed
  <1>5. ASSUME NEW d \in Cores, pc[d] = "idle", stage # "ports",
               NEW v \in [Pages -> Contents], memory' = [memory EXCEPT ![d] = v]
        PROVE  AbstractDisk!Touch(d)
    <2>1. PhaseOf[d] = "idle"
      BY <1>0, <1>5 DEF PhaseOf, Phase, CallInv
    <2>2. DOMAIN memory[d] = Pages
      BY <1>0
    <2> QED
      BY <1>1, <1>2, <1>5, <2>1, <2>2 DEF AbstractDisk!Touch, PhaseOf
  <1> QED
    BY <1>3, <1>4, <1>5 DEF AbstractDisk!Next

(* The driver implements the abstract disk for any number of cores, ports  *)
(* and slots: every read and write of a sector takes effect in one step    *)
(* between its call and its return, on the sector and the buffer it names. *)
THEOREM RequestsAreAtomic == Spec => ImplementsDisk
  <1>1. Init => AbstractDisk!Init
    BY DEF Init, AhciInit, AbstractDisk!Init, Phase
  <1>2. ASSUME DriverInv, Next PROVE [AbstractDisk!Next]_(AbstractDisk!vars)
    <2>1. ASSUME InitAHCI, UNCHANGED bfsVars
          PROVE  [AbstractDisk!Next]_(AbstractDisk!vars)
      <3>0. BootInv
        BY <1>2 DEF DriverInv, ControlInv
      <3>a. stage = "ports"
        BY <1>2, <2>1, <3>0, ControlTypes, InitAHCISteps DEF BootInv, Using
      <3>1. \A c \in Cores : request[c] = None
        BY <3>0, <3>a DEF BootInv
      <3>2. PhaseOf' = PhaseOf
        BY <2>1, <3>1, InitAHCISteps, PhaseStays
      <3> QED
        BY <2>1, <3>2, InitAHCISteps, StutterIsAllowed
    <2>2. ASSUME NEW c \in Cores, Spin(c) \/ Driver(c), UNCHANGED bfsVars
          PROVE  [AbstractDisk!Next]_(AbstractDisk!vars)
      BY <1>2, <2>2, DriverRefines, ReturnRefines DEF Driver
    <2>3. ASSUME NEW p \in Ports, Controller(p) \/ Fail(p), UNCHANGED bfsVars
          PROVE  [AbstractDisk!Next]_(AbstractDisk!vars)
      BY <1>2, <2>3, ControllerRefines, MoveRefines
    <2>4. ASSUME NEW c \in Cores, InitGFS \/ Draw \/ FileOp(c) \/ Calls(c)
          PROVE  [AbstractDisk!Next]_(AbstractDisk!vars)
      BY <1>2, <2>4, NextSectorRefines, FileRefines DEF FileOp
    <2>5. BootCore \in Cores
      BY AhciAssumption
    <2> QED
      BY <1>2, <2>1, <2>2, <2>3, <2>4, <2>5 DEF Next
  <1>3. UNCHANGED vars => UNCHANGED (AbstractDisk!vars)
    BY DEF vars, ahciVars, bfsVars, controller, driver, AbstractDisk!vars, Phase, Moved,
       Outstanding, PortOf, Booting
  <1>4. DriverInv /\ [Next]_vars => [AbstractDisk!Next]_(AbstractDisk!vars)
    BY <1>2, <1>3
  <1> QED
    BY <1>1, <1>4, DriverInvariant, PTL DEF Spec, ImplementsDisk, AbstractDisk!Spec
=============================================================================
