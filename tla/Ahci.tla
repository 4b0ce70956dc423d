-------------------------------- MODULE Ahci --------------------------------
(***************************************************************************)
(* The SATA driver of seaweed (kernel/drivers/ahci.c): initAHCI, which     *)
(* finds the drives at boot, sataRW, which copies sectors under one lock,  *)
(* and the controller it drives, as far as the driver uses it: a list of   *)
(* command headers in each port's memory, the address of a command table   *)
(* in each header, and the registers ST, CR, CI, BSY.                      *)
(*                                                                         *)
(* A command table is named by its address.  sataRW clears the header of   *)
(* slot 0, the address with it, so all ports then share the table at       *)
(* physical address 0: Low.  The firmware left a table of its own, named   *)
(* by the port, in slot 0 and no table in the others.                      *)
(***************************************************************************)
EXTENDS Integers, Sequences, FiniteSets

CONSTANTS Cores,
          BootCore,   \* the core that runs initAHCI
          Ports,      \* an interval from 0: the ports of the controller
          Implemented,\* the bits of GHC.PI
          Ata,        \* the ports whose signature is SATA_ATA
          Slots,      \* 0 .. 31 in the code
          Sectors,    \* of each drive
          LbaLimit,   \* 2^32 in the code: bytes 4 and 5 come out as 0
          Pages,      \* of memory, in sectors from the start of a buffer on
          Values,     \* of a sector
          Super,      \* of the sector with the signature of the file system
          None        \* nothing: no request, no command, an unread page

ASSUME AhciAssumption ==
  /\ BootCore \in Cores
  /\ IsFiniteSet(Ports) /\ Ports # {} /\ Ports = 0 .. Cardinality(Ports) - 1
  /\ Implemented \subseteq Ports /\ Ata \subseteq Ports
  /\ IsFiniteSet(Slots) /\ Slots # {} /\ Slots = 0 .. Cardinality(Slots) - 1
  /\ LbaLimit \in Nat \ {0} /\ Sectors \subseteq 0 .. LbaLimit - 1
  /\ Pages \subseteq Nat
  /\ Super \notin Values /\ None \notin Values \cup {Super}

(* initGFS reads drive 0 without looking at the number of drives. *)
ASSUME DriveAssumption == Implemented \cap Ata # {}

VARIABLES
  disk,     \* by port and sector
  memory,   \* the buffers, by core and page
  header,   \* ctba, by port and slot
  table,    \* the command tables
  port,     \* the registers of each port, and what it is doing
  lock,     \* the static lock of sataRW
  pc,       \* where each core is in the driver
  slot,     \* its CMDslot
  request,  \* the arguments of sataRW
  scan,     \* the loop variable of initAHCI
  drives    \* the ports that addDrive was given

controller == <<disk, memory, port>>
driver == <<header, table, lock, slot, request, scan, drives>>
ahciVars == <<controller, driver, pc>>

Low == -1
Contents == Values \cup {Super, None}
Requests == [port : Ports, start : Sectors, page : Pages, w : BOOLEAN]
Commands == [op : {"identify", "read", "write"}, lba : Sectors,
             dba : Cores \X Pages]

ASSUME NoneAssumption == None \notin Requests \cup Commands

IsLowest(s, S) == s \in S /\ \A t \in S : s <= t

AhciInit ==
  /\ memory = [c \in Cores |-> [k \in Pages |-> None]]
  /\ header = [p \in Ports |-> [s \in Slots |-> IF s = 0 THEN p ELSE Low]]
  /\ table = [a \in Ports \cup {Low} |-> None]
  /\ port = [p \in Ports |-> [st |-> FALSE, cr |-> FALSE, ci |-> {},
                              phase |-> "idle", slot |-> 0, cmd |-> None]]
  /\ lock = FALSE
  /\ pc = [c \in Cores |-> IF c = BootCore THEN "ports" ELSE "idle"]
  /\ slot = [c \in Cores |-> 0]
  /\ request = [c \in Cores |-> None]
  /\ scan = 0
  /\ drives = <<>>

-----------------------------------------------------------------------------
(* The driver. *)

Goto(c, from, to) == pc[c] = from /\ pc' = [pc EXCEPT ![c] = to]

Booting(c) == c = BootCore /\ scan \in Ports
PortOf(c) == IF Booting(c) THEN scan ELSE request[c].port
Outstanding(p) == port[p].ci   \* SACT stays clear: no queued commands

(* initAHCI: the ports that need no command, and those that do. *)
SkipPort ==
  /\ scan \in Ports /\ scan \notin Implemented \cap Ata
  /\ pc[BootCore] = "ports"
  /\ scan' = scan + 1
  /\ UNCHANGED <<controller, header, table, lock, slot, request, drives, pc>>

InitSATAdevice ==
  /\ Goto(BootCore, "ports", "find")
  /\ scan \in Implemented \cap Ata
  /\ UNCHANGED <<controller, driver>>

PortsDone ==
  /\ Goto(BootCore, "ports", "idle")
  /\ scan \notin Ports
  /\ UNCHANGED <<controller, driver>>

(* sataRW(drive, start, 1, buffer, w). *)
SataRW(c, r) ==
  /\ Goto(c, "idle", "spin")
  /\ request' = [request EXCEPT ![c] = r]
  /\ UNCHANGED <<controller, header, table, lock, slot, scan, drives>>

(* Fault: a lock for each port. *)
SpinLockOfPort(c) ==
  /\ Goto(c, "spin", "find")
  /\ \A d \in {e \in Cores : pc[e] \notin {"idle", "ports", "spin", "halted"}} :
       PortOf(d) # PortOf(c)
  /\ lock' = TRUE
  /\ UNCHANGED <<controller, header, table, slot, request, scan, drives>>

SpinLock(c) ==
  /\ Goto(c, "spin", "find")
  /\ ~lock
  /\ lock' = TRUE
  /\ UNCHANGED <<controller, header, table, slot, request, scan, drives>>

(* The 10^8th turn of spinLock raises an exception, which stops the core.  *)
(* A transfer that comes to its end takes less than that: it happens only  *)
(* when the core with the lock waits for a drive that has failed.          *)
WaitsForever(c) == pc[c] = "wait" /\ port[PortOf(c)].phase = "failed"

SpinsTooLong(c) ==
  /\ Goto(c, "spin", "halted")
  /\ lock /\ \E d \in Cores : WaitsForever(d)
  /\ UNCHANGED <<controller, driver>>

Spin(c) == SpinLock(c) \/ SpinsTooLong(c)

(* findCMD: the first slot without a command, 0 when there is none. *)
FindCMD(c) ==
  /\ Goto(c, "find", "header")
  /\ LET free == Slots \ Outstanding(PortOf(c))
     IN \E s \in Slots : /\ IF free = {} THEN s = 0 ELSE IsLowest(s, free)
                         /\ slot' = [slot EXCEPT ![c] = s]
  /\ UNCHANGED <<controller, header, table, lock, request, scan, drives>>

(* sataRW clears the header of slot 0, whichever slot it uses; the header  *)
(* of an identify command keeps the table the firmware gave it.            *)
WriteHeader(c) ==
  /\ Goto(c, "header", "table")
  /\ header' = IF Booting(c) THEN header
               ELSE [header EXCEPT ![PortOf(c)][0] = Low]
  /\ UNCHANGED <<controller, table, lock, slot, request, scan, drives>>

(* Fault: a sector number of one bit. *)
LbaLowBit(start) == start % 2

Lba(start) == start % LbaLimit

Command(c) ==
  IF Booting(c)
  THEN [op |-> "identify", lba |-> 0, dba |-> <<c, 0>>]
  ELSE [op |-> IF request[c].w THEN "write" ELSE "read",
        lba |-> Lba(request[c].start), dba |-> <<c, request[c].page>>]

WriteTable(c) ==
  /\ Goto(c, "table", "ready")
  /\ table' = [table EXCEPT ![header[PortOf(c)][slot[c]]] = Command(c)]
  /\ UNCHANGED <<controller, header, lock, slot, request, scan, drives>>

(* Clearing ST makes the port forget its commands. *)
ClearST(p) == port' = [port EXCEPT ![p].st = FALSE, ![p].ci = {}]
Busy(p) == port[p].phase \in {"fetched", "moved"}

(* sendCommand. *)
WaitReady(c) ==
  /\ Goto(c, "ready", "stopped")
  /\ ~Busy(PortOf(c))
  /\ ClearST(PortOf(c))
  /\ UNCHANGED <<disk, memory, driver>>

StartPort(c) ==
  /\ Goto(c, "stopped", "issue")
  /\ ~port[PortOf(c)].cr
  /\ port' = [port EXCEPT ![PortOf(c)].st = TRUE]
  /\ UNCHANGED <<disk, memory, driver>>

Issue(c) ==
  /\ Goto(c, "issue", "wait")
  /\ port' = [port EXCEPT ![PortOf(c)].ci = @ \cup {slot[c]}]
  /\ UNCHANGED <<disk, memory, driver>>

WaitDone(c) ==
  /\ Goto(c, "wait", "quiet")
  /\ slot[c] \notin Outstanding(PortOf(c))
  /\ ClearST(PortOf(c))
  /\ UNCHANGED <<disk, memory, driver>>

(* The next call clears the table before it is read: it is forgotten here. *)
ForgetCall(c) ==
  /\ request' = [request EXCEPT ![c] = None]
  /\ slot' = [slot EXCEPT ![c] = 0]
  /\ table' = [table EXCEPT ![header[PortOf(c)][slot[c]]] = None]

(* Fault: the lock stays. *)
ReturnKeepLock(c) ==
  /\ Goto(c, "quiet", "idle")
  /\ ~Booting(c) /\ ~port[PortOf(c)].cr
  /\ ForgetCall(c)
  /\ UNCHANGED <<controller, header, lock, scan, drives>>

Return(c) ==
  /\ Goto(c, "quiet", "idle")
  /\ ~Booting(c) /\ ~port[PortOf(c)].cr
  /\ lock' = FALSE
  /\ ForgetCall(c)
  /\ UNCHANGED <<controller, header, scan, drives>>

(* The end of initSATAdevice: the identify page is kept, the drive is      *)
(* added.  The table of drives has 32 entries, as many as there are ports. *)
AddDrive ==
  /\ Goto(BootCore, "quiet", "ports")
  /\ scan \in Ports /\ ~port[scan].cr
  /\ drives' = Append(drives, scan)
  /\ scan' = scan + 1
  /\ UNCHANGED <<controller, header, table, lock, slot, request>>

InitAHCI == SkipPort \/ InitSATAdevice \/ AddDrive \/ PortsDone

SendCommand(c) == WaitReady(c) \/ StartPort(c) \/ Issue(c) \/ WaitDone(c)

Build(c) == FindCMD(c) \/ WriteHeader(c) \/ WriteTable(c)

-----------------------------------------------------------------------------
(* The controller. *)

StartList(p) ==
  /\ port[p].st /\ ~port[p].cr
  /\ port' = [port EXCEPT ![p].cr = TRUE]
  /\ UNCHANGED <<disk, memory, driver, pc>>

StopList(p) ==
  /\ ~port[p].st /\ port[p].cr
  /\ port' = [port EXCEPT ![p].cr = FALSE, ![p].phase = "idle", ![p].cmd = None]
  /\ UNCHANGED <<disk, memory, driver, pc>>

Fetch(p) ==
  /\ port[p].st /\ port[p].cr /\ port[p].phase = "idle"
  /\ \E s \in port[p].ci :
       port' = [port EXCEPT ![p].phase = "fetched", ![p].slot = s,
                            ![p].cmd = table[header[p][s]]]
  /\ UNCHANGED <<disk, memory, driver, pc>>

(* The data goes where the table says when it is transferred. *)
Move(p) ==
  /\ port[p].phase = "fetched"
  /\ LET cmd  == port[p].cmd
         core == table[header[p][port[p].slot]].dba[1]
         page == table[header[p][port[p].slot]].dba[2]
     IN CASE cmd.op = "read" ->
               /\ memory' = [memory EXCEPT ![core][page] = disk[p][cmd.lba]]
               /\ UNCHANGED disk
          [] cmd.op = "write" ->
               /\ disk' = [disk EXCEPT ![p][cmd.lba] = memory[core][page]]
               /\ UNCHANGED memory
          [] OTHER -> UNCHANGED <<disk, memory>>   \* the identify page
  /\ port' = [port EXCEPT ![p].phase = "moved"]
  /\ UNCHANGED <<driver, pc>>

Complete(p) ==
  /\ port[p].phase = "moved"
  /\ port' = [port EXCEPT ![p].phase = "idle", ![p].cmd = None,
                          ![p].slot = 0, ![p].ci = @ \ {port[p].slot}]
  /\ UNCHANGED <<disk, memory, driver, pc>>

(* An error: the port is no longer busy, the command stays in CI. *)
Fail(p) ==
  /\ port[p].phase = "fetched"
  /\ port' = [port EXCEPT ![p].phase = "failed"]
  /\ UNCHANGED <<disk, memory, driver, pc>>

Controller(p) == StartList(p) \/ StopList(p) \/ Fetch(p) \/ Move(p) \/ Complete(p)

-----------------------------------------------------------------------------
(* Properties. *)

Building == {"header", "table", "ready", "stopped", "issue"}
Using    == Building \cup {"find", "wait", "quiet"}

PortStates == [st : BOOLEAN, cr : BOOLEAN, ci : SUBSET Slots,
               phase : {"idle", "fetched", "moved", "failed"},
               slot : Slots, cmd : Commands \cup {None}]

AhciTypeOK ==
  /\ disk \in [Ports -> [Sectors -> Contents]]
  /\ memory \in [Cores -> [Pages -> Contents]]
  /\ header \in [Ports -> [Slots -> Ports \cup {Low}]]
  /\ table \in [Ports \cup {Low} -> Commands \cup {None}]
  /\ port \in [Ports -> PortStates]
  /\ lock \in BOOLEAN
  /\ pc \in [Cores -> Using \cup {"idle", "ports", "spin", "halted"}]
  /\ slot \in [Cores -> Slots]
  /\ request \in [Cores -> Requests \cup {None}]
  /\ scan \in Nat
  /\ drives \in Seq(Ports)

(* While a core builds a command, no port has one outstanding in a table   *)
(* that core writes: the tables are shared, and the header of slot 0 is    *)
(* cleared before the slot is looked at (ahci.c:133).                      *)
TableUnused ==
  \A c \in Cores, p \in Ports :
    pc[c] \in Building
      => \A s \in port[p].ci : header[p][s] # header[PortOf(c)][slot[c]]

(* The status of a core for the abstract disk. *)
Moved(c) ==
  \/ pc[c] = "quiet"
  \/ /\ pc[c] = "wait"
     /\ slot[c] \notin Outstanding(PortOf(c)) \/ port[PortOf(c)].phase = "moved"

Phase(c) == IF request[c] = None THEN "idle" ELSE IF Moved(c) THEN "done" ELSE "asked"

AbstractDisk == INSTANCE Disk WITH phase <- [c \in Cores |-> Phase(c)]
ImplementsDisk == AbstractDisk!Spec
=============================================================================
