--------------------------------- MODULE Bfs ---------------------------------
(***************************************************************************)
(* The file system of seaweed (kernel/fs/bfs.c) on top of the SATA driver  *)
(* (module Ahci): initGFS, which reads the inode table on the boot core,   *)
(* and fopen, readIn and writeBack, which look a name up and copy its      *)
(* sectors one sataRW at a time; and drawBmp (kernel/drivers/bmp.c), which *)
(* the boot calls after initGFS and which reads its sectors itself.  After *)
(* the boot every core may call the file system, or sataRW directly.       *)
(*                                                                         *)
(* A file is named by its entry in the inode table, and an operation is    *)
(* the loop it amounts to: the sectors from first + i on while i < end,    *)
(* into sector i - from of the memory that begins with the caller's        *)
(* buffer.  That memory is forgotten when the call ends.                   *)
(***************************************************************************)
EXTENDS Ahci

CONSTANTS Inodes,       \* an interval from 0: the entries with a name
          nameLength,   \* of each inode's fileName
          blockNumber,  \* of each inode
          FileLength,   \* the sectors of each file
          SuperSectors, \* sectors of the inode table: 0x1000 in the code
          Garbage,      \* most entries counted behind the inode table
          MaxCount,     \* bound: most sectors a caller asks a file for
          BmpSector,    \* the first that drawBmp reads: 0x7800
          BmpRoom,      \* sectors its buffer has room for: 0x300 * 8
          Direct        \* drives used without the file system

ASSUME BfsAssumption ==
  /\ IsFiniteSet(Inodes)
  /\ Inodes # {} /\ Inodes = 0 .. Cardinality(Inodes) - 1
  /\ nameLength \in [Inodes -> Nat] /\ blockNumber \in [Inodes -> Nat]
  /\ SuperSectors \in Nat \ {0} /\ Garbage \in Nat
  /\ FileLength \in [Inodes -> Nat]
  /\ MaxCount \in Nat /\ BmpSector \in Nat /\ BmpRoom \in Nat \ {0}
  /\ Direct \subseteq Implemented \cap Ata

(* How many sectors more than its buffer has room for drawBmp reads. *)
BmpOverrun == 2

(* A drive has the sectors that are asked for, and the machine has memory  *)
(* where they go, within a buffer or behind it.                            *)
ASSUME LayoutAssumption ==
  /\ 0 .. SuperSectors - 1 \subseteq Sectors \cap Pages
  /\ \A f \in Inodes : \A k \in 0 .. MaxCount - 1 :
       SuperSectors + blockNumber[f] + k \in Sectors /\ k \in Pages
  /\ \A k \in 0 .. BmpRoom + BmpOverrun - 1 : BmpSector + k \in Sectors /\ k \in Pages

VARIABLES
  stage,     \* of the boot: "ports", "mount", "mounted", "draw" or "up"
  op,        \* what each core is doing in the file system
  known      \* inodeCount - unallocatedInode

bfsVars == <<stage, op, known>>
vars == <<ahciVars, bfsVars>>

FilesSector == SuperSectors
Drive0 == drives[1]

(* What op may be: sectors first + i of a port, i from "from" up to end,   *)
(* for the file that was named, if any, into a buffer with so much room.   *)
Callers == [file : Inodes \cup {None}, room : Nat]
Loops == [port : Ports, first : Nat, i : Nat, from : Nat, end : Nat, w : BOOLEAN,
          by : Callers]

ASSUME NoLoopAssumption == None \notin Loops

Init ==
  /\ AhciInit
  /\ \E super \in {Super, None} :
       disk = [p \in Ports |-> [s \in Sectors |-> IF s = 0 THEN super ELSE None]]
  /\ stage = "ports"
  /\ op = [c \in Cores |-> None]
  /\ known = 0

-----------------------------------------------------------------------------
(* The loops over sataRW. *)

By(f, room) == [file |-> f, room |-> room]

(* Fault: the loops run to i <= end. *)
LoopOneMore(p, first, from, end, w, by) ==
  [port |-> p, first |-> first, i |-> from, from |-> from, end |-> end + 1,
   w |-> w, by |-> by]

Loop(p, first, from, end, w, by) ==
  [port |-> p, first |-> first, i |-> from, from |-> from, end |-> end, w |-> w,
   by |-> by]

NextSector(c) ==
  /\ op[c] # None
  /\ op[c].i < op[c].end
  /\ SataRW(c, [port |-> op[c].port, start |-> op[c].first + op[c].i,
                page |-> op[c].i - op[c].from, w |-> op[c].w])
  /\ op' = [op EXCEPT ![c].i = @ + 1]
  /\ UNCHANGED <<stage, known>>

LoopEnds(c) ==
  /\ op[c] # None /\ pc[c] = "idle" /\ op[c].i >= op[c].end
  /\ op' = [op EXCEPT ![c] = None]
  /\ memory' = [memory EXCEPT ![c] = [k \in Pages |-> None]]
  /\ UNCHANGED <<disk, port, driver, pc>>

FileOpEnds(c) ==
  /\ stage = "up"
  /\ LoopEnds(c)
  /\ UNCHANGED <<stage, known>>

(* initGFS: the superblock, ... *)
ReadSuperBlock ==
  /\ stage = "ports" /\ scan \notin Ports /\ pc[BootCore] = "idle"
  /\ stage' = "mount"
  /\ op' = [op EXCEPT ![BootCore] =
              Loop(Drive0, 0, 0, SuperSectors, FALSE, By(None, SuperSectors))]
  /\ UNCHANGED <<ahciVars, known>>

(* Fault: byte i + 1 is looked at. *)
UsedNextByte == {k \in Inodes : nameLength[k] > k + 1}

(* ... then the signature, and the entries in use.  Entry i counts when    *)
(* byte i of its name is not 0: a shorter name is missed.  The table is    *)
(* taken to have 28 bytes an entry instead of 29, so the scan ends behind  *)
(* the memory that was read, and what it finds there counts too.  That     *)
(* "present" must be 0 excludes nothing: boot.asm writes 0 in every entry. *)
Used == {k \in Inodes : nameLength[k] > k}

(* Without the signature the two counts stay what the disk has in their    *)
(* place: anything (more than the entries that are there find no more).    *)
CountInodes ==
  /\ stage = "mount" /\ stage' = "mounted"
  /\ LoopEnds(BootCore)
  /\ IF memory[BootCore][0] = Super
     THEN \E behind \in 0 .. Garbage : known' = Cardinality(Used) + behind
     ELSE \E n \in 0 .. Cardinality(Inodes) : known' = n

(* drawBmp: it reads from the first drive, whatever name it was given. *)
DrawBmp ==
  /\ stage = "mounted" /\ stage' = "draw"
  /\ op' = [op EXCEPT ![BootCore] =
              Loop(Drive0, BmpSector, 0, BmpRoom + BmpOverrun, FALSE, By(None, BmpRoom))]
  /\ UNCHANGED <<ahciVars, known>>

BmpDrawn ==
  /\ stage = "draw" /\ stage' = "up"
  /\ LoopEnds(BootCore)
  /\ UNCHANGED known

(* inodeLookUp: the entries before known are compared. *)
Found(f) == f < known

(* Fault: the file's block is taken from the start of the disk. *)
StartOnDisk(f) == blockNumber[f]

StartOf(f) == FilesSector + blockNumber[f]

Free(c) == stage = "up" /\ pc[c] = "idle" /\ op[c] = None

(* An unknown name ends the call with a message.  Nothing compares what is *)
(* asked for with the file's blockCount: callers may ask for any number of *)
(* sectors, and have buffers for them.                                     *)
ReadIn(c) ==
  /\ Free(c)
  /\ \E f \in Inodes, start, count \in 0 .. MaxCount :
       op' = [op EXCEPT ![c] =
                IF Found(f) THEN Loop(Drive0, StartOf(f), start, count, FALSE, By(f, count))
                            ELSE None]
  /\ UNCHANGED <<ahciVars, stage, known>>

Fopen(c) ==
  /\ Free(c)
  /\ \E f \in Inodes, size \in 0 .. MaxCount :
       op' = [op EXCEPT ![c] =
                IF Found(f) THEN Loop(Drive0, StartOf(f), 0, size, FALSE, By(f, size))
                            ELSE None]
  /\ UNCHANGED <<ahciVars, stage, known>>

(* The caller has filled its buffer. *)
WriteBack(c) ==
  /\ Free(c)
  /\ \E f \in Inodes, count \in 0 .. MaxCount, v \in Values :
       /\ Found(f)
       /\ memory' = [memory EXCEPT ![c] = [k \in Pages |-> v]]
       /\ op' = [op EXCEPT ![c] = Loop(Drive0, StartOf(f), 0, count, TRUE, By(f, count))]
  /\ UNCHANGED <<disk, port, driver, pc, stage, known>>

(* sataRW called without the file system: one sector, here sector 0. *)
DirectRW(c) ==
  /\ Free(c)
  /\ \E p \in Direct, w \in BOOLEAN, v \in Values :
       /\ memory' = [memory EXCEPT ![c] = [k \in Pages |-> v]]
       /\ op' = [op EXCEPT ![c] = Loop(p, 0, 0, 1, w, By(None, 1))]
  /\ UNCHANGED <<disk, port, driver, pc, stage, known>>

InitGFS == ReadSuperBlock \/ CountInodes

Draw == DrawBmp \/ BmpDrawn

FileOp(c) == NextSector(c) \/ FileOpEnds(c)

Calls(c) == ReadIn(c) \/ Fopen(c) \/ WriteBack(c) \/ DirectRW(c)

Driver(c) == Build(c) \/ SendCommand(c) \/ Return(c)

Next ==
  \/ (InitAHCI \/ \E c \in Cores : Spin(c) \/ Driver(c)) /\ UNCHANGED bfsVars
  \/ (\E p \in Ports : Controller(p) \/ Fail(p)) /\ UNCHANGED bfsVars
  \/ InitGFS \/ Draw
  \/ \E c \in Cores : FileOp(c) \/ Calls(c)

Spec == Init /\ [][Next]_vars

(* The driver's code runs on, a port works through its commands unless it  *)
(* fails, and a core that spins gets the lock in the pauses of the others, *)
(* or has spun for too long.                                               *)
Fairness ==
  /\ \A c \in Cores : /\ SF_vars(SpinLock(c) /\ UNCHANGED bfsVars)
                      /\ WF_vars(SpinsTooLong(c) /\ UNCHANGED bfsVars)
                      /\ WF_vars(Driver(c) /\ UNCHANGED bfsVars)
                      /\ WF_vars(FileOp(c))
  /\ WF_vars(InitAHCI /\ UNCHANGED bfsVars)
  /\ WF_vars(InitGFS \/ Draw)
  /\ \A p \in Ports : WF_vars(Controller(p) /\ UNCHANGED bfsVars)

FairSpec == Spec /\ Fairness

-----------------------------------------------------------------------------
(* Properties. *)

TypeOK ==
  /\ AhciTypeOK
  /\ stage \in {"ports", "mount", "mounted", "draw", "up"}
  /\ op \in [Cores -> Loops \cup {None}]
  /\ known \in 0 .. Cardinality(Inodes) + Garbage

(* A file is found when it and all before it in the table have names that  *)
(* are longer than their index, as on the disk that boot.asm lays out.     *)
LookupComplete ==
  stage = "up" /\ disk[Drive0][0] = Super
    => \A f \in Inodes : (\A g \in 0 .. f : nameLength[g] > g) => Found(f)

(* A sector of the disk changes only under a call that writes, and it is   *)
(* one of the file the call names, whoever else is writing; only when the  *)
(* call asks for more sectors than the file has, which writeBack does not  *)
(* notice, it may be one of those that follow the file.  sataRW called     *)
(* directly writes the sector it was given.                                *)
FirstSectors(f, n) == {FilesSector + blockNumber[f] + k : k \in 0 .. n - 1}
SectorsOf(f) == FirstSectors(f, FileLength[f])
Owns(l, s) ==
  \/ l.by.file = None /\ l.port \in Direct /\ s = 0
  \/ /\ l.by.file \in Inodes /\ l.port = Drive0
     /\ \/ s \in SectorsOf(l.by.file)
        \/ l.end > FileLength[l.by.file] /\ s \in FirstSectors(l.by.file, l.end)
MayWrite(c, p, s) == op[c] # None /\ op[c].w /\ op[c].port = p /\ Owns(op[c], s)
WritesStayInFiles ==
  [][\A p \in Ports, s \in Sectors :
       disk'[p][s] # disk[p][s] => \E c \in Cores : MayWrite(c, p, s)]_vars

(* The controller, which finds the address of a transfer in a table that   *)
(* all ports share, puts data only where a call that reads is waiting for  *)
(* it, within the buffer of that call: never in the buffer of a call that  *)
(* writes, nor where a call has ended.  drawBmp alone reaches behind its   *)
(* buffer, by two sectors (bmp.c:13-15).                                   *)
RoomOf(l) == l.by.room + IF stage = "draw" THEN BmpOverrun ELSE 0
TransfersStayInBuffers ==
  [][\A c \in Cores, k \in Pages :
       op'[c] = op[c] /\ memory'[c][k] # memory[c][k]
         => op[c] # None /\ ~op[c].w /\ k < RoomOf(op[c])]_vars

(* Every operation ends, unless its core waits for a drive that reported   *)
(* an error, forever and with the lock, or has spun for that lock so long  *)
(* that spinLock raised its exception.                                     *)
InDriver(c) == pc[c] # "idle" \/ op[c] # None
OperationsEnd ==
  \A c \in Cores :
    InDriver(c) ~> (~InDriver(c) \/ pc[c] = "halted" \/ WaitsForever(c))
=============================================================================
