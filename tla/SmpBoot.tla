------------------------------- MODULE SmpBoot -------------------------------
(***************************************************************************)
(* How seaweed starts its cores: initSMP on the boot core                  *)
(* (kernel/sched/smp.c), which hands every other core its arguments in one *)
(* mailbox and gives it ten milliseconds; the end of the trampoline, which *)
(* reads them (kernel/boot.asm); and kernelMainSMP, where the new core     *)
(* takes an entry of each shared table without a lock.                     *)
(*                                                                         *)
(* ksleep returns whenever it likes here: a core may be slower than the    *)
(* sleep.  slack records the least any core had done when its time was up, *)
(* and the properties say how much that has to be.                         *)
(*                                                                         *)
(* Cores are named by their MADT entry, the boot core by entry 0.  A stack *)
(* is named by the number of its physicalPageAlloc call, which succeeds.   *)
(***************************************************************************)
EXTENDS Integers, FiniteSets, Sequences

CONSTANTS Entries,       \* local APICs in the MADT
          Enabled,       \* those with flags = 1, the boot core's left out
          CpuEntries,    \* entries initSMP allocates for cpuInfo; 32
          TableEntries   \* entries initGDT and initTSS allocate; 8

ASSUME EntriesAssumption == /\ Entries \in Nat \ {0}
                            /\ Enabled \subseteq 1 .. Entries - 1

ASSUME TableAssumption == /\ CpuEntries \in Nat \ {0}
                          /\ TableEntries \in Nat \ {0}

VARIABLES
  i,              \* the loop variable of initSMP
  boot,           \* where initSMP is
  mailbox,        \* arguments[0] and arguments[4]
  numberOfCores,
  cpuInfoIndex,
  cpuInfo,        \* by index
  current,        \* the static counter of addNewTSS
  tss,            \* the stack in rsp0, by index
  gdt,            \* the TSS a descriptor table points to, by index
  stacks,         \* how many stacks have been allocated
  pc,             \* where each of the other cores is
  frame,          \* the stack a core came with, which keeps its locals
  stack,          \* the local of kernelMainSMP
  fs,             \* the core number that interrupt entry will push
  counter,        \* a shared counter between its load and its store
  args,           \* the arguments of createNewGDT
  tr,             \* the TSS the task register points to
  slack           \* the least progress of a core when its time was up

bootVars == <<i, boot, mailbox, numberOfCores, slack>>
tables == <<cpuInfoIndex, cpuInfo, current, tss, gdt, stacks>>
coreVars == <<pc, frame, stack, fs, counter, args, tr>>
vars == <<bootVars, tables, coreVars>>

Cores == {0} \cup Enabled
Slots == 0 .. TableEntries - 1
CpuSlots == 0 .. CpuEntries - 1
None  == -1   \* memory nobody wrote

(* The way of a core through the trampoline and kernelMainSMP. *)
Path == <<"off", "stack", "number", "coreID", "currentTask", "load", "store",
          "alloc", "tssLoad", "tssStore", "tssWrite", "tssArg", "coreArg",
          "gdtWrite", "ltr", "ready">>
Stage(label) == CHOOSE k \in 1 .. Len(Path) : Path[k] = label

Init ==
  /\ i = 1
  /\ boot = "stack"
  /\ mailbox = [stack |-> None, core |-> None]
  /\ numberOfCores = 1
  /\ cpuInfoIndex = 1
  /\ cpuInfo = [k \in CpuSlots |->
                  [coreID |-> None, idle |-> k = 0]]
  /\ current = 1
  /\ tss = [k \in Slots |-> IF k = 0 THEN 0 ELSE None]
  /\ gdt = [k \in Slots |-> IF k = 0 THEN 0 ELSE None]
  /\ stacks = 1
  /\ pc = [c \in Enabled |-> "off"]
  /\ frame = [c \in Cores |-> IF c = 0 THEN 0 ELSE None]
  /\ stack = [c \in Cores |-> IF c = 0 THEN 0 ELSE None]
  /\ fs = [c \in Cores |-> 0]
  /\ counter = [c \in Enabled |-> 0]
  /\ args = [c \in Enabled |-> [core |-> None, tss |-> None]]
  /\ tr = [c \in Cores |-> IF c = 0 THEN 0 ELSE None]
  /\ slack = Len(Path)

-----------------------------------------------------------------------------
(* initSMP, for each entry of the MADT. *)

Looping(label) == boot = label /\ i < Entries

SkipDisabled ==
  /\ Looping("stack")
  /\ i \notin Enabled
  /\ i' = i + 1
  /\ UNCHANGED <<boot, mailbox, numberOfCores, slack, tables, coreVars>>

(* Fault: one stack is allocated for all cores. *)
PrepSameStack ==
  /\ Looping("stack")
  /\ i \in Enabled
  /\ IF mailbox.stack = None
     THEN /\ mailbox' = [mailbox EXCEPT !.stack = stacks]
          /\ stacks' = stacks + 1
     ELSE UNCHANGED <<mailbox, stacks>>
  /\ boot' = "number"
  /\ UNCHANGED <<i, numberOfCores, slack, cpuInfoIndex, cpuInfo, current, tss,
                 gdt, coreVars>>

(* prepTrampoline: a stack, ... *)
PrepStack ==
  /\ Looping("stack")
  /\ i \in Enabled
  /\ mailbox' = [mailbox EXCEPT !.stack = stacks]
  /\ stacks' = stacks + 1
  /\ boot' = "number"
  /\ UNCHANGED <<i, numberOfCores, slack, cpuInfoIndex, cpuInfo, current, tss,
                 gdt, coreVars>>

(* Fault: the counter stays. *)
PrepSameNumber ==
  /\ Looping("number")
  /\ mailbox' = [mailbox EXCEPT !.core = numberOfCores]
  /\ boot' = "ipi"
  /\ UNCHANGED <<i, numberOfCores, slack, tables, coreVars>>

(* ... and a number. *)
PrepNumber ==
  /\ Looping("number")
  /\ mailbox' = [mailbox EXCEPT !.core = numberOfCores]
  /\ numberOfCores' = numberOfCores + 1
  /\ boot' = "ipi"
  /\ UNCHANGED <<i, slack, tables, coreVars>>

SendIPI ==
  /\ Looping("ipi")
  /\ pc' = [pc EXCEPT ![i] = "stack"]
  /\ boot' = "sleep"
  /\ UNCHANGED <<i, mailbox, numberOfCores, slack, tables, frame, stack, fs,
                 counter, args, tr>>

(* ksleep(10) returns. *)
SleepEnds ==
  /\ Looping("sleep")
  /\ slack' = IF Stage(pc[i]) < slack THEN Stage(pc[i]) ELSE slack
  /\ i' = i + 1
  /\ boot' = "stack"
  /\ UNCHANGED <<mailbox, numberOfCores, tables, coreVars>>

InitSMP == SkipDisabled \/ PrepStack \/ PrepNumber \/ SendIPI \/ SleepEnds

-----------------------------------------------------------------------------
(* smpLongModeCode and kernelMainSMP on core c. *)

Step(c, from, to) == pc[c] = from /\ pc' = [pc EXCEPT ![c] = to]

ReadStack(c) ==
  /\ Step(c, "stack", "number")
  /\ frame' = [frame EXCEPT ![c] = mailbox.stack]
  /\ UNCHANGED <<bootVars, tables, stack, fs, counter, args, tr>>

ReadNumber(c) ==
  /\ Step(c, "number", "coreID")
  /\ fs' = [fs EXCEPT ![c] = mailbox.core]
  /\ UNCHANGED <<bootVars, tables, frame, stack, counter, args, tr>>

WriteCoreID(c) ==
  /\ Step(c, "coreID", "currentTask")
  /\ cpuInfoIndex \in CpuSlots
  /\ cpuInfo' = [cpuInfo EXCEPT ![cpuInfoIndex].coreID = c]
  /\ UNCHANGED <<bootVars, cpuInfoIndex, current, tss, gdt, stacks, frame, stack,
                 fs, counter, args, tr>>

WriteCurrentTask(c) ==
  /\ Step(c, "currentTask", "load")
  /\ cpuInfoIndex \in CpuSlots
  /\ cpuInfo' = [cpuInfo EXCEPT ![cpuInfoIndex].idle = TRUE]
  /\ UNCHANGED <<bootVars, cpuInfoIndex, current, tss, gdt, stacks, frame, stack,
                 fs, counter, args, tr>>

(* cpuInfoIndex++ is a load and a store. *)
LoadIndex(c) ==
  /\ Step(c, "load", "store")
  /\ counter' = [counter EXCEPT ![c] = cpuInfoIndex]
  /\ UNCHANGED <<bootVars, tables, frame, stack, fs, args, tr>>

(* Fault: the second message counts as well. *)
StoreIndexTwice(c) ==
  /\ Step(c, "store", "alloc")
  /\ cpuInfoIndex' = counter[c] + 2
  /\ UNCHANGED <<bootVars, cpuInfo, current, tss, gdt, stacks, frame, stack, fs,
                 counter, args, tr>>

StoreIndex(c) ==
  /\ Step(c, "store", "alloc")
  /\ cpuInfoIndex' = counter[c] + 1
  /\ UNCHANGED <<bootVars, cpuInfo, current, tss, gdt, stacks, frame, stack, fs,
                 counter, args, tr>>

(* The frame pointer, and with it the locals, stay on the first stack.     *)
AllocStack(c) ==
  /\ Step(c, "alloc", "tssLoad")
  /\ stack' = [stack EXCEPT ![c] = stacks]
  /\ stacks' = stacks + 1
  /\ UNCHANGED <<bootVars, cpuInfoIndex, cpuInfo, current, tss, gdt, frame, fs,
                 counter, args, tr>>

(* addNewTSS: ++current is a load and a store as well. *)
LoadCurrent(c) ==
  /\ Step(c, "tssLoad", "tssStore")
  /\ counter' = [counter EXCEPT ![c] = current]
  /\ UNCHANGED <<bootVars, tables, frame, stack, fs, args, tr>>

StoreCurrent(c) ==
  /\ Step(c, "tssStore", "tssWrite")
  /\ current' = counter[c] + 1
  /\ UNCHANGED <<bootVars, cpuInfoIndex, cpuInfo, tss, gdt, stacks, frame, stack,
                 fs, counter, args, tr>>

WriteTSS(c) ==
  /\ Step(c, "tssWrite", "tssArg")
  /\ current - 1 \in Slots
  /\ tss' = [tss EXCEPT ![current - 1] = stack[c]]
  /\ UNCHANGED <<bootVars, cpuInfoIndex, cpuInfo, current, gdt, stacks, frame,
                 stack, fs, counter, args, tr>>

(* createNewGDT(cpuInfoIndex - 1, grabTSS(cpuInfoIndex)), last argument    *)
(* first.                                                                  *)
EvalTSS(c) ==
  /\ Step(c, "tssArg", "coreArg")
  /\ args' = [args EXCEPT ![c].tss = cpuInfoIndex]
  /\ UNCHANGED <<bootVars, tables, frame, stack, fs, counter, tr>>

(* Fault: the index is not taken back by one. *)
EvalNextCore(c) ==
  /\ Step(c, "coreArg", "gdtWrite")
  /\ args' = [args EXCEPT ![c].core = cpuInfoIndex]
  /\ UNCHANGED <<bootVars, tables, frame, stack, fs, counter, tr>>

EvalCore(c) ==
  /\ Step(c, "coreArg", "gdtWrite")
  /\ args' = [args EXCEPT ![c].core = cpuInfoIndex - 1]
  /\ UNCHANGED <<bootVars, tables, frame, stack, fs, counter, tr>>

WriteGDT(c) ==
  /\ Step(c, "gdtWrite", "ltr")
  /\ args[c].core \in Slots
  /\ gdt' = [gdt EXCEPT ![args[c].core] = args[c].tss]
  /\ UNCHANGED <<bootVars, cpuInfoIndex, cpuInfo, current, tss, stacks, frame,
                 stack, fs, counter, args, tr>>

(* lgdt of that table, then ltr, which reads the descriptor. *)
Lgdt(c) ==
  /\ Step(c, "ltr", "ready")
  /\ gdt[args[c].core] \in Slots
  /\ tr' = [tr EXCEPT ![c] = gdt[args[c].core]]
  /\ UNCHANGED <<bootVars, tables, frame, stack, fs, counter, args>>

KernelMainSMP(c) ==
  \/ ReadStack(c) \/ ReadNumber(c)
  \/ WriteCoreID(c) \/ WriteCurrentTask(c) \/ LoadIndex(c) \/ StoreIndex(c)
  \/ AllocStack(c) \/ LoadCurrent(c) \/ StoreCurrent(c) \/ WriteTSS(c)
  \/ EvalTSS(c) \/ EvalCore(c) \/ WriteGDT(c) \/ Lgdt(c)

(* Nothing compares an index with the size of its table; addNewTSS asks    *)
(* krealloc for more, and what it gets has no room for another entry.      *)
(* A core that would use other memory gets no further here: what becomes   *)
(* of the kernel after that is left open.                                  *)
BeyondCpuInfo(c) == pc[c] \in {"coreID", "currentTask"} /\ cpuInfoIndex \notin CpuSlots
BeyondTSS(c) == \/ pc[c] = "tssWrite" /\ current - 1 \notin Slots
                \/ pc[c] = "ltr" /\ gdt[args[c].core] \notin Slots
BeyondGDT(c) == pc[c] = "gdtWrite" /\ args[c].core \notin Slots
GoesBeyond(c) == BeyondCpuInfo(c) \/ BeyondTSS(c) \/ BeyondGDT(c)

Next == InitSMP \/ \E c \in Enabled : KernelMainSMP(c)

Spec == Init /\ [][Next]_vars

-----------------------------------------------------------------------------
(* Properties. *)

(* The number that belongs to core c: its rank among the enabled ones.     *)
Rank(c) == Cardinality({d \in Cores : d < c})

(* How far a core has come. *)
Beyond(c, label) == c = 0 \/ Stage(pc[c]) > Stage(label)
InTime(label) == slack > Stage(label)

(* Every variable has its type; the two counters stay within the number of *)
(* cores, and so does every index made from them.                          *)
TypeOK ==
  /\ i \in 1 .. Entries
  /\ boot \in {"stack", "number", "ipi", "sleep"}
  /\ mailbox \in [stack : Nat \cup {None}, core : 1 .. Entries - 1 \cup {None}]
  /\ numberOfCores \in 1 .. Entries
  /\ cpuInfoIndex \in 1 .. Entries
  /\ cpuInfo \in [CpuSlots -> [coreID : Enabled \cup {None}, idle : BOOLEAN]]
  /\ current \in 1 .. Entries
  /\ tss \in [Slots -> Nat \cup {None}]
  /\ gdt \in [Slots -> 0 .. Entries \cup {None}]
  /\ stacks \in Nat
  /\ pc \in [Enabled -> {Path[k] : k \in 1 .. Len(Path)}]
  /\ frame \in [Cores -> Nat \cup {None}]
  /\ stack \in [Cores -> Nat \cup {None}]
  /\ fs \in [Cores -> 0 .. Entries - 1]
  /\ counter \in [Enabled -> 0 .. Entries - 1]
  /\ args \in [Enabled -> [core : 0 .. Entries - 1 \cup {None}, tss : 1 .. Entries \cup {None}]]
  /\ tr \in [Cores -> Slots \cup {None}]
  /\ slack \in 1 .. Len(Path)

(* As long as no more cores have been started than cpuInfo has entries,    *)
(* and fewer than the tables of descriptors have, since a core loads the   *)
(* TSS behind its own, no core goes beyond a table: lost increments and    *)
(* late cores never push an index further (smp.c:34-37, 44, tss.c:24-28).  *)
RoomSuffices ==
  numberOfCores <= CpuEntries /\ numberOfCores < TableEntries
    => \A c \in Enabled : ~GoesBeyond(c)

(* No two cores run on one stack, if every core reads the mailbox in time. *)
StacksPrivate ==
  InTime("stack") =>
    \A c, d \in Cores : c # d /\ Beyond(c, "alloc") /\ Beyond(d, "stack")
      => /\ frame[c] # frame[d]
         /\ stack[c] \notin {stack[d], frame[d]}

(* The number a core finds in fs leads to its own cpuInfo, ready for the   *)
(* scheduler, if every core takes its index in time.                       *)
NumbersAgree ==
  InTime("store") =>
    \A c \in Enabled : Beyond(c, "store") =>
      fs[c] = Rank(c) /\ cpuInfo[fs[c]] = [coreID |-> c, idle |-> TRUE]

(* If every core has its descriptors in time, none shares them, and the    *)
(* TSS table is what the scheduler starts from (Init and TaskRegister of   *)
(* module Scheduler): the stack of core k is in entry k, but core k > 0    *)
(* has loaded entry k + 1.                                                 *)
SchedulerCanStart ==
  InTime("coreArg") =>
    \A c \in Enabled : pc[c] = "ready" =>
      /\ gdt[Rank(c)] = tr[c]
      /\ tr[c] = Rank(c) + 1
      /\ tss[Rank(c)] = stack[c]

=============================================================================
