# A TLA+ model of the seaweed kernel

seaweed is a small 64-bit x86 kernel: a custom boot loader, symmetric
multiprocessing, a preemptive scheduler for ring-0 and ring-3 tasks, a physical
and a virtual memory manager, a kernel heap, a few system calls and drivers.
This directory holds TLA+ modules of its core, TLC configurations that check
them on small instances, and proofs that TLAPS checks. Paths below are relative
to the repository.

## 1. Inventory

| Component | Source | State it keeps | Operations | Interacts with |
| --- | --- | --- | --- | --- |
| Scheduler | `kernel/sched/scheduler.[ch]`, `scheduler.asm` | `tasks[]`, `numberOfTasks`, the lock of `schedulerMain`, `cpuInfo[].currentTask` | timer tick (`schedulerMain`), `createNewTask`, `createThread`, `startTask`, `switchTask` | called by the interrupt stub on every core; writes the TSS and CR3 |
| Interrupt entry | `kernel/int/isr.asm`, `idt.[ch]` | the saved registers on a stack | save, dispatch, acknowledge, restore | calls `schedulerMain`, `syscallMain`, drivers |
| Task state segments, GDT | `kernel/int/tss.[ch]`, `gdt.[ch]` | `tss[]`, one GDT per core | `createGenericTSS`, `createNewGDT`, `setKernelStack` | read by the processor on every change of ring |
| Physical page manager | `kernel/mm/physicalPageManager.[ch]` | one bit per page, a lock | `initPMM`, `physicalPageAlloc`, `physicalPageFree` | used by everything, on all cores |
| Kernel heap | `kernel/mm/kHeap.[ch]` | one bit per 32-byte block, a table of allocations | `kmalloc`, `kfree`, `krealloc` | task table, TSS table, PCI and ACPI tables |
| Virtual memory manager | `kernel/mm/virtualPageManager.[ch]` | table of address spaces, page tables | `createNewAddressSpace`, `freeAddressSpace`, `initAddressSpace` | page manager, scheduler |
| SMP bring-up | `kernel/sched/smp.[ch]`, trampoline in `kernel/boot.asm` | mailbox at 0x500, `cpuInfoIndex`, `numberOfCores` | `initSMP` on core 0, `kernelMainSMP` on the others | APIC, HPET delay, page manager |
| Boot sequence, demo tasks | `kernel/kernelMain.c` | - | the order of initialisation, six `createNewTask` calls, the tasks' loops | everything |
| System calls, threads | `kernel/int/syscall.[ch]`, `lib/libu/syscalls.asm`, `createThread` in `scheduler.c` | a lock, one thread array per task | `syscallMain`, `createThread` | scheduler, heap, page manager |
| Console | `lib/libk/output.[ch]`, `string.c`, `lib/libu/logs.c` | cursor, locks, a static buffer | `kprintDS`, `kprintVS`, `printf` | framebuffer, serial port |
| AHCI driver | `kernel/drivers/ahci.c` | drives, command headers and tables, a lock | find the drives, `sataRW`, wait for the port | PCI, the controller, page manager |
| BFS file system | `kernel/fs/bfs.c` | the inode table read at boot, two counts | mount, look up, read, write back | AHCI driver |
| Platform | `kernel/acpi`, `kernel/int/apic.c`, `kernel/drivers/pci.c`, `kernel/sched/hpet.c` | tables of processors, interrupt controllers, devices | walk, scan, look up, route | heap, boot |
| Keyboard, VESA, BMP, font, e1000 | `kernel/drivers`, `kernel/net` | little or none | draw, read the EEPROM; the keyboard handler is never installed | console, AHCI driver |

What makes this code hard: every core runs the same interrupt handler over one
task table; the handler leaves through assembly after it has released its lock;
tasks migrate between cores; `bootMain` changes the table with interrupts on
and no lock, and can lose the core for good while it holds one; the allocators
scan bitmaps with hand-written index arithmetic; the cores come up through one
mailbox with a time-out; all disk commands of all ports go through tables that
alias each other; and what the firmware says is believed. `PROJECT.json` lists
the hazards line by line, with the properties that cover them or what is
planned.

What makes each component correct:

- scheduler: one core per task, one good copy of each task's registers, the
  right address space and kernel stack, nobody starves, tasks start once;
- allocators: no memory has two owners, none is lost, refusal only when nothing
  fits, every call returns;
- SMP bring-up: every core gets its own stack, index, TSS and GDT;
- the kernel as a whole: its locks cause no deadlock, the heap has one user at a
  time, threads are written inside their arrays, system calls return;
- memory: only RAM is handed out, a program reaches its own pages and the
  kernel's and no others;
- storage: a read or write takes effect once, on the sector and the buffer it
  names, and every operation ends; files are found, and writes stay inside them;
- platform: walks that end, stay inside their tables and list what is there;
- console: buffers not shared while in use.

## 2. Modules

| Module | What it is |
| --- | --- |
| `Scheduler` | `schedulerMain` on every core, interrupt entry and exit, `createNewTask` from `bootMain`; the refinement mapping to `RoundRobin` |
| `RoundRobin` | what the scheduler promises: new tasks first, then the longest waiting one |
| `MCScheduler` | instance of `Scheduler` for TLC |
| `SchedulerProofs` | theorems about `Scheduler`, and the proof that it implements `RoundRobin` |
| `PhysicalPages` | `physicalPageAlloc` and `physicalPageFree` on several cores |
| `PageAllocator` | what the page manager promises: first fit, atomically |
| `MCPhysicalPages` | instance for TLC |
| `PhysicalPagesProofs` | theorems about `PhysicalPages`, and the proof that it implements `PageAllocator` |
| `KernelHeap`, `MCKernelHeap` | `kmalloc`, `kfree`, `krealloc`, and the instance for TLC |
| `KernelHeapProofs` | theorems about `KernelHeap` |
| `SmpBoot`, `MCSmpBoot` | `initSMP`, the trampoline and `kernelMainSMP`, and the instance for TLC |
| `SmpBootProofs` | theorems about `SmpBoot` |
| `Kernel` | ticks, system calls, exceptions and `bootMain` over the locks and the heap they share; `createThread` |
| `MCKernel`, `KernelProofs` | its instance for TLC, and theorems about it |
| `Memory`, `MCMemory` | `initPMM` over the firmware's map, the fixed addresses of boot, address spaces; the instance |
| `MemoryProofs` | theorems about `Memory` |
| `Disk` | what the SATA driver promises: one sector copied, atomically, between call and return |
| `Ahci` | `initAHCI`, `sataRW` and the controller they drive |
| `Bfs`, `MCBfs` | extends `Ahci`: `initGFS`, look-up, read and write of files; the instance |
| `BfsProofs` | theorems about `Bfs` with `Ahci`, and the proof that they implement `Disk` |
| `Platform`, `MCPlatform` | ACPI tables, MADT, I/O APIC, PCI scan, choice of the AHCI controller; the instance |
| `PlatformProofs` | theorems about `Platform` |

How they fit together: `SmpBoot` establishes what `Scheduler` takes as its
initial state. `Kernel` uses a tick as one step and an allocation as two, which
`Scheduler` and `PhysicalPages` show them to be; `Memory` uses an allocation as
one step, first fit, which is the refinement theorem of `PhysicalPages`. `Bfs`
is composed with `Ahci` by extending it, and the composition implements `Disk`.

### Scheduler

Each core has a program counter `pc`. In `"run"` it executes a task (or, with
`live[c].owner = NoTask`, the code it booted with); the other labels are the
points of the handler between which another core can interfere:

| `pc` | Next action | Code |
| --- | --- | --- |
| `run` | `Compute`, `Tick` | the task; `isr.asm:5-9` |
| `spin` | `SpinLock` | `scheduler.c:25`, `160-167` |
| `scan` | `FindNextTask`, `NothingToRun` | `scheduler.c:27-48` |
| `save` | `SaveLastTask` | `scheduler.c:50-53` |
| `install` | `Install` | `scheduler.c:55-59`, `154-158` |
| `mark` | `MarkRunning` | `scheduler.c:61-62`, `67-68` |
| `releaseToStart`, `releaseToSwitch`, `end` | `SpinRelease` | `scheduler.c:63`, `69`, `74` |
| `start`, `switch` | `StartTask`, `SwitchTask` | `scheduler.c:64`, `70`, `scheduler.asm` |
| `return` | `Return` | `isr.asm:10-13` |

A register set is a record `[owner, val]`: whose registers they are, and a value
the owner changes by computing. `work[t]` is a history variable: the value task
t itself expects. `ContextIntact` compares the two. The scan is one step: under
the lock nobody else changes an entry that is already counted, and the count,
which the loop reads in every iteration, is taken as read at the loop's end.
`createNewTask` is four steps (find an entry, write its first fields, write the
rest, count it), because it takes no lock and ticks of other cores, or of core 0
itself, come in between. `TaskRegister` is the entry of the TSS table a core
loads: entry 0 for core 0, entry c + 1 for the others, because
`kernelMainSMP` has incremented `cpuInfoIndex` by then (`smp.c:37,44`).

The handler identifies its core by the number the trampoline put into FS
(`boot.asm:190`, `isr.asm:21`). The model takes it as the core's own number:
`SmpBoot` shows when it is, and that the processor keeps it over an `iretq` to
ring 3 is assumed (0 to 3 are null selectors).

As a round robin, a core runs the task it has chosen from the moment of the
choice (`Mapped`), and the queue is the tasks that have run and wait, the longest
`idleTime` first (`LongestFirst`): the abstract step is `FindNextTask`, the rest of
the handler stutters.

Left out: the spin bound of `spinLock` (module `Kernel` has it), an interrupt
pending at the early `sti` of `startTask` and `switchTask`, and the failing path
of `createNewTask` with a full table (six tasks, ten entries).

### PhysicalPages

Page numbers for addresses, the bitmap as a set. The lock is explicit, and the
scan and the marking take one step per page, as the loops do. `granted[c]` is a
history variable: the blocks core c was given and has not given back.
`physicalPageFree` takes no lock in the code; its guard (no core inside the
allocator) is a duty of its callers, of which the running kernel has none.
`Reserved` stands for what `initPMM` marks; `Memory` has the marking itself.

### KernelHeap

Block numbers for addresses, the bitmap as a set, the table as a function from
slots. One call is one step: the heap has no lock, and its callers are the boot
core before tasks run and system calls under the lock of `syscallMain`. The scan
is written as the code's loop (a recursive function over index, base and
count), and `ScanIsFirstFit` compares it with the definition of first fit in
every reachable bitmap. `live` records who holds what. `fault` is an access
outside bitmap or table: the kernel ends there. `TypeOK` permits it;
`FaultsOnlyWhenFull` says when it happens, and the run `heap_full` shows it.

### SmpBoot

The boot core goes through the MADT: allocate a stack, write it and the core's
number into the mailbox, send the startup IPI, sleep. Each started core reads
the mailbox and then takes an index in `cpuInfo`, an entry of the TSS table and
a descriptor table, one shared access per step; `cpuInfoIndex++` and `++current`
are a load and a store. Nothing but the sleep keeps two cores apart, and a sleep
of 10 ms is no synchronisation: on a slow serial line the message of `smp.c:37`
alone takes longer. So `SleepEnds` may happen at any time, and the history
variable `slack` keeps the least progress any core had made by then. The
properties say what is needed:

| Every core in time has ... | Then |
| --- | --- |
| read its stack from the mailbox | no two cores share a stack (`StacksPrivate`) |
| stored `cpuInfoIndex` | its number leads to its own `cpuInfo` (`NumbersAgree`) |
| evaluated the arguments of `createNewGDT` | its descriptors are its own and the TSS table is as `Scheduler` assumes (`SchedulerCanStart`) |

Each of the three is violated when the condition is put one step earlier.

The tables have sizes: `CpuEntries` (32 in the code) and `TableEntries` (8). No
index is compared with them. A core that would use an entry behind the end
(`GoesBeyond`) gets no further in the model, which leaves open what it would do
to other memory. `RoomSuffices` says when no core does: as long as there are no
more cores than entries of `cpuInfo`, and fewer than descriptors, however the
increments of the counters meet. The comment of `smp.c:56` promises more: 32
cores, where the ninth, or the eighth's load of the TSS behind its own, is
already outside of the tables of eight.

`SchedulerCanStart` is the interface to `Scheduler`: its `Init` and its
`TaskRegister` say of the TSS table what this module establishes. It also
records an oddity: core k > 0 fills entry k and loads entry k + 1
(`smp.c:43-44`), which holds no stack until `setKernelStack` writes there.

### Kernel

The composition that shows what the parts do to each other. A core is at one of
these points, and interrupts are on at the first two only:

| `at` | Actions | Code |
| --- | --- | --- |
| `code` | `Tick`, `SystemCall`, `ForbiddenInterrupt`, `SpuriousInterrupt`, `BootStep` | a task, or `bootMain`; `syscalls.asm` |
| `entry` | `Enter`, `Tick`, `SpuriousInterrupt` | behind the trap gate, before `cli` (`isr.asm:5-6`) |
| `call` | `NoThread`, `CreateThread`, `SpinsTooLong` | `syscall.c:6-28`, `scheduler.c:112-118` |
| `realloc` | `Realloc` | `scheduler.c:119`, `kHeap.c:85-90` |
| `pages`, `scan` | `LockPages`, `UnlockPages`, `SpinsTooLong` | the two calls of `physicalPageAlloc`, `scheduler.c:132,138` |
| `write` | `Write` | `scheduler.c:122-128`, `143` |
| `release` | `Return` | `syscall.c:30`, `isr.asm:11-13` |
| `halted` | none | `isrHandlerMain` after an exception, `idt.c:32-42` |

`bootMain` has a position of its own (`bootStep`, `bootAt`), because a tick
takes core 0 away from it and its context is then gone: `lost` says where it
was. It creates each task through eight calls (`BootCalls`) that share
something with the other cores. A lock knows its holder, which the code's flag
does not, so that `Abandoned` can say when nobody will release it; `spinLock`
then ends in the Deadlock exception. That its 10^8 attempts are longer than any
critical section is assumed. The table of gates is data: no gate for vector
255, which is the spurious vector of the local APIC, and one gate that programs
may use. The array of threads is its number of entries that fit, and which of
them have an entry point: a fresh array comes from a heap that is never
cleared.

### Memory

Addresses in units, a page being `PageSize` of them, so that a region can begin
inside a page. `ReadMapEntry` and `ReserveLowMemory` are the loop and the last
call of `initPMM`: remainders are dropped and holes are not counted, as there,
and a reserved region is marked wherever it lies, above the counted memory too.
`stale` are the bits that were set before: the code clears none of them.
`BootAlloc` makes the allocations of `bootMain` and `kHeapInit`; `InitVMM`
writes the kernel's page tables at their fixed address, whoever owns the pages.
`frame` is what the pages used as page tables hold: new tables are not cleared,
so it starts from anything (`StaleEntries`), and `UserPages` walks it as the
processor does. In the entry of a large page bit 12 is PAT and the bits from 13
to 20 are reserved (`LargePage`): with memory that begins one page after a
multiple of a large page, the program gets the run one page lower, which begins
with a page that is not its own, often its page directory; with other memory out
of place the access faults. A failed allocation is address 0 and is used as one.
With every entry of `pageDirectoryTables` in use the next space is written
outside of it (`CreateBeyond`), and the model stops there; `LeftWhenFull` says
that it takes as many live spaces as there are entries.

`HandsOutRam` and `SpacesIsolated` name what they need: a map whose entries are
aligned and without holes (`Regular`), allocations that succeed (`refused`), no
space of large pages freed (`freedLarge`: it frees page 0), tables that were
clean, and no bit set from the start where the boot takes its memory
(`BootInPlace`; otherwise the kernel's tables at their fixed address are in
nobody's allocation). TLC finds a counterexample when any of these is dropped.
`SpacesIsolated` says exactly which pages a program of large pages reaches: its
own, the ones shifted by one, or none (`Before`).

What is assumed about the constants: at least four entries in a table, of which
the code uses the first and two more; programs whose pages the machine could
hold (`SizesAssumption`); a map whose lengths come to no more than the bound of
the model, whatever their place; a map that covers the memory of the boot, in
which the firmware reserves nothing from the end of the low memory to the end of the
boot's allocations (`KernelTablesAssumption`). The last is what `initVMM` relies
on when it writes to 0x200000 without asking.

### Ahci, Bfs and Disk

`pc` is where a core is in the driver: `ports` (`initAHCI`), `spin`, `find`,
`header`, `table` (`sataRW` up to the command), `ready`, `stopped`, `issue`,
`wait`, `quiet` (`sendCommand`). The controller is modelled as far as the
driver relies on it: it starts and stops its list (`StartList`, `StopList`),
fetches a header and its table (`Fetch`), moves the data (`Move`), completes
(`Complete`) or fails (`Fail`), each at any time, so that reads of a register
in the driver race with it. A command table is known by its address: `sataRW`
clears the header of slot 0 and not that of its slot, so that all ports end up
with the table at address 0 (`Low`), and the single lock is what keeps commands
apart. A core that spins for the lock either gets it or, when its holder waits
for a drive that failed, comes to the 10^8th turn of `spinLock` and stops with
the Deadlock exception (`SpinsTooLong`). That a transfer which comes to its end
takes less time than that is assumed.

In `Bfs` a file is its index in the inode table, and each of `fopen`, `readIn`
and `writeBack` the loop over sectors that it is. `CountInodes` counts as
`bfs.c:45-49` does, by byte i of the i-th name; the entries behind the memory
that was read count for anything up to `Garbage`. The test of `present` in the
same line is left out: `boot.asm` writes 0 there in every entry. Without the
signature the counts stay what the disk had in their place, so any number of
entries is searched. Callers ask for any number of sectors up to `MaxCount`,
also for more than the file has: nothing in `bfs.c` compares the two. An
operation knows the file it was given and the room in its buffer (`by`), which
the code does not; the properties use them. `DrawBmp` is the one transfer of the
boot that does not go through the file system; it reads `BmpOverrun` sectors
more than its buffer has room for. `DirectRW` is any caller of `sataRW`.

`WritesStayInFiles` says that a sector changes only under a call that writes, and
is one of the file this call names or, when it asks for more than the file has,
one of those behind. `TransfersStayInBuffers` says where the data of a read may
arrive: in the buffer of a call that reads and is under way, and behind it only
for `drawBmp`.

`ImplementsDisk` maps a core's position to `idle`, `asked` and `done`: the data
moves in one step of the controller between the two.

### Platform

The boot core goes through the firmware's tables in the order of `bootMain`
(`phase`). The machine is chosen by `Init` from a set of machines, good ones and
bad ones: RSDP revisions, missing tables, MADT entries that give a wrong length
or are too many, I/O APICs in any order, PCI bridges behind bridges, buses
reached twice, a bridge to its own bus, devices that answer for several
functions. `broken` says that the code used memory as something it is not. The
recursion of `pciScanBus` is an explicit stack. `Supported`, `Present` and
`OfType` say what the machine holds without walking through it, and the
properties compare the two.

An entry of the MADT is where it begins (`at`), how long it says it is, and its
type. The entries lie one behind the other from offset 0 on, but nothing makes
what they say of their size agree with that (`WellFormed`), and the walk goes by
what they say. `ioapicRead` selects no register, so what `getMaxGSIs` returns is
not the number of lines: of each I/O APIC, `answers` is the set of values that
may be read there, a different one each time. Whether it has a line (`Covers`)
depends on them. `FindsIOAPIC` says that the search may end at an entry,
`MissesIOAPIC` that it may pass all of them; then the entry behind the last is
used, which nobody wrote, and that is `broken`. `Supported` asks for I/O APICs
that cover every line that is masked or routed, whatever is read from them
(`LinesCovered`); for instance one whose answers are at least 15. Nothing is said
of which I/O APIC a line is routed through.
`MachinesAssumption` is all that is assumed of a machine.

## 3. Runs

| Run | Instance | What it shows |
| --- | --- | --- |
| `scheduler` | 2 cores, 4 tasks, one of them in ring 0, 2 context values | one core per task, contexts, stacks, address spaces, order; refinement of `RoundRobin` |
| `scheduler_live` | 2 cores, 4 tasks | `NoStarvation` under fairness |
| `scheduler_stacks` | 3 cores, 3 ring-3 tasks | violation: `OwnKernelStack` on core 2 |
| `scheduler_boot` | 1 core, 6 tasks | violation: `AllTasksCreated` |
| `pages` | 2 cores, 7 pages with a reserved one in the middle, requests of 1 to 3 | ownership, exact bitmap, refinement of `PageAllocator`, every call returns |
| `heap` | 10 blocks, 5 table entries, requests of 1 to 3 blocks | bitmap, table and holders agree; the scan is first fit; both are left only when one is full |
| `heap_full` | 4 blocks | violation: `ExhaustionIsReported` |
| `smpboot` | 3 cores, a disabled MADT entry between them, tables they just fit into, sleeps of any length | what each core gets, depending on how late the cores are; no index leaves its table |
| `kernel` | 2 cores, 3 tasks, thread arrays of 2, 4 system calls | the only deadlock is the one `bootMain` leaves behind; when the heap has two users; threads inside arrays; calls return |
| `memory` | pages of 2 units, page tables of 4 entries, 4 memory maps, 2 address spaces, 1 release | what of the firmware's map is handed out, what a program can reach, when the table of spaces is left |
| `bfs` | 2 cores, 3 ports with a CD drive on the middle one, 2 slots, 3 files, of which the first is empty and begins where the second does, calls for a sector, drives that may fail | commands do not mix, files are found, where writes and transfers go; refinement of `Disk`; operations end, under fairness |
| `platform` | 486 machines: 6 roots, 9 MADTs with I/O APICs of every kind of answer, 9 PCI topologies | the kernel's tables are the machine's, and only an unsupported machine makes it leave them |

`TypeOK` is checked where it holds more than types: the scan of `pages`, the
bitmap of `heap`, the counters of `scheduler`. `Platform` has none; in the other
modules it is proved
(section 4) and has no run of its own.

Bounds. Four tasks on two cores give two running tasks, one that waits and one
that was never started, so that every choice of the scan and every migration
happens; two values of a context are enough to tell a stale copy from a fresh
one; the proofs remove the bounds for most properties. Seven pages with a hole
let every length of run occur, at both ends of memory, and let memory run out.
Two cores that are started one after the other show every way in which a late
core meets the next one; a third meets one neighbour at a time in the same ways,
and takes the state space from a hundred thousand to tens of millions of states.
Ten blocks hold the allocation of `initVMM` and three more of mixed sizes, with
gaps in all places.

In `kernel`, thread arrays of two entries make the array overflow on the second
call, as the tenth does in the code, and four calls (`MaxCalls`) take a task
through growth and past it while another call runs; the three tasks leave one
to create when the first two are calling. `KernelProofs` removes these bounds
from the invariants. In `memory`, a kernel table, a user table and their
neighbour need four entries; two spaces and one release (`MaxFrees`) are the
least with a page of the old space in the new one, and one of the maps is too
small for two spaces, so that every allocation of a space fails in some
behaviour. A set bit inside the boot's allocations, and one in the last pages,
stand for the bits nobody cleared.

In `bfs`, the ports on both sides of one that is no drive make the index of a
drive differ from that of its port, and two slots are a used one and a free one.
The third of the inodes has a name too short to count. The first has no sector:
a call for one (`MaxCount`) asks for more than it has, and reaches into the
second file, which another core may be using. `drawBmp` reads three sectors into
a buffer of one. That files of the run have one sector and calls ask for one
keeps it small enough for `OperationsEnd`; `BfsProofs` has any number of both.

In `platform`, tables of three entries are filled exactly, and by one too many,
I/O APICs lie in either order, side by side, with a gap, and one over the other,
and read as too few lines always, sometimes and never; `PlatformProofs` removes
these bounds. Nothing else is bounded: `idleTime` is kept finite by the code
itself (`BoundedWait`).

Fairness. `Tick` of `Scheduler` is weakly fair because the local APIC timer is
periodic (`apic.c:89-103`). Handlers, allocators and the driver are
straight-line code or loops that end, hence weak fairness, also for `BootStep`
and `InitGFS`. Taking a lock is strongly fair: a core that spins tests the lock
all the time, and the others leave it free for a timer period, or between two
calls. The hardware does not promise this for `xchg`, but a core that misses
the lock for a hundred million attempts raises an exception instead
(`scheduler.c:163`). A port of the controller works through its commands (weak
fairness of `Controller`), but an error (`Fail`) may always come instead; a core
that spins behind one comes to the end of its attempts (weak fairness of
`SpinsTooLong`). Tasks
that compute, calls, interrupts and the asking for pages have no fairness.

Deadlock is checked everywhere but in `heap`, where a fault halts
the kernel, in `smpboot`, `memory` and `platform`, where the boot ends or the
bound of the model is reached, in `kernel`, where exceptions halt cores for
good, and in `bfs`, where a drive that fails during the boot stops the boot
core.

### Where the code does not do what it says

1. `setKernelStack` (`scheduler.c:154-158`) indexes the TSS table twice. Cores 0
   and 1 are served by accident: core 0 writes and uses entry 0, core 1 writes
   entries 1 and 2 and uses entry 2. Core 2 writes 2 and 4, and uses 3.
2. The tick that preempts `bootMain` discards it (`scheduler.c:50`).
3. `kmalloc` on a heap with no free block reads its bitmap at index -1 rather
   than reporting that it is out of pages (`kHeap.c:40`, `60`).

These three are runs that expect a violation. The models have the following as
the code has it, and the properties state what it leaves true:

4. No I/O APIC for a line is not noticed: the return of ERROR is inside the loop,
   where its condition is false (`apic.c:47`), and the callers go on with the
   entry behind the last one of an array that nobody cleared. Which lines an I/O
   APIC has is read beside the register that says it (`apic.c:26-29`, for "Read
   register 1" in line 37). So `OnlyBadFirmwareBreaks` has to except machines whose
   lines are not all covered by what may be read.
5. `smp.c:56` has room for 32 cores and says so; `gdt.c:10` and `tss.c:9` have room
   for 8, the eighth core loads the entry behind (`smp.c:44`), and `addNewTSS` gets
   no more room from `krealloc`, to which it passes the bytes of eight entries
   (`tss.c:25`, `kHeap.c:86-87`): with eight cores or more `RoomSuffices` says
   nothing.
6. `bootMain` can be lost while it holds the lock of `physicalPageAlloc`; every
   later allocation then spins, and the system calls behind it stop with the
   Deadlock exception (`DeadlockNeedsLostBoot`, `SystemCallsReturn`).
7. No gate exists for vector 255 (`idt.c:301`), the spurious vector
   (`apic.c:134`, `smp.c:32`): such an interrupt stops its core.
8. `createThread` passes a number of entries to `krealloc`, which takes bytes and
   adds the blocks, not the bytes, of the old array: 68 + 20 bytes remain for
   entries larger than that (`scheduler.c:119`, `kHeap.c:86-87`). The search for
   a free entry takes one that is in use (`scheduler.c:124`).
9. The page tables of the kernel at 0x200000 lie in the pages of the heap, which
   begins at 0x124000 and is one megabyte long (`virtualPageManager.c:91`,
   `kHeap.c:21`): allocations that far into the heap would overwrite them.
10. `freeAddressSpace` gives back no data page, and gives back page 0 for a space of
    large pages (`virtualPageManager.c:68-75`). Tables are not cleared when they
    are allocated (`29-52`).
11. Large pages are not aligned (`virtualPageManager.c:58`): after tables that end
    at a multiple of 2 MB the program is given the page before its memory, its own
    page directory, since bit 12 of the entry is PAT; elsewhere its accesses fault.
12. `findFirstFreeSlot` looks at 1000 entries of a table of 100, and its -1 is used
    as an index (`virtualPageManager.c:27`, `87-88`, `124-131`).
13. The bitmap of pages is not cleared, as the memory is not counted yet
    (`physicalPageManager.c:18`), and reserved regions above the counted memory are
    marked behind its bits (`65-69`).
14. `findCMD` answers 0 when no slot is free (`ahci.c:199`), and `sataRW` clears
    the header of slot 0 whichever slot it uses (`ahci.c:133`).
15. `initGFS` takes 28 bytes for an inode and the compiler 29, and looks at byte i
    of the i-th name (`bfs.c:37`, `46`). Without the signature it leaves the counts
    as the disk has them (`bfs.c:29-32`), and look-up uses them.
16. `writeBack` writes as many sectors as it is told, past the file's end into the
    files behind (`bfs.c:78`).
17. `drawBmp` reads 0x300 * 8 + 2 sectors into 0x300 pages: two sectors go behind its
    buffer (`bmp.c:13-15`).
18. The results of `findSDT` are used without a test (`hpet.c:14`, `madt.c`), and
    `initAHCI` goes on with a device it never set when there is no controller
    (`ahci.c:29`, `57`).
19. The new stack pointer is an output of the `asm` that should load it
    (`kernelMain.c:63`, `smp.c:41`): what rsp becomes is left to the compiler. The
    models take the stack the code asks for.

## 4. Proofs

`SchedulerProofs` proves, for any number of cores, tasks and context values:
`TypeOK`, `LockInv`, `OneCorePerTask`, `ContextIntact`, `OwnAddressSpace`,
`StartOrder`, `Lifecycle`, and for at most two cores `OwnKernelStack` (`LockInv`
and `Lifecycle` have no run of their own). The assumptions are those of the
module: at least one core, not more tasks than table entries, at least one
context value.

The inductive invariant comes in layers, each proved with the ones below:

- `TypeInv`: types, and what the labels say of the locals (`nextTask` is a task
  while the handler has chosen one, `bootIndex` is the entry being filled);
- `LockInv`: the lock is held exactly by the core in the critical section, so
  every step of the handler knows that no other core is in it;
- `TaskInv`: what the entries of the table look like, that the chosen task is
  not running anywhere, and `OneCorePerTask`. `OneCorePerTask` alone is not
  inductive: `Install` needs to know that the choice made two steps earlier is
  still available;
- `ContextInv`: where the good copy of a context is, with the extra cases of the
  steps after the lock is released and before the registers are loaded;
- `SpaceInv`, `TssInv`, `OrderInv`: CR3, the TSS entries and the order of
  creation.

Two more results rest on these. `StackShared`, for at most two cores:
`TrapInv` says which stack a core is on at each label, the one of the task it
came from (`HomeStack`) or, once it may have chosen another, the one it is
`Leaving`. `BoundedWait`, for any number of cores and tasks: `WaitInv` bounds the
`idleTime` of a task by the number of tasks that would be chosen after it
(`Behind`), and a tick that passes the task over moves one more behind it. Between
the choice and the write of `status` the chosen task is in neither place
(`Picked`), which the invariant has to say as well.

`SchedulingIsRoundRobin`, for any number of cores and tasks: `Scheduler`
implements `RoundRobin`. What it needs beyond the invariants above is `QueueInv`,
that no two tasks in the queue have waited equally long: they were switched off
one after the other under the lock, and from then on each tick of any core adds
one to all of them. So counting the tasks that have waited at least as long
(`Position`) numbers the queue from 1 without gaps (`Positions`, a surjection onto
an interval of the same size), and a sequence with this order is the queue
(`QueueIs`). `QueueTail` and `QueueAppend` say what becomes of it when the task
with the longest wait leaves and another comes in behind all others, while the
rest only grow older by the same amount (`ChoiceTimes`). `FindNextTask` is then
`StartNew` (`ChoiceStarts`) or `Rotate` (`ChoiceRotates`), the last step of
`createNewTask` is `Create` (`PublishCreates`), and the other steps stutter
(`Unseen`, `NotSeen`).

`PhysicalPagesProofs` proves `TypeOK`, `NoDoubleAllocation`, `BitmapExact` and
`FailsOnlyWhenFull` for any set of cores, any memory size, reserved pages and
request sizes. Its invariant `ScanStateInv` says what the scan knows at every
step: the pages from `base` to `i` are free, and no base below is long enough
(`Blocked`). `OwnInv` adds that the pages being marked belong to nobody.

It also proves that `PhysicalPages` implements `PageAllocator`
(`AllocationIsAtomicFirstFit`), from these invariants and one more, `FirstFitInv`: while a core marks its run, no lower run is long enough.
It is stated over the owners of pages and not over the bitmap, because the
bitmap is changing page by page while the abstract step, the return, is still
to come. Every step of the scan maps to a stutter, `Call` to `Ask`, the two
returns to granting and refusing.

`KernelProofs` proves, for any number of cores, tasks, calls and sizes of thread
arrays, `TypeOK`, `DeadlockNeedsLostBoot`, `HeapAlone` and `ThreadsInsideArray`.
The layers:

- `TypeInv`: types, and what the positions say: `bootMain` is inside a call only
  while there is a task to create (`BootInv`), no task has two cores (`TaskInv`),
  a core behind the gate has a task and its request names an existing one
  (`CallInv`);
- `LockInv`: who holds each lock, including the case that its holder was lost or
  halted. `DeadlockNeedsLostBoot` is part of it, since neither is inductive
  alone: the syscall lock stays with a halted core only after the exception, and
  the exception needs the page lock to have been abandoned;
- `ArrayInv`: `realloc` is only reached with a full array, and an array that was
  cut short has a task with that many threads. It needs the lock: the count is
  incremented in one step and used in later ones.

`KernelHeapProofs` proves all six invariants of `KernelHeap`, for any size of
heap and table and any requests: `TypeOK`, `LiveDisjoint`, `BitmapMatchesLive`,
`TableMatchesLive`, `FaultsOnlyWhenFull` and `ScanIsFirstFit`. All but the last follow from `HeapOK`,
which is about the three structures and not about the calls, so that `krealloc`
can use it between its `kfree` and its `kmalloc`; for `FaultsOnlyWhenFull`,
`FaultInv` says what was full at the fault, and the table, which lists what is
held once each, has as many entries in use as there are holders. For the last, `Seen` is the
loop invariant of the scan: the blocks from `base` to `index` are free and no
base below is long enough. That the recursive function exists, and that the
invariant holds at every index, is shown by the least index where it would not
(`LeastOfNat`, from the well-foundedness of `<`).

`SmpBootProofs` proves `TypeOK`, `RoomSuffices`, `StacksPrivate`,
`NumbersAgree` and `SchedulerCanStart` for any number of cores, tables of any
size and sleeps of any length:

- `TablesInv`: a core has started only if the loop of `initSMP` has passed its
  entry (`OrderInv`), and the counters are at most one more than the number of
  cores that came past the label where they are stored (`CountInv`). Fewer cores
  have come past a label than have been started (`StartedCount`), so every index
  stays below `numberOfCores` (`IndexBounds`, `ArgsInv`), and with it
  `RoomSuffices`. It holds however late the cores are;
- `StackInv`: the stacks that `kernelMainSMP` allocates are private in any case;
  under the condition of `StacksPrivate`, only the core just started can have the
  stack that is in the mailbox;
- `NumberInv`, `DescriptorInv`: under the other two conditions, whatever a core
  took from `cpuInfoIndex` or `current` is its rank among the enabled cores, and
  the counters stand at the rank of the core whose turn it is (`Turn`).

`BfsProofs` proves, for any number of cores, ports, slots, sectors and files,
`TypeOK`, `TableUnused`, `WritesStayInFiles`, `TransfersStayInBuffers`,
`LookupComplete`, and that `Bfs` with `Ahci` implements `Disk`
(`RequestsAreAtomic`). The layers:

- `ControlInv`: which core is where in the driver, who holds its lock, and that
  the loops that write ask only for sectors their call may write (`LoopOK`);
- `CommandInv`, `PortInv`: the command tables and headers while a command is
  outstanding, and that no other port has one. All ports share the table at
  address 0, so this and `TableUnused` rest on the lock alone;
- `RoomInv`: a loop ends with its buffer, but for the one of `drawBmp`; that the
  controller's data arrives where the waiting call asked for it is `CommandInv`
  again;
- `BufferInv`, `MountInv`: once `initGFS` has read the first sector of the inode
  table, the first page of its buffer is that sector, nothing else writes either,
  and so the count it ends with is at least the number of names that are long
  enough.

The proof of the refinement goes by actions: `Move` is the one step that changes
`disk` or a buffer, and `MoveEffect` says by how much; the other steps of the
controller stutter; the returns of `sataRW` complete the request.

`MemoryProofs` proves, for any memory map, any sizes of pages, tables and
programs, any bits set before, and any calls, `TypeOK`, `HandsOutRam`,
`SpacesIsolated`, `LeftWhenFull` and one more, `SpacesDisjoint`: the pages of live
spaces are distinct. The layers:

- `TypeInv`: `total` is the sum of the lengths seen so far (`MapInv`), and the boot
  goes on only after the whole map was seen (`OrderInv`). It includes allocations
  that failed;
- `SpaceInv`: the pages of each slot, tables and data, are marked, distinct within
  the slot and not in another (`SlotOK`), and the low memory, page 0 in
  particular, stays marked;
- `RamInv`: for a regular map, a page whose bit is clear is RAM. It counts along
  the map (`Counted`), and without holes the count is the address;
- `FillInv`: until `InitVMM`, if no bit was set there before (`BootInPlace`), everything up to the boot's last allocation is marked
  and nothing between there and the end of its next ones, so that first fit
  continues there and the boot's own allocations cover the fixed page of the
  kernel's tables. Otherwise a space could be given that page;
- `TablesInv`: clear bits have clean pages, the kernel's table is as `InitVMM` wrote
  it, and each space's tables have the `Shape` its size asks for; what the processor
  makes of a run of large pages is a matter of the remainder of its first page;
- `UsedInv`: a slot with a first table belongs to a live space, also after failures.

`SpacesDisjoint` and `SpacesIsolated` are proved under the conditions that the
properties name, among them that no allocation failed. The lemmas about sums,
chains of allocations and first fit (`SumsAre`, `ChainExists`, `FirstFitIs`) show
that the functions the module defines by recursion exist and give what they say
at each argument that is used, again by least counterexample.

`PlatformProofs` proves both invariants of `Platform`, for any machines that
`MachinesAssumption` describes, any sizes of the tables and any depth of the
stack: `OnlyBadFirmwareBreaks` and `FirmwareUnderstood`. A walk that has come some
way is described by what it has passed, and so no induction over a table or a
tree is needed, only one over steps:

- `RootInv`: what `rsdpInit` left in its two pointers;
- `MadtInv`: at a well-formed table the offset `i` is where some entry k begins, or
  the end (`StartOf`), and each list is the entries of its type before k, in order
  (`ReadUpTo`). A list that is full at a step is smaller than the set of the
  entries of its type (`WalkBreaks`);
- for the I/O APICs, that the list is `OfType(1)` once the walk is over, so that on a
  machine with `LinesCovered` no search can pass all of them (`CoveredFound`,
  `SupportedRoutes`);
- `ScanInv`: there is a set of buses entered so far (`Entered`). The calls under way
  are for different buses of that set; every bus but 0 is in it because of a
  bridge that was passed, and the list has the functions that were passed, once
  each. A place is `Passed` if its bus was entered and no call for that bus has
  still to come to it, so a step of the loops passes one place and no other
  (`AfterPasses`), while entering a bus (`PushPasses`) and leaving it (`PopPasses`)
  pass none. In a tree of bridges a bus is entered once (`NewBus`), so the stack is
  never deeper than there are buses (`BridgeBreaks`); and when it is empty, the set
  is closed under bridges, hence all of `Buses` (`ScanComplete`);
- `ChosenInv`: what `initAHCI` chose.

`OnlyBadFirmwareBreaks` is proved together with these: it is about every step that
may break, and each of them needs another of the invariants.

These proofs use `LeastOfNat` in place of the induction theorems of the library,
which take an operator as a parameter and which the provers cannot instantiate.

In `Memory`, updates of a page table that may name the same entry twice are
nested definitions and not one EXCEPT with several points: tlapm 1.4.5 reads the
`@` of a later point as the value before the earlier ones, TLC as the value after
them.

Only model-checked is liveness (`NoStarvation`, `CallsReturn`, `SystemCallsReturn`,
`OperationsEnd`): fairness and ENABLED are out of the prover's reach. Every
invariant, action property and refinement of the runs is also a theorem, some for
the number of cores or under the conditions said above.

## 5. Plan

In this order:

1. `SwitchWindow`: the early `sti` of `scheduler.asm` with a pending interrupt and
   the words of the table entry as a stack.
2. `Console`: cursor, scroll, the static buffer of `itob` under three locks.

Not modelled, and not planned: pixels and fonts, the real-mode loader, register
and descriptor formats, the e1000 probe, the keyboard handler (nothing installs
it), what memory behind the end of a table does to the kernel (the models stop
there and say when it happens), and what the processor does with the null selectors in FS from core 4
on. They keep no state that a property could relate to anything, or leave the
behaviour to the processor.
