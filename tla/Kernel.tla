-------------------------------- MODULE Kernel --------------------------------
(***************************************************************************)
(* The running kernel as a whole: bootMain creating tasks on core 0 with   *)
(* interrupts on (kernelMain.c), timer ticks that move tasks between the   *)
(* cores, system calls through vector 0x69 (int/isr.asm, int/idt.c,        *)
(* int/syscall.c) that create threads (sched/scheduler.c), and the two     *)
(* locks and the heap without a lock that they share.                      *)
(*                                                                         *)
(* A tick is one step here, and may choose any task that waits: modules    *)
(* Scheduler and RoundRobin say how it chooses and that it loses nothing.  *)
(* A critical section of physicalPageAlloc is two steps: PhysicalPages     *)
(* says what happens in between.                                           *)
(***************************************************************************)
EXTENDS Integers, Sequences, FiniteSets

CONSTANTS NCores,           \* cores; 0 is the boot processor
          NTasks,           \* how many tasks bootMain creates
          ThreadsPerTable,  \* entries of a thread array; 10 in the code
          MaxCalls,         \* bound: system calls the tasks make
          Named,            \* the task indexes programs give to pthread
          Garbage,          \* which entries of a new array look used
          ProgramVectors    \* operands of the int instructions of programs

ASSUME NCoresAssumption == NCores \in Nat \ {0}
ASSUME NTasksAssumption == NTasks \in Nat \ {0}
ASSUME ThreadsAssumption == ThreadsPerTable \in Nat \ {0}
ASSUME MaxCallsAssumption == MaxCalls \in Nat
ASSUME NamedAssumption == Named \subseteq Nat
ASSUME GarbageAssumption == Garbage \subseteq SUBSET (0 .. ThreadsPerTable - 1)
ASSUME VectorsAssumption == ProgramVectors \subseteq 0 .. 255

Cores == 0 .. NCores - 1
Tasks == 0 .. NTasks - 1
Slots == 0 .. ThreadsPerTable - 1
NoTask == -1

Locks == {"syscall", "page"}
Free == -1      \* nobody holds the lock
BootMain == -2  \* bootMain holds it: its context, and not core 0, is the
                \* holder, because a tick takes the core away from it

VARIABLES
  holder,    \* the test_and_set flag of a lock, and who set it
  at,        \* where each core is
  task,      \* cpuInfo[core].currentTask
  status,    \* task_t.status
  resumeAt,  \* where the saved registers of a waiting task resume it
  request,   \* the registers of the system call each task is making
  calls,     \* how many system calls there have been
  left,      \* pages createThread on this core still has to allocate
  deadlock,  \* history: a core was stopped by the Deadlock exception
  bootStep,  \* how many of the calls of createNewTask bootMain has made
  bootAt,    \* where it is in the next one
  lost,      \* history: where bootMain was when its context was dropped
  numberOfTasks,
  numberOfThreads,  \* task_t.numberOfThreads
  capacity,  \* how many thread_t fit in the block task_t.threads points to
  threads,   \* the entries of task_t.threads with an entry point
  overrun    \* history: tasks whose thread was written outside that block

bootVars == <<bootStep, bootAt, lost, numberOfTasks>>
threadVars == <<numberOfThreads, capacity, threads, overrun>>
taskVars == <<task, status, resumeAt>>
callVars == <<request, calls, left>>
vars == <<holder, at, taskVars, callVars, deadlock, bootVars, threadVars>>

-----------------------------------------------------------------------------
(* The interrupt descriptor table and the table of handlers.               *)

SchedulerVector == 32
SyscallVector == 105     \* 0x69
SpuriousVector == 255    \* LAPIC_SINT | 0x1ff: apic.c:134, smp.c:32
SegmentNotPresent == 11
GeneralProtection == 13
Deadlock == 21           \* int 0x15 in spinLock

Gates == 0 .. 254                   \* idtInit stops before isr255
OpenToPrograms == {SyscallVector}   \* attributes 0xef; 0x8f for the others

(* What the processor makes of an int instruction of a ring-3 program. *)
Raised(v) == IF v \notin Gates THEN SegmentNotPresent
             ELSE IF v \notin OpenToPrograms THEN GeneralProtection
             ELSE v

(* What it makes of an interrupt of the local APIC. *)
Delivered(v) == IF v \in Gates THEN v ELSE SegmentNotPresent

(* isrHandlerMain prints the registers for a vector below 32 and loops     *)
(* for ever with interrupts off.                                           *)
IsException(v) == v < 32

(* Fault: a system call runs with interrupts on. *)
InterruptsAlwaysOn(c) == at[c] # "halted"

(* cli is the first instruction behind a gate, and sti the last but one:   *)
(* the gates are trap gates, so the entry itself can be interrupted.       *)
InterruptsOn(c) == at[c] \in {"code", "entry"}

-----------------------------------------------------------------------------
(* The registers of a system call: OUTPUT writes to the serial port, INPUT *)
(* and unknown numbers do nothing; CALLS with PTHREAD names a task, which  *)
(* is invalid as long as there is no such task.                            *)
NoCall == [type |-> "none", index |-> 0]
Requests == [type : {"OUTPUT"}, index : {0}]
              \cup [type : {"PTHREAD"}, index : Named]

Points == {"code", "entry", "call", "realloc", "pages", "scan",
           "write", "release", "halted"}

InHandler(c) == at[c] \notin {"code", "entry", "halted"}

Goto(c, from, to) == /\ at[c] = from
                     /\ at' = [at EXCEPT ![c] = to]

Booting == at[0] = "code" /\ task[0] = NoTask /\ lost = "no" /\ bootAt # "done"

(* The calls of bootMain for one task that share something with the other  *)
(* cores: the page for rsp (kernelMain.c:101), five in                     *)
(* createNewAddressSpace, the thread array, the kernel stack.              *)
BootCalls == <<"page", "page", "page", "page", "page", "page", "heap", "page">>

Init ==
  /\ holder = [l \in Locks |-> Free]
  /\ at = [c \in Cores |-> "code"]
  /\ task = [c \in Cores |-> NoTask]
  /\ status = [t \in Tasks |-> "absent"]
  /\ resumeAt = [t \in Tasks |-> "code"]
  /\ request = [t \in Tasks |-> NoCall]
  /\ calls = 0
  /\ left = [c \in Cores |-> 0]
  /\ deadlock = FALSE
  /\ bootStep = 0
  /\ bootAt = "between"
  /\ lost = "no"
  /\ numberOfTasks = 0
  /\ numberOfThreads = [t \in Tasks |-> 0]
  /\ capacity = [t \in Tasks |-> ThreadsPerTable]
  /\ threads = [t \in Tasks |-> {}]
  /\ overrun = {}

Acquire(l, who) == /\ holder[l] = Free
                   /\ holder' = [holder EXCEPT ![l] = who]
Release(l) == holder' = [holder EXCEPT ![l] = Free]

-----------------------------------------------------------------------------
(* bootMain on core 0, with interrupts on.                                 *)

BootLock ==
  /\ Booting /\ bootAt = "between" /\ bootStep < Len(BootCalls)
  /\ BootCalls[bootStep + 1] = "page"
  /\ Acquire("page", BootMain)
  /\ bootAt' = "holding"
  /\ UNCHANGED <<at, taskVars, callVars, deadlock, bootStep, lost, numberOfTasks,
                 threadVars>>

BootUnlock ==
  /\ Booting /\ bootAt = "holding"
  /\ Release("page")
  /\ bootAt' = "between"
  /\ bootStep' = bootStep + 1
  /\ UNCHANGED <<at, taskVars, callVars, deadlock, lost, numberOfTasks,
                 threadVars>>

BootKmalloc ==
  /\ Booting /\ bootAt = "between" /\ bootStep < Len(BootCalls)
  /\ BootCalls[bootStep + 1] = "heap"
  /\ bootAt' = "inHeap"
  /\ UNCHANGED <<holder, at, taskVars, callVars, deadlock, bootStep, lost,
                 numberOfTasks, threadVars>>

(* kHeapInit clears the tables of the heap but not the heap itself, so an  *)
(* array from kmalloc holds anything.                                      *)
NewArray(t) ==
  \E garbage \in Garbage : threads' = [threads EXCEPT ![t] = garbage]

BootKmallocReturns ==
  /\ Booting /\ bootAt = "inHeap"
  /\ NewArray(numberOfTasks)
  /\ bootAt' = "between"
  /\ bootStep' = bootStep + 1
  /\ UNCHANGED <<holder, at, taskVars, callVars, deadlock, lost, numberOfTasks,
                 numberOfThreads, capacity, overrun>>

(* tasks[index] = newTask; numberOfTasks++; *)
Publish ==
  /\ Booting /\ bootAt = "between" /\ bootStep = Len(BootCalls)
  /\ status' = [status EXCEPT ![numberOfTasks] = "new"]
  /\ numberOfTasks' = numberOfTasks + 1
  /\ bootAt' = IF numberOfTasks + 1 = NTasks THEN "done" ELSE "between"
  /\ bootStep' = 0
  /\ UNCHANGED <<holder, at, task, resumeAt, callVars, deadlock, lost, threadVars>>

BootStep == BootLock \/ BootUnlock \/ BootKmalloc \/ BootKmallocReturns
              \/ Publish

(* Whatever takes core 0 from bootMain takes it for good: currentTask is   *)
(* -1, so schedulerMain saves its registers nowhere.                       *)
Where == IF bootAt = "holding" THEN "allocator"
         ELSE IF bootAt = "inHeap" THEN "heap" ELSE "outside"

Leaves(c) == IF c = 0 /\ Booting
             THEN lost' = Where /\ bootAt' = "done" /\ bootStep' = 0
             ELSE UNCHANGED <<lost, bootAt, bootStep>>

-----------------------------------------------------------------------------
(* Interrupts.                                                             *)

(* schedulerMain: when nothing waits the interrupt changes nothing. *)
Tick(c) ==
  /\ InterruptsOn(c)
  /\ \E next \in {t \in Tasks : status[t] \in {"new", "waiting"}} :
       LET old == task[c]
       IN  /\ status' = [t \in Tasks |-> IF t = next THEN "running"
                                         ELSE IF t = old THEN "waiting"
                                         ELSE status[t]]
           /\ resumeAt' = [t \in Tasks |-> IF t = old THEN at[c]
                                           ELSE IF t = next THEN "code"
                                           ELSE resumeAt[t]]
           /\ task' = [task EXCEPT ![c] = next]
           /\ at' = [at EXCEPT ![c] = resumeAt[next]]
  /\ Leaves(c)
  /\ UNCHANGED <<holder, callVars, deadlock, numberOfTasks, threadVars>>

(* isrHandlerMain never returns from an exception. *)
Exception(c, v) == /\ at' = [at EXCEPT ![c] = "halted"]
                   /\ deadlock' = (deadlock \/ v = Deadlock)
                   /\ Leaves(c)
                   /\ UNCHANGED <<holder, taskVars, callVars, numberOfTasks,
                                  threadVars>>

(* The local APIC may find that an interrupt it announced is gone. *)
SpuriousInterrupt(c) ==
  /\ InterruptsOn(c)
  /\ IsException(Delivered(SpuriousVector))
  /\ Exception(c, Delivered(SpuriousVector))

(* A program executes int with some operand: a system call, or nothing     *)
(* a program may raise.                                                    *)
SystemCall(c) ==
  /\ at[c] = "code" /\ task[c] # NoTask /\ calls < MaxCalls
  /\ \E v \in ProgramVectors : Raised(v) = SyscallVector
  /\ \E r \in Requests : request' = [request EXCEPT ![task[c]] = r]
  /\ at' = [at EXCEPT ![c] = "entry"]
  /\ calls' = calls + 1
  /\ UNCHANGED <<holder, taskVars, left, deadlock, bootVars, threadVars>>

ForbiddenInterrupt(c) ==
  /\ at[c] = "code" /\ task[c] # NoTask
  /\ \E v \in ProgramVectors : /\ IsException(Raised(v))
                               /\ Exception(c, Raised(v))

-----------------------------------------------------------------------------
(* syscallMain and createThread, between cli and the sti before iretq.     *)

Quiet == UNCHANGED <<taskVars, calls, deadlock, bootVars>>

Enter(c) == /\ Goto(c, "entry", "call")
            /\ Quiet /\ UNCHANGED <<holder, request, left, threadVars>>

(* Fault: the lock of syscallMain is left out. *)
LockNothing(c) == UNCHANGED holder

Lock(c) == Acquire("syscall", c)

(* The switch over rax and rcx, and the test of the index. *)
Names(c, t) == request[task[c]] = [type |-> "PTHREAD", index |-> t]
Valid == {t \in Tasks : t < numberOfTasks}

NoThread(c) == /\ Goto(c, "call", "release")
               /\ Lock(c)
               /\ \A t \in Valid : ~Names(c, t)
               /\ Quiet /\ UNCHANGED <<request, left, threadVars>>

(* Fault: the array grows one thread too early. *)
CreateThreadEarly(c) ==
  /\ at[c] = "call" /\ Lock(c)
  /\ \E t \in Valid :
       /\ Names(c, t)
       /\ Goto(c, "call", IF (numberOfThreads[t] + 2) % ThreadsPerTable = 0
                          THEN "realloc" ELSE "pages")
       /\ numberOfThreads' = [numberOfThreads EXCEPT ![t] = @ + 1]
       /\ left' = [left EXCEPT ![c] = 2]
       /\ Quiet /\ UNCHANGED <<request, capacity, threads, overrun>>

(* createThread: two calls of physicalPageAlloc(2) are left to make. *)
CreateThread(c) ==
  /\ at[c] = "call" /\ Lock(c)
  /\ \E t \in Valid :
       /\ Names(c, t)
       /\ Goto(c, "call", IF (numberOfThreads[t] + 1) % ThreadsPerTable = 0
                          THEN "realloc" ELSE "pages")
       /\ numberOfThreads' = [numberOfThreads EXCEPT ![t] = @ + 1]
       /\ left' = [left EXCEPT ![c] = 2]
       /\ Quiet /\ UNCHANGED <<request, capacity, threads, overrun>>

(* krealloc(threads, numberOfThreads + 10) is given a number of entries    *)
(* for a number of bytes and adds the blocks of the old array, not its     *)
(* bytes: of 68 blocks (2160 bytes) there remain 68 + 20 bytes, which is   *)
(* less than one entry.                                                    *)
Realloc(c) ==
  LET t == request[task[c]].index
  IN  /\ Goto(c, "realloc", "pages")
      /\ capacity' = [capacity EXCEPT ![t] = 0]
      /\ NewArray(t)
      /\ Quiet /\ UNCHANGED <<holder, request, left, numberOfThreads, overrun>>

LockPages(c) == /\ Goto(c, "pages", "scan")
                /\ Acquire("page", c)
                /\ Quiet /\ UNCHANGED <<request, left, threadVars>>

(* Fault: physicalPageAlloc keeps its lock. *)
KeepPages(c) == /\ Goto(c, "scan", IF left[c] = 1 THEN "write" ELSE "pages")
                /\ left' = [left EXCEPT ![c] = @ - 1]
                /\ Quiet /\ UNCHANGED <<holder, request, threadVars>>

UnlockPages(c) == /\ Goto(c, "scan", IF left[c] = 1 THEN "write" ELSE "pages")
                  /\ Release("page")
                  /\ left' = [left EXCEPT ![c] = @ - 1]
                  /\ Quiet /\ UNCHANGED <<request, threadVars>>

(* The search takes the first entry that is in use, and entry 0 when none  *)
(* is.  It ran before the pages were allocated; under the lock the entries *)
(* are still the same.                                                     *)
IsThreadIndex(t, i) ==
  IF threads[t] = {} THEN i = 0
  ELSE i \in threads[t] /\ \A j \in threads[t] : i <= j

Write(c) ==
  LET t == request[task[c]].index
  IN  /\ Goto(c, "write", "release")
      /\ \E i \in Slots :
           /\ IsThreadIndex(t, i)
           /\ threads' = [threads EXCEPT ![t] = @ \cup {i}]
           /\ overrun' = IF i < capacity[t] THEN overrun ELSE overrun \cup {t}
      /\ Quiet /\ UNCHANGED <<holder, request, left, numberOfThreads, capacity>>

(* spinRelease, sti, iretq *)
Return(c) == /\ Goto(c, "release", "code")
             /\ Release("syscall")
             /\ request' = [request EXCEPT ![task[c]] = NoCall]
             /\ Quiet /\ UNCHANGED <<left, threadVars>>

(* The lock a core spins for, if its holder can no longer release it.      *)
Abandoned(l) == \/ holder[l] = BootMain /\ lost # "no"
                \/ holder[l] \in Cores /\ at[holder[l]] = "halted"

(* spinLock counts to 10^8: no critical section is as long, so the count   *)
(* is only reached when nobody will release the lock.                      *)
SpinsTooLong(c) ==
  /\ \/ at[c] = "call" /\ Abandoned("syscall")
     \/ at[c] = "pages" /\ Abandoned("page")
  /\ Exception(c, Deadlock)

Handler(c) ==
  \/ Enter(c) \/ NoThread(c) \/ CreateThread(c) \/ Realloc(c)
  \/ LockPages(c) \/ UnlockPages(c) \/ Write(c) \/ Return(c) \/ SpinsTooLong(c)

Next == \/ BootStep
        \/ \E c \in Cores : \/ Tick(c) \/ SpuriousInterrupt(c)
                            \/ SystemCall(c) \/ ForbiddenInterrupt(c)
                            \/ Handler(c)

Spec == Init /\ [][Next]_vars

(* A core with interrupts off goes on executing, and one that keeps trying *)
(* for a lock gets it: no core takes and releases one all the time.        *)
Fairness == /\ \A c \in Cores : /\ WF_vars(InHandler(c) /\ Handler(c))
                                /\ SF_vars(NoThread(c) \/ CreateThread(c))
                                /\ SF_vars(LockPages(c))
            /\ WF_vars(BootStep)

FairSpec == Spec /\ Fairness

-----------------------------------------------------------------------------
TypeOK ==
  /\ holder \in [Locks -> Cores \cup {Free, BootMain}]
  /\ at \in [Cores -> Points]
  /\ task \in [Cores -> Tasks \cup {NoTask}]
  /\ status \in [Tasks -> {"absent", "new", "running", "waiting"}]
  /\ resumeAt \in [Tasks -> {"code", "entry"}]
  /\ request \in [Tasks -> Requests \cup {NoCall}]
  /\ calls \in 0 .. MaxCalls
  /\ left \in [Cores -> 0 .. 2]
  /\ deadlock \in BOOLEAN
  /\ bootStep \in 0 .. Len(BootCalls)
  /\ bootAt \in {"between", "holding", "inHeap", "done"}
  /\ lost \in {"no", "outside", "allocator", "heap"}
  /\ numberOfTasks \in 0 .. NTasks
  /\ numberOfThreads \in [Tasks -> Nat]
  /\ capacity \in [Tasks -> {0, ThreadsPerTable}]
  /\ threads \in [Tasks -> SUBSET Slots]
  /\ overrun \subseteq Tasks

(* The Deadlock exception stops a core only after bootMain was taken off   *)
(* core 0 inside physicalPageAlloc: the two locks cause no deadlock of     *)
(* their own, and no exception of a program leaves one locked              *)
(* (scheduler.c:160-167, syscall.c:8, physicalPageManager.c:36).           *)
DeadlockNeedsLostBoot ==
  deadlock => lost = "allocator"

(* Two cores are inside the heap, which has no lock, only while bootMain   *)
(* still creates tasks and a running task asks for its tenth thread        *)
(* (kHeap.c:37-90, scheduler.c:100,119).                                   *)
InHeap(c) == at[c] = "realloc"
HeapAlone ==
  /\ \A c, d \in Cores : InHeap(c) /\ InHeap(d) => c = d
  /\ (\E c \in Cores : InHeap(c)) /\ bootAt = "inHeap"
       => /\ numberOfTasks \in 1 .. NTasks - 1
          /\ \E t \in Tasks : /\ numberOfThreads[t] > 0
                              /\ numberOfThreads[t] % ThreadsPerTable = 0

(* createThread writes inside the thread array of the task it names, as    *)
(* long as that task has fewer than ten threads (scheduler.c:118-143).     *)
ThreadsInsideArray ==
  \A t \in overrun : numberOfThreads[t] >= ThreadsPerTable

(* A system call that has its core returns to the program, unless bootMain *)
(* was lost with the lock of the page allocator.                           *)
SystemCallsReturn ==
  \A c \in Cores : InHandler(c) ~> (at[c] = "code" \/ lost = "allocator")
=============================================================================
