------------------------------ MODULE Scheduler ------------------------------
(***************************************************************************)
(* The preemptive scheduler of seaweed: schedulerMain, the handler of the  *)
(* timer interrupt of every core (kernel/sched/scheduler.c), the two       *)
(* assembly routines that leave it (kernel/sched/scheduler.asm), the       *)
(* interrupt entry that saves the registers (kernel/int/isr.asm), and      *)
(* bootMain, which creates the tasks on core 0 with interrupts enabled     *)
(* (kernel/kernelMain.c).                                                  *)
(*                                                                         *)
(* A context (what the registers of a core hold when it is not in the      *)
(* kernel) is abstracted to its owner and a value that changes whenever    *)
(* the owner computes; work[t] remembers the value the task itself would   *)
(* expect, so that a stale or foreign context can be told from a good one. *)
(*                                                                         *)
(* The handler runs with interrupts disabled (isr.asm:6).  Not modelled    *)
(* here: an interrupt that is already pending when startTask or switchTask *)
(* executes its early sti, and the spin bound of spinLock.                 *)
(***************************************************************************)
EXTENDS Integers, FiniteSets

CONSTANTS NCores,        \* cores that run; 0 is the boot processor
          MaxTasks,      \* maxNumberOfTasks, the entries of the task table
          NTasks,        \* how many tasks bootMain creates
          KernelTasks,   \* those with a ring-0 code segment
          Work           \* context values are 0 .. Work-1

Cores == 0 .. NCores - 1
Tasks == 0 .. MaxTasks - 1

NoTask  == -1   \* currentTask of a core that runs no task; the owner of
                \* the code a core boots with
Garbage == -1   \* the value of registers nobody saved

ASSUME NCoresAssumption == NCores \in Nat \ {0}
ASSUME NTasksAssumption == /\ MaxTasks \in Nat
                           /\ NTasks \in 0 .. MaxTasks
ASSUME KernelTasksAssumption == KernelTasks \subseteq Tasks
ASSUME WorkAssumption == Work \in Nat \ {0}

Context == [owner : Tasks \cup {NoTask}, val : 0 .. Work - 1 \cup {Garbage}]

(* The stacks an interrupt can find the core on: the kernel stack of a     *)
(* task (kernelStack), the stack a ring-0 task runs on, the stack a core   *)
(* booted with, or none at all (a TSS nobody filled in).                   *)
Stack == [kind : {"kernel", "own"}, id : Tasks]
           \cup [kind : {"boot"}, id : Cores]
           \cup {[kind |-> "none", id |-> 0]}

KernelStack(t) == [kind |-> "kernel", id |-> t]
OwnStack(t)    == [kind |-> "own", id |-> t]
BootStack(c)   == [kind |-> "boot", id |-> c]
NoStack        == [kind |-> "none", id |-> 0]

VARIABLES
  lock,          \* the static lock of schedulerMain
  numberOfTasks,
  status,        \* task_t.status, by table entry
  idleTime,      \* task_t.idleTime
  kernelStack,   \* task_t.kernelStack; NoStack is 0
  regs,          \* task_t.regs
  currentTask,   \* cpuInfo[core].currentTask
  rsp0,          \* tss[i].rsp0, by index of the TSS table
  cr3,           \* the address space of each core, named by its task
  pc,            \* where each core is
  nextTask,      \* the local of schedulerMain
  live,          \* the context in the registers of a core, or in its trap
                 \* frame while the core is in the handler
  sp,            \* the stack the handler runs on
  bootPc,        \* where bootMain is on core 0
  bootIndex,     \* index, the local of createNewTask
  work           \* the value each task last computed

taskVars == <<status, idleTime, kernelStack, regs>>
coreVars == <<currentTask, rsp0, cr3>>
bootVars == <<bootPc, bootIndex, numberOfTasks>>
vars == <<lock, taskVars, coreVars, pc, nextTask, live, sp, bootVars, work>>

Free == 0
WAITING_TO_START == 1
RUNNING == 2
WAITING == 3

(* The TSS a core was told to load: kernelMain.c:84-85 for core 0, and     *)
(* smp.c:44 for the others, where cpuInfoIndex is already incremented.    *)
TaskRegister(c) == IF c = 0 THEN 0 ELSE c + 1

(* createGenericTSS was called once by every core, in order. *)
Init ==
  /\ lock = FALSE
  /\ numberOfTasks = 0
  /\ status = [t \in Tasks |-> Free]
  /\ idleTime = [t \in Tasks |-> 0]
  /\ kernelStack = [t \in Tasks |-> NoStack]
  /\ regs = [t \in Tasks |-> [owner |-> NoTask, val |-> Garbage]]
  /\ currentTask = [c \in Cores |-> NoTask]
  /\ rsp0 = [i \in 0 .. 2 * NCores |-> IF i \in Cores THEN BootStack(i)
                                                      ELSE NoStack]
  /\ cr3 = [c \in Cores |-> NoTask]
  /\ pc = [c \in Cores |-> "run"]
  /\ nextTask = [c \in Cores |-> NoTask]
  /\ live = [c \in Cores |-> [owner |-> NoTask, val |-> 0]]
  /\ sp = [c \in Cores |-> NoStack]
  /\ bootPc = IF NTasks = 0 THEN "done" ELSE "find"
  /\ bootIndex = NoTask
  /\ work = [t \in Tasks |-> 0]

-----------------------------------------------------------------------------
(* What the cores run: tasks compute; bootMain creates tasks on core 0.    *)

Advance(v) == IF v = Garbage THEN Garbage ELSE (v + 1) % Work

Compute(c) ==
  LET t == live[c].owner
  IN  /\ pc[c] = "run"
      /\ t \in Tasks
      /\ live' = [live EXCEPT ![c] = [owner |-> t, val |-> Advance(live[c].val)]]
      /\ work' = [work EXCEPT ![t] = Advance(work[t])]
      /\ UNCHANGED <<lock, taskVars, coreVars, pc, nextTask, sp, bootVars>>

(* Core 0 still executes bootMain. *)
Booting(label) == /\ pc[0] = "run"
                  /\ live[0].owner = NoTask
                  /\ bootPc = label

IsFirstFree(i) == /\ kernelStack[i] = NoStack
                  /\ \A j \in Tasks : j < i => kernelStack[j] # NoStack

FindFreeIndex ==
  /\ Booting("find")
  /\ \E i \in Tasks : IsFirstFree(i) /\ bootIndex' = i
  /\ bootPc' = "write"
  /\ UNCHANGED <<lock, taskVars, coreVars, pc, nextTask, live, sp,
                 numberOfTasks, work>>

(* Fault: the entry counts as soon as its first fields are written. *)
PublishThenWrite ==
  /\ Booting("write")
  /\ status' = [status EXCEPT ![bootIndex] = WAITING_TO_START]
  /\ regs' = [regs EXCEPT ![bootIndex] = [owner |-> bootIndex, val |-> Garbage]]
  /\ numberOfTasks' = numberOfTasks + 1
  /\ bootPc' = "fill"
  /\ UNCHANGED <<lock, idleTime, kernelStack, coreVars, pc, nextTask, live, sp,
                 bootIndex, work>>

(* tasks[index] = newTask copies the structure from its first field on:    *)
(* status and regs, of which only rsp, ss and cs were set, ...             *)
WriteStatus ==
  /\ Booting("write")
  /\ status' = [status EXCEPT ![bootIndex] = WAITING_TO_START]
  /\ regs' = [regs EXCEPT ![bootIndex] = [owner |-> bootIndex, val |-> Garbage]]
  /\ bootPc' = "fill"
  /\ UNCHANGED <<lock, idleTime, kernelStack, coreVars, pc, nextTask, live, sp,
                 bootIndex, numberOfTasks, work>>

(* ... then kernelStack, entryPoint and idleTime. *)
WriteStack ==
  /\ Booting("fill")
  /\ kernelStack' = [kernelStack EXCEPT ![bootIndex] = KernelStack(bootIndex)]
  /\ idleTime' = [idleTime EXCEPT ![bootIndex] = 0]
  /\ bootPc' = "publish"
  /\ UNCHANGED <<lock, status, regs, coreVars, pc, nextTask, live, sp,
                 bootIndex, numberOfTasks, work>>

(* Fault: the new task is counted twice. *)
PublishTwice ==
  /\ Booting("publish")
  /\ numberOfTasks' = numberOfTasks + 2
  /\ bootPc' = IF numberOfTasks + 1 = NTasks THEN "done" ELSE "find"
  /\ UNCHANGED <<lock, taskVars, coreVars, pc, nextTask, live, sp,
                 bootIndex, work>>

Publish ==
  /\ Booting("publish")
  /\ numberOfTasks' = numberOfTasks + 1
  /\ bootPc' = IF numberOfTasks + 1 = NTasks THEN "done" ELSE "find"
  /\ UNCHANGED <<lock, taskVars, coreVars, pc, nextTask, live, sp,
                 bootIndex, work>>

CreateNewTask == FindFreeIndex \/ WriteStatus \/ WriteStack \/ Publish

-----------------------------------------------------------------------------
(* The timer interrupt. *)

(* A ring-3 context is interrupted onto the stack of the TSS, a ring-0     *)
(* context stays on the stack it has.                                      *)
TrapStack(c) ==
  LET t == live[c].owner
  IN  IF t = NoTask THEN BootStack(c)
      ELSE IF t \in KernelTasks THEN OwnStack(t)
      ELSE rsp0[TaskRegister(c)]

Tick(c) ==
  /\ pc[c] = "run"
  /\ sp' = [sp EXCEPT ![c] = TrapStack(c)]
  /\ pc' = [pc EXCEPT ![c] = "spin"]
  /\ UNCHANGED <<lock, taskVars, coreVars, nextTask, live, bootVars, work>>

SpinLock(c) ==
  /\ pc[c] = "spin"
  /\ ~lock
  /\ lock' = TRUE
  /\ pc' = [pc EXCEPT ![c] = "scan"]
  /\ UNCHANGED <<taskVars, coreVars, nextTask, live, sp, bootVars, work>>

(* The scan of the task table, one step because only the holder of the     *)
(* lock changes published entries; numberOfTasks, which it reads again in  *)
(* every iteration, counts as read when the loop ends.                     *)
Published  == {t \in Tasks : t < numberOfTasks}
Waiting    == {t \in Published : status[t] = WAITING}
NotStarted == {t \in Published : status[t] = WAITING_TO_START}

(* The loop breaks at the first entry that never ran. *)
IsFirstNotStarted(t) == t \in NotStarted /\ \A u \in NotStarted : t <= u
Scanned == {t \in Waiting : \A u \in NotStarted : t < u}

(* Fault: the first waiting entry, however long the others wait. *)
IsFirstWaiting(t) == t \in Waiting /\ \A u \in Waiting : t <= u

(* cnt < ++idleTime keeps the first of the entries with the largest value. *)
IsLongestWaiting(t) ==
  /\ t \in Waiting
  /\ \A u \in Waiting : \/ idleTime[u] < idleTime[t]
                        \/ idleTime[u] = idleTime[t] /\ t <= u

IsNext(t) == IF NotStarted # {} THEN IsFirstNotStarted(t)
                                ELSE IsLongestWaiting(t)

(* Fault: the lock only covers the scan. *)
FindNextTaskAndRelease(c) ==
  /\ pc[c] = "scan"
  /\ \E t \in Tasks : IsNext(t) /\ nextTask' = [nextTask EXCEPT ![c] = t]
  /\ idleTime' = [t \in Tasks |-> IF t \in Scanned THEN idleTime[t] + 1
                                                   ELSE idleTime[t]]
  /\ lock' = FALSE
  /\ pc' = [pc EXCEPT ![c] = "save"]
  /\ UNCHANGED <<status, kernelStack, regs, coreVars, live, sp, bootVars, work>>

FindNextTask(c) ==
  /\ pc[c] = "scan"
  /\ \E t \in Tasks : IsNext(t) /\ nextTask' = [nextTask EXCEPT ![c] = t]
  /\ idleTime' = [t \in Tasks |-> IF t \in Scanned THEN idleTime[t] + 1
                                                   ELSE idleTime[t]]
  /\ pc' = [pc EXCEPT ![c] = "save"]
  /\ UNCHANGED <<lock, status, kernelStack, regs, coreVars, live, sp, bootVars,
                 work>>

(* Fault: the lock is kept when there is nothing to run. *)
NothingToRunKeepLock(c) ==
  /\ pc[c] = "scan"
  /\ NotStarted = {} /\ Waiting = {}
  /\ pc' = [pc EXCEPT ![c] = "return"]
  /\ UNCHANGED <<lock, taskVars, coreVars, nextTask, live, sp, bootVars, work>>

(* numberOfTasks is 0, or nextTask is still -1: goto end. *)
NothingToRun(c) ==
  /\ pc[c] = "scan"
  /\ NotStarted = {} /\ Waiting = {}
  /\ pc' = [pc EXCEPT ![c] = "end"]
  /\ UNCHANGED <<lock, taskVars, coreVars, nextTask, live, sp, bootVars, work>>

(* A core that ran no task has nowhere to save its context: it is lost. *)
SaveLastTask(c) ==
  /\ pc[c] = "save"
  /\ LET last == currentTask[c]
     IN  IF last # NoTask
         THEN /\ regs' = [regs EXCEPT ![last] = live[c]]
              /\ status' = [status EXCEPT ![last] = WAITING]
         ELSE UNCHANGED <<regs, status>>
  /\ pc' = [pc EXCEPT ![c] = "install"]
  /\ UNCHANGED <<lock, idleTime, kernelStack, coreVars, nextTask, live, sp,
                 bootVars, work>>

(* Fault: only the entry of the core's own number is written. *)
SetOneKernelStack(c, stack) == rsp0' = [rsp0 EXCEPT ![c] = stack]

(* setKernelStack indexes twice: grabTSS(c) is &tss[c], and tss[c] of that *)
(* is entry 2c of the table.                                               *)
SetKernelStack(c, stack) ==
  rsp0' = [i \in DOMAIN rsp0 |-> IF i \in {c, 2 * c} THEN stack ELSE rsp0[i]]

(* Fault: the core stays in the address space of the last task. *)
InstallOldSpace(c) ==
  /\ pc[c] = "install"
  /\ LET t == nextTask[c]
     IN  /\ currentTask' = [currentTask EXCEPT ![c] = t]
         /\ idleTime' = [idleTime EXCEPT ![t] = 0]
         /\ SetKernelStack(c, kernelStack[t])
  /\ pc' = [pc EXCEPT ![c] = "mark"]
  /\ UNCHANGED <<lock, status, kernelStack, regs, cr3, nextTask, live, sp,
                 bootVars, work>>

(* Fault: the time a task has waited is not reset. *)
InstallKeepIdleTime(c) ==
  /\ pc[c] = "install"
  /\ LET t == nextTask[c]
     IN  /\ currentTask' = [currentTask EXCEPT ![c] = t]
         /\ cr3' = [cr3 EXCEPT ![c] = t]
         /\ SetKernelStack(c, kernelStack[t])
  /\ pc' = [pc EXCEPT ![c] = "mark"]
  /\ UNCHANGED <<lock, taskVars, nextTask, live, sp, bootVars, work>>

Install(c) ==
  /\ pc[c] = "install"
  /\ LET t == nextTask[c]
     IN  /\ currentTask' = [currentTask EXCEPT ![c] = t]
         /\ idleTime' = [idleTime EXCEPT ![t] = 0]
         /\ cr3' = [cr3 EXCEPT ![c] = t]
         /\ SetKernelStack(c, kernelStack[t])
  /\ pc' = [pc EXCEPT ![c] = "mark"]
  /\ UNCHANGED <<lock, status, kernelStack, regs, nextTask, live, sp, bootVars,
                 work>>

(* Fault: a task that is resumed is not marked as running. *)
MarkStartedOnly(c) ==
  /\ pc[c] = "mark"
  /\ LET t == nextTask[c]
     IN  IF status[t] = WAITING_TO_START
         THEN /\ pc' = [pc EXCEPT ![c] = "releaseToStart"]
              /\ status' = [status EXCEPT ![t] = RUNNING]
         ELSE /\ pc' = [pc EXCEPT ![c] = "releaseToSwitch"]
              /\ UNCHANGED status
  /\ UNCHANGED <<lock, idleTime, kernelStack, regs, coreVars, nextTask, live, sp,
                 bootVars, work>>

MarkRunning(c) ==
  /\ pc[c] = "mark"
  /\ LET t == nextTask[c]
     IN  /\ pc' = [pc EXCEPT ![c] = IF status[t] = WAITING_TO_START
                                    THEN "releaseToStart" ELSE "releaseToSwitch"]
         /\ status' = [status EXCEPT ![t] = RUNNING]
  /\ UNCHANGED <<lock, idleTime, kernelStack, regs, coreVars, nextTask, live, sp,
                 bootVars, work>>

(* Where the core goes on after spinRelease. *)
After(label) == CASE label = "releaseToStart"  -> "start"
                  [] label = "releaseToSwitch" -> "switch"
                  [] label = "end"             -> "return"

SpinRelease(c) ==
  /\ pc[c] \in {"releaseToStart", "releaseToSwitch", "end"}
  /\ lock' = FALSE
  /\ pc' = [pc EXCEPT ![c] = After(pc[c])]
  /\ UNCHANGED <<taskVars, coreVars, nextTask, live, sp, bootVars, work>>

(* Leave the handler with the registers of another context.                *)
Enter(c, context) ==
  /\ live' = [live EXCEPT ![c] = context]
  /\ sp' = [sp EXCEPT ![c] = NoStack]
  /\ nextTask' = [nextTask EXCEPT ![c] = NoTask]
  /\ pc' = [pc EXCEPT ![c] = "run"]
  /\ UNCHANGED <<lock, taskVars, coreVars, bootVars, work>>

(* The arguments are read from the table after the lock was released. *)
StartTask(c) ==
  /\ pc[c] = "start"
  /\ Enter(c, [owner |-> regs[nextTask[c]].owner, val |-> 0])

SwitchTask(c) ==
  /\ pc[c] = "switch"
  /\ Enter(c, regs[nextTask[c]])

(* Return through the interrupt stub to the context that was interrupted. *)
Return(c) ==
  /\ pc[c] = "return"
  /\ Enter(c, live[c])

SchedulerMain(c) ==
  \/ FindNextTask(c) \/ NothingToRun(c)
  \/ SaveLastTask(c) \/ Install(c) \/ MarkRunning(c)
  \/ SpinRelease(c)
  \/ StartTask(c) \/ SwitchTask(c) \/ Return(c)

Next == \/ CreateNewTask
        \/ \E c \in Cores : Compute(c) \/ Tick(c) \/ SpinLock(c) \/ SchedulerMain(c)

Spec == Init /\ [][Next]_vars

-----------------------------------------------------------------------------
(* Fairness.  The timer of every core is periodic and the handler is       *)
(* straight-line code.  A core that spins tests the lock continually while *)
(* the others, once out of the handler, stay out for a timer period: it    *)
(* cannot miss the lock forever although the lock keeps being taken.       *)
Fairness == /\ WF_vars(CreateNewTask)
            /\ \A c \in Cores : /\ WF_vars(Tick(c))
                                /\ SF_vars(SpinLock(c))
                                /\ WF_vars(SchedulerMain(c))

FairSpec == Spec /\ Fairness

-----------------------------------------------------------------------------
(* Properties.                                                             *)

(* Every variable has its type. *)
TypeOK ==
  /\ lock \in BOOLEAN
  /\ numberOfTasks \in 0 .. NTasks
  /\ status \in [Tasks -> {Free, WAITING_TO_START, RUNNING, WAITING}]
  /\ idleTime \in [Tasks -> Nat]
  /\ kernelStack \in [Tasks -> Stack]
  /\ regs \in [Tasks -> Context]
  /\ currentTask \in [Cores -> Tasks \cup {NoTask}]
  /\ rsp0 \in [0 .. 2 * NCores -> Stack]
  /\ cr3 \in [Cores -> Tasks \cup {NoTask}]
  /\ pc \in [Cores -> {"run", "spin", "scan", "save", "install", "mark",
                       "releaseToStart", "releaseToSwitch", "end",
                       "start", "switch", "return"}]
  /\ nextTask \in [Cores -> Tasks \cup {NoTask}]
  /\ live \in [Cores -> Context]
  /\ sp \in [Cores -> Stack]
  /\ bootPc \in {"find", "write", "fill", "publish", "done"}
  /\ bootIndex \in Tasks \cup {NoTask}
  /\ work \in [Tasks -> 0 .. Work - 1]

Critical == {"scan", "save", "install", "mark",
             "releaseToStart", "releaseToSwitch", "end"}

(* The lock of schedulerMain: it is taken exactly while some core is       *)
(* between spinLock and spinRelease, and then one core only.               *)
LockInv ==
  /\ lock <=> \E c \in Cores : pc[c] \in Critical
  /\ \A c, d \in Cores : pc[c] \in Critical /\ pc[d] \in Critical => c = d

(* A task is on one core at most, and the table says RUNNING of exactly    *)
(* the tasks that are some core's currentTask (but for the two steps in    *)
(* which the holder of the lock changes it).                               *)
OneCorePerTask ==
  /\ \A c, d \in Cores :
        currentTask[c] = currentTask[d] => c = d \/ currentTask[c] = NoTask
  /\ \A t \in Tasks :
        status[t] = RUNNING
          <=> \E c \in Cores : currentTask[c] = t /\ pc[c] \notin {"install", "mark"}

(* Core c has the context of task t, in its registers or trap frame. *)
HasContext(c, t) == /\ live[c].owner = t
                    /\ pc[c] \in {"run", "spin", "scan", "save", "end", "return"}

(* No task loses or mixes up its registers: there is one good copy of the  *)
(* context of every task, on one core or, when on none, in regs; a task    *)
(* that never ran has done no work.                                        *)
ContextIntact ==
  \A t \in Published :
    LET on == {c \in Cores : HasContext(c, t)}
        starting == \/ status[t] = WAITING_TO_START
                    \/ \E c \in Cores : /\ nextTask[c] = t
                                        /\ pc[c] \in {"releaseToStart", "start"}
    IN  IF on # {} THEN \E c \in Cores : on = {c} /\ live[c].val = work[t]
        ELSE IF starting THEN work[t] = 0
        ELSE regs[t] = [owner |-> t, val |-> work[t]]

(* What a core runs is its currentTask, in that task's address space. *)
OwnAddressSpace ==
  \A c \in Cores :
    pc[c] = "run" => live[c].owner = currentTask[c] /\ cr3[c] = currentTask[c]

(* An interrupt of a ring-3 task goes to the kernel stack of that task.    *)
(* smp.c:56 allows 32 cores; the index arithmetic of setKernelStack only  *)
(* gets it right for cores 0 and 1.                                        *)
OwnKernelStack ==
  \A c \in Cores :
    LET t == live[c].owner
    IN  pc[c] = "run" /\ t \in Tasks \ KernelTasks
          => rsp0[TaskRegister(c)] = KernelStack(t)

(* Two cores are in the handler on the same stack only when one of them    *)
(* has released the lock and is about to leave its stack: schedulerMain    *)
(* makes a task available while it still executes on that task's stack.    *)
StackShared ==
  \A c, d \in Cores :
    (c # d /\ pc[c] # "run" /\ pc[d] # "run" /\ sp[c] = sp[d])
      => pc[c] \in {"start", "switch"} \/ pc[d] \in {"start", "switch"}

(* schedulerMain only sees complete entries, although createNewTask fills  *)
(* them without the lock, and tasks start in the order of their creation.  *)
StartOrder ==
  /\ \A t \in Published : status[t] # Free /\ kernelStack[t] = KernelStack(t)
  /\ \A t, u \in Published : status[t] = WAITING_TO_START /\ t < u
                              => status[u] = WAITING_TO_START

(* Bounded waiting: a task is passed over fewer times than there are tasks *)
(* at that moment, whatever the cores do.                                  *)
BoundedWait == \A t \in Published : idleTime[t] < numberOfTasks

(* A task starts once: its status only goes around the cycle.              *)
Lifecycle ==
  [][\A t \in Tasks :
       status'[t] # status[t] =>
         <<status[t], status'[t]>> \in {<<Free, WAITING_TO_START>>,
                                       <<WAITING_TO_START, RUNNING>>,
                                       <<RUNNING, WAITING>>, <<WAITING, RUNNING>>}]_vars

(* Every task that was created runs again and again. *)
NoStarvation ==
  \A t \in Tasks :
    []( t < numberOfTasks => <>(\E c \in Cores : pc[c] = "run" /\ live[c].owner = t))

(* bootMain creates its tasks: its six calls of createNewTask are meant to *)
(* execute, but the line of schedulerMain marked "potental bug"            *)
(* (scheduler.c:50) saves no context for a core without a task.            *)
AllTasksCreated == <>(numberOfTasks = NTasks)

-----------------------------------------------------------------------------
(* What a scheduler sees of this one.  A decision takes effect when        *)
(* FindNextTask makes it: from then on the core counts as running the task *)
(* it has chosen.                                                          *)
Mapped(c) == IF pc[c] \in {"save", "install"} THEN nextTask[c] ELSE currentTask[c]

IsRunning(t) == \E c \in Cores : Mapped(c) = t

NeverRan == {t \in NotStarted : ~IsRunning(t)}

(* A set of tasks as a sequence, the one that has waited longest first: a  *)
(* task comes behind those that have waited at least as long.              *)
Position(t, S, time) == Cardinality({u \in S : time[u] >= time[t]})
LongestFirst(S, time) ==
  [k \in 1 .. Cardinality(S) |-> CHOOSE t \in S : Position(t, S, time) = k]

InQueue == {t \in Published \ NotStarted : ~IsRunning(t)}

Abstract == INSTANCE RoundRobin
              WITH Core <- Cores,
                   running <- [c \in Cores |-> Mapped(c)],
                   queue <- LongestFirst(InQueue, idleTime),
                   created <- numberOfTasks,
                   started <- numberOfTasks - Cardinality(NeverRan)

(* The scheduler of seaweed is a fair round-robin scheduler: oldest new    *)
(* task first, then the task that has waited longest.                      *)
ImplementsRoundRobin == Abstract!Spec

=============================================================================
