--------------------------- MODULE SchedulerProofs ---------------------------
(***************************************************************************)
(* Theorems about Scheduler for any number of cores, tasks and table       *)
(* entries.  Each invariant is proved from the ones before it.             *)
(***************************************************************************)
EXTENDS Scheduler, FiniteSetTheorems, SequenceTheorems, TLAPS

USE NCoresAssumption, NTasksAssumption, KernelTasksAssumption, WorkAssumption

(* The cores whose nextTask is a task. *)
Chosen == {"save", "install", "mark", "releaseToStart", "releaseToSwitch",
           "start", "switch"}

(* What keeps the types: bootMain counts no further than NTasks, and the   *)
(* locals that index the table do so only once they are set.               *)
IndexInv ==
  /\ bootPc # "done" => numberOfTasks < NTasks
  /\ bootPc \in {"write", "fill", "publish"} => bootIndex \in Tasks
  /\ \A c \in Cores : pc[c] \in Chosen => nextTask[c] \in Tasks

TypeInv == TypeOK /\ IndexInv

(* The value of a computing context stays in its range. *)
LEMMA AdvanceType ==
  /\ \A v \in 0 .. Work - 1 : Advance(v) \in 0 .. Work - 1
  /\ \A v \in 0 .. Work - 1 \cup {Garbage} :
       Advance(v) \in 0 .. Work - 1 \cup {Garbage}
  BY DEF Advance, Garbage

LEMMA StackTypes ==
  /\ NoStack \in Stack
  /\ \A t \in Tasks : KernelStack(t) \in Stack /\ OwnStack(t) \in Stack
  /\ \A c \in Cores : BootStack(c) \in Stack
  BY DEF Stack, NoStack, KernelStack, OwnStack, BootStack

LEMMA InitTypeInv == Init => TypeInv
  <1> SUFFICES ASSUME Init PROVE TypeInv
    OBVIOUS
  <1>1. [owner |-> NoTask, val |-> Garbage] \in Context
    BY DEF Context
  <1>2. [owner |-> NoTask, val |-> 0] \in Context
    BY DEF Context
  <1>a. rsp0 \in [0 .. 2 * NCores -> Stack]
    BY StackTypes DEF Init
  <1>b. /\ numberOfTasks \in 0 .. NTasks
        /\ idleTime \in [Tasks -> Nat]
        /\ work \in [Tasks -> 0 .. Work - 1]
    BY DEF Init
  <1>c. /\ kernelStack \in [Tasks -> Stack]
        /\ sp \in [Cores -> Stack]
    BY StackTypes DEF Init
  <1>d. /\ regs \in [Tasks -> Context]
        /\ live \in [Cores -> Context]
    BY <1>1, <1>2 DEF Init
  <1>3. TypeOK
    BY <1>a, <1>b, <1>c, <1>d DEF Init, TypeOK
  <1>4. IndexInv
    BY DEF Init, IndexInv, Chosen
  <1> QED
    BY <1>3, <1>4 DEF TypeInv

LEMMA NextTypeInv == TypeInv /\ [Next]_vars => TypeInv'
  <1> SUFFICES ASSUME TypeInv, [Next]_vars PROVE TypeInv'
    OBVIOUS
  <1> USE DEF TypeInv, TypeOK, IndexInv, taskVars, coreVars, bootVars
  <1>1. CASE FindFreeIndex
    BY <1>1 DEF FindFreeIndex, Booting
  <1>2. CASE WriteStatus
    <2>1. [owner |-> bootIndex, val |-> Garbage] \in Context
      BY <1>2 DEF WriteStatus, Booting, Context
    <2> QED
      BY <1>2, <2>1 DEF WriteStatus, Booting, WAITING_TO_START
  <1>3. CASE WriteStack
    BY <1>3, StackTypes DEF WriteStack, Booting
  <1>4. CASE Publish
    BY <1>4 DEF Publish, Booting
  <1>5. ASSUME NEW c \in Cores, Compute(c) PROVE TypeInv'
    <2>1. live[c].owner \in Tasks /\ live[c] \in Context
      BY <1>5 DEF Compute
    <2>2. [owner |-> live[c].owner, val |-> Advance(live[c].val)] \in Context
      BY <2>1, AdvanceType DEF Context
    <2>3. live' \in [Cores -> Context]
      BY <1>5, <2>2 DEF Compute
    <2>4. work' \in [Tasks -> 0 .. Work - 1]
      BY <1>5, <2>1, AdvanceType DEF Compute
    <2> QED
      BY <1>5, <2>3, <2>4 DEF Compute
  <1>6. ASSUME NEW c \in Cores, Tick(c) PROVE TypeInv'
    <2>1. TaskRegister(c) \in 0 .. 2 * NCores
      BY DEF TaskRegister, Cores
    <2>2. TrapStack(c) \in Stack
      BY <2>1, StackTypes DEF TrapStack, Context
    <2> QED
      BY <1>6, <2>2 DEF Tick, Chosen
  <1>7. ASSUME NEW c \in Cores, SpinLock(c) PROVE TypeInv'
    BY <1>7 DEF SpinLock, Chosen
  <1>8. ASSUME NEW c \in Cores, FindNextTask(c) PROVE TypeInv'
    BY <1>8 DEF FindNextTask, Chosen
  <1>9. ASSUME NEW c \in Cores, NothingToRun(c) PROVE TypeInv'
    BY <1>9 DEF NothingToRun, Chosen
  <1>10. ASSUME NEW c \in Cores, SaveLastTask(c) PROVE TypeInv'
    BY <1>10 DEF SaveLastTask, Chosen, WAITING
  <1>11. ASSUME NEW c \in Cores, Install(c) PROVE TypeInv'
    BY <1>11 DEF Install, Chosen, SetKernelStack
  <1>12. ASSUME NEW c \in Cores, MarkRunning(c) PROVE TypeInv'
    BY <1>12 DEF MarkRunning, Chosen, RUNNING
  <1>13. ASSUME NEW c \in Cores, SpinRelease(c) PROVE TypeInv'
    BY <1>13 DEF SpinRelease, After, Chosen
  <1>14. ASSUME NEW c \in Cores, StartTask(c) PROVE TypeInv'
    BY <1>14, StackTypes DEF StartTask, Enter, Chosen, Context
  <1>15. ASSUME NEW c \in Cores, SwitchTask(c) PROVE TypeInv'
    BY <1>15, StackTypes DEF SwitchTask, Enter, Chosen
  <1>16. ASSUME NEW c \in Cores, Return(c) PROVE TypeInv'
    BY <1>16, StackTypes DEF Return, Enter, Chosen
  <1>17. CASE UNCHANGED vars
    BY <1>17 DEF vars
  <1> QED
    BY <1>1, <1>2, <1>3, <1>4, <1>5, <1>6, <1>7, <1>8, <1>9, <1>10, <1>11,
       <1>12, <1>13, <1>14, <1>15, <1>16, <1>17
       DEF Next, CreateNewTask, SchedulerMain

(* Every variable keeps its type. *)
THEOREM TypeCorrect == Spec => []TypeOK
  <1>1. TypeInv => TypeOK
    BY DEF TypeInv
  <1> QED
    BY <1>1, InitTypeInv, NextTypeInv, PTL DEF Spec

-----------------------------------------------------------------------------
(* The lock. *)

LEMMA InitLockInv == Init => LockInv
  BY DEF Init, LockInv, Critical

LEMMA NextLockInv == TypeInv /\ LockInv /\ [Next]_vars => LockInv'
  <1> SUFFICES ASSUME TypeInv, LockInv, [Next]_vars PROVE LockInv'
    OBVIOUS
  <1> USE DEF LockInv, Critical
  <1>0. /\ pc \in [Cores -> {"run", "spin", "scan", "save", "install", "mark",
                            "releaseToStart", "releaseToSwitch", "end",
                            "start", "switch", "return"}]
        /\ lock \in BOOLEAN
    BY DEF TypeInv, TypeOK
  <1>1. CASE CreateNewTask
    BY <1>0, <1>1 DEF CreateNewTask, FindFreeIndex, WriteStatus, WriteStack, Publish
  <1>2. ASSUME NEW c \in Cores, Compute(c) PROVE LockInv'
    BY <1>0, <1>2 DEF Compute
  <1>3. ASSUME NEW c \in Cores, Tick(c) PROVE LockInv'
    BY <1>0, <1>3 DEF Tick
  <1>4. ASSUME NEW c \in Cores, SpinLock(c) PROVE LockInv'
    BY <1>0, <1>4 DEF SpinLock
  <1>5. ASSUME NEW c \in Cores, FindNextTask(c) PROVE LockInv'
    BY <1>0, <1>5 DEF FindNextTask
  <1>6. ASSUME NEW c \in Cores, NothingToRun(c) PROVE LockInv'
    BY <1>0, <1>6 DEF NothingToRun
  <1>7. ASSUME NEW c \in Cores, SaveLastTask(c) PROVE LockInv'
    BY <1>0, <1>7 DEF SaveLastTask
  <1>8. ASSUME NEW c \in Cores, Install(c) PROVE LockInv'
    BY <1>0, <1>8 DEF Install
  <1>9. ASSUME NEW c \in Cores, MarkRunning(c) PROVE LockInv'
    BY <1>0, <1>9 DEF MarkRunning
  <1>10. ASSUME NEW c \in Cores, SpinRelease(c) PROVE LockInv'
    BY <1>0, <1>10 DEF SpinRelease, After
  <1>11. ASSUME NEW c \in Cores, StartTask(c) PROVE LockInv'
    BY <1>0, <1>11 DEF StartTask, Enter
  <1>12. ASSUME NEW c \in Cores, SwitchTask(c) PROVE LockInv'
    BY <1>0, <1>12 DEF SwitchTask, Enter
  <1>13. ASSUME NEW c \in Cores, Return(c) PROVE LockInv'
    BY <1>0, <1>13 DEF Return, Enter
  <1>14. CASE UNCHANGED vars
    BY <1>14 DEF vars
  <1> QED
    BY <1>1, <1>2, <1>3, <1>4, <1>5, <1>6, <1>7, <1>8, <1>9, <1>10, <1>11,
       <1>12, <1>13, <1>14
       DEF Next, SchedulerMain

(* The lock of schedulerMain is held by at most one core, and it is free   *)
(* when no core is between spinLock and spinRelease.                       *)
THEOREM MutualExclusion == Spec => []LockInv
  BY InitTypeInv, NextTypeInv, InitLockInv, NextLockInv, PTL DEF Spec

-----------------------------------------------------------------------------
(* The task table. *)

(* Entries fill up in order: the first numberOfTasks are complete, the     *)
(* next one is the one createNewTask works on, the rest are free.          *)
TableInv ==
  /\ bootPc \in {"write", "fill", "publish"} => bootIndex = numberOfTasks
  /\ \A t \in Tasks :
       /\ kernelStack[t] = (IF t < numberOfTasks \/ (t = numberOfTasks /\ bootPc = "publish")
                            THEN KernelStack(t) ELSE NoStack)
       /\ t < numberOfTasks => status[t] # Free
       /\ t = numberOfTasks
            => status[t] = (IF bootPc \in {"fill", "publish"}
                            THEN WAITING_TO_START ELSE Free)
       /\ t > numberOfTasks => status[t] = Free

(* The task a core has chosen is published and, until the core marks it,   *)
(* not running; from Install on it is the core's currentTask.              *)
ChoiceInv ==
  \A c \in Cores :
    /\ pc[c] \in Chosen => nextTask[c] < numberOfTasks
    /\ pc[c] \in {"save", "install", "mark"}
         => status[nextTask[c]] \in {WAITING_TO_START, WAITING}
    /\ pc[c] \in Chosen \ {"save", "install"} => currentTask[c] = nextTask[c]
    /\ pc[c] = "install" /\ currentTask[c] # NoTask
         => status[currentTask[c]] = WAITING /\ nextTask[c] # currentTask[c]
    /\ currentTask[c] # NoTask => currentTask[c] < numberOfTasks

TaskInv == TableInv /\ ChoiceInv /\ OneCorePerTask

LEMMA InitTaskInv == Init => TaskInv
  <1> SUFFICES ASSUME Init PROVE TaskInv
    OBVIOUS
  <1>1. TableInv
    BY DEF Init, TableInv, Free, Tasks
  <1>2. ChoiceInv
    BY DEF Init, ChoiceInv, Chosen
  <1>3. OneCorePerTask
    BY DEF Init, OneCorePerTask, Free, RUNNING, Tasks, NoTask
  <1> QED
    BY <1>1, <1>2, <1>3 DEF TaskInv

(* Different stacks have different names. *)
LEMMA NoStackIsNone == \A t \in Tasks : KernelStack(t) # NoStack
  BY DEF KernelStack, NoStack

LEMMA NextTableInv == TypeInv /\ TaskInv /\ [Next]_vars => TableInv'
  <1> SUFFICES ASSUME TypeInv, TaskInv, [Next]_vars PROVE TableInv'
    OBVIOUS
  <1> USE DEF TypeInv, TypeOK, IndexInv, TaskInv, TableInv, Tasks
  <1>1. CASE FindFreeIndex
    <2>1. PICK i \in Tasks : IsFirstFree(i) /\ bootIndex' = i
      BY <1>1 DEF FindFreeIndex
    <2>2. numberOfTasks \in Tasks
      BY <1>1 DEF FindFreeIndex, Booting
    <2>3. kernelStack[numberOfTasks] = NoStack
      BY <1>1, <2>2 DEF FindFreeIndex, Booting
    <2>4. ~(i < numberOfTasks)
      BY <2>1, NoStackIsNone DEF IsFirstFree
    <2>5. i = numberOfTasks
      BY <2>1, <2>2, <2>3, <2>4 DEF IsFirstFree
    <2> QED
      BY <1>1, <2>1, <2>5 DEF FindFreeIndex, Booting, taskVars
  <1>2. CASE WriteStatus
    BY <1>2 DEF WriteStatus, Booting, WAITING_TO_START, Free
  <1>3. CASE WriteStack
    BY <1>3 DEF WriteStack, Booting
  <1>4. CASE Publish
    BY <1>4 DEF Publish, Booting, taskVars, WAITING_TO_START, Free
  <1>5. CASE UNCHANGED <<status, kernelStack, bootVars>>
    BY <1>5 DEF bootVars
  <1>6. ASSUME NEW c \in Cores, SaveLastTask(c) PROVE TableInv'
    <2>1. currentTask[c] # NoTask => currentTask[c] < numberOfTasks
      BY DEF ChoiceInv
    <2> QED
      BY <1>6, <2>1 DEF SaveLastTask, bootVars, WAITING, Free
  <1>7. ASSUME NEW c \in Cores, MarkRunning(c) PROVE TableInv'
    <2>1. nextTask[c] < numberOfTasks
      BY <1>7 DEF ChoiceInv, MarkRunning, Chosen
    <2> QED
      BY <1>7, <2>1 DEF MarkRunning, bootVars, RUNNING, Free
  <1> QED
    BY <1>1, <1>2, <1>3, <1>4, <1>5, <1>6, <1>7
       DEF Next, CreateNewTask, SchedulerMain, vars, taskVars, Compute, Tick,
           SpinLock, FindNextTask, NothingToRun, Install, SpinRelease,
           StartTask, SwitchTask, Return, Enter

LEMMA NextChoiceInv ==
  TypeInv /\ LockInv /\ TaskInv /\ [Next]_vars => ChoiceInv' /\ OneCorePerTask'
  <1> SUFFICES ASSUME TypeInv, LockInv, TaskInv, [Next]_vars
               PROVE  ChoiceInv' /\ OneCorePerTask'
    OBVIOUS
  <1> USE DEF ChoiceInv, OneCorePerTask, Chosen
  <1>0. /\ numberOfTasks \in 0 .. NTasks
        /\ status \in [Tasks -> {Free, WAITING_TO_START, RUNNING, WAITING}]
        /\ currentTask \in [Cores -> Tasks \cup {NoTask}]
        /\ pc \in [Cores -> {"run", "spin", "scan", "save", "install", "mark",
                            "releaseToStart", "releaseToSwitch", "end",
                            "start", "switch", "return"}]
        /\ nextTask \in [Cores -> Tasks \cup {NoTask}]
        /\ \A c \in Cores : pc[c] \in Chosen => nextTask[c] \in Tasks
    BY DEF TypeInv, TypeOK, IndexInv
  <1>a. /\ ChoiceInv /\ OneCorePerTask
        /\ \A c, d \in Cores : pc[c] \in Critical /\ pc[d] \in Critical => c = d
    BY DEF TaskInv, LockInv
  <1>b. \A t \in Tasks : t \in Nat /\ t # NoTask
    BY DEF Tasks, NoTask
  <1> USE DEF Critical, Free, WAITING_TO_START, RUNNING, WAITING
  <1>1. CASE FindFreeIndex
    BY <1>0, <1>a, <1>1 DEF FindFreeIndex, taskVars, coreVars
  <1>2. CASE WriteStatus
    <2>1. bootIndex = numberOfTasks /\ status[bootIndex] = Free /\ bootIndex \in Tasks
      BY <1>2 DEF WriteStatus, Booting, TaskInv, TableInv, TypeInv, IndexInv
    <2> QED
      BY <1>0, <1>a, <1>b, <1>2, <2>1 DEF WriteStatus, coreVars
  <1>3. CASE WriteStack
    BY <1>0, <1>a, <1>3 DEF WriteStack, coreVars
  <1>4. CASE Publish
    BY <1>0, <1>a, <1>b, <1>4 DEF Publish, taskVars, coreVars
  <1>5. ASSUME NEW c \in Cores, Compute(c) PROVE ChoiceInv' /\ OneCorePerTask'
    BY <1>0, <1>a, <1>5 DEF Compute, taskVars, coreVars, bootVars
  <1>6. ASSUME NEW c \in Cores, Tick(c) PROVE ChoiceInv' /\ OneCorePerTask'
    BY <1>0, <1>a, <1>6 DEF Tick, taskVars, coreVars, bootVars
  <1>7. ASSUME NEW c \in Cores, SpinLock(c) PROVE ChoiceInv' /\ OneCorePerTask'
    BY <1>0, <1>a, <1>7 DEF SpinLock, taskVars, coreVars, bootVars
  <1>8. ASSUME NEW c \in Cores, FindNextTask(c) PROVE ChoiceInv' /\ OneCorePerTask'
    <2>1. PICK t \in Tasks : IsNext(t) /\ nextTask' = [nextTask EXCEPT ![c] = t]
      BY <1>8 DEF FindNextTask
    <2>2. t < numberOfTasks /\ status[t] \in {WAITING_TO_START, WAITING}
      BY <2>1 DEF IsNext, IsFirstNotStarted, IsLongestWaiting, NotStarted,
                  Waiting, Published
    <2> QED
      BY <1>0, <1>a, <1>8, <2>1, <2>2 DEF FindNextTask, coreVars, bootVars
  <1>9. ASSUME NEW c \in Cores, NothingToRun(c) PROVE ChoiceInv' /\ OneCorePerTask'
    BY <1>0, <1>a, <1>9 DEF NothingToRun, taskVars, coreVars, bootVars
  <1>10. ASSUME NEW c \in Cores, SaveLastTask(c) PROVE ChoiceInv' /\ OneCorePerTask'
    BY <1>0, <1>a, <1>b, <1>10 DEF SaveLastTask, coreVars, bootVars
  <1>11. ASSUME NEW c \in Cores, Install(c) PROVE ChoiceInv' /\ OneCorePerTask'
    BY <1>0, <1>a, <1>b, <1>11 DEF Install, bootVars
  <1>12. ASSUME NEW c \in Cores, MarkRunning(c) PROVE ChoiceInv' /\ OneCorePerTask'
    BY <1>0, <1>a, <1>b, <1>12 DEF MarkRunning, coreVars, bootVars
  <1>13. ASSUME NEW c \in Cores, SpinRelease(c) PROVE ChoiceInv' /\ OneCorePerTask'
    BY <1>0, <1>a, <1>13 DEF SpinRelease, After, taskVars, coreVars, bootVars
  <1>14. ASSUME NEW c \in Cores, NEW context, Enter(c, context),
                pc[c] \in {"start", "switch", "return"}
         PROVE  ChoiceInv' /\ OneCorePerTask'
    BY <1>0, <1>a, <1>14 DEF Enter, taskVars, coreVars, bootVars
  <1>15. CASE UNCHANGED vars
    BY <1>0, <1>a, <1>15 DEF vars, taskVars, coreVars, bootVars
  <1> QED
    BY <1>1, <1>2, <1>3, <1>4, <1>5, <1>6, <1>7, <1>8, <1>9, <1>10, <1>11,
       <1>12, <1>13, <1>14, <1>15
       DEF Next, CreateNewTask, SchedulerMain, StartTask, SwitchTask, Return

LEMMA TaskInvariant == Spec => [](TypeInv /\ LockInv /\ TaskInv)
  <1>1. TypeInv /\ LockInv /\ TaskInv /\ [Next]_vars => TaskInv'
    BY NextTableInv, NextChoiceInv DEF TaskInv
  <1> QED
    BY <1>1, InitTypeInv, NextTypeInv, InitLockInv, NextLockInv, InitTaskInv,
       PTL DEF Spec

(* No task is on two cores, and a task is marked RUNNING exactly while it  *)
(* is on one.                                                              *)
THEOREM NoTaskOnTwoCores == Spec => []OneCorePerTask
  <1>1. TaskInv => OneCorePerTask
    BY DEF TaskInv
  <1> QED
    BY <1>1, TaskInvariant, PTL

(* A task is started once: no step takes a status back. *)
THEOREM StatusCycle == Spec => Lifecycle
  <1> DEFINE Cycle ==
        \A t \in Tasks :
          status'[t] # status[t] =>
            <<status[t], status'[t]>> \in {<<Free, WAITING_TO_START>>,
                                          <<WAITING_TO_START, RUNNING>>,
                                          <<RUNNING, WAITING>>, <<WAITING, RUNNING>>}
  <1>1. ASSUME TypeInv, LockInv, TaskInv, [Next]_vars PROVE Cycle \/ UNCHANGED vars
    <2>0. status \in [Tasks -> {Free, WAITING_TO_START, RUNNING, WAITING}]
      BY <1>1 DEF TypeInv, TypeOK
    <2>1. CASE WriteStatus
      <3>1. bootIndex \in Tasks /\ status[bootIndex] = Free
        BY <1>1, <2>1 DEF WriteStatus, Booting, TaskInv, TableInv, TypeInv, IndexInv
      <3> QED
        BY <2>0, <2>1, <3>1 DEF WriteStatus
    <2>2. ASSUME NEW c \in Cores, SaveLastTask(c) PROVE Cycle
      <3>1. currentTask[c] # NoTask =>
              currentTask[c] \in Tasks /\ status[currentTask[c]] = RUNNING
        <4>1. currentTask[c] \in Tasks \cup {NoTask} /\ pc[c] = "save"
          BY <1>1, <2>2 DEF SaveLastTask, TypeInv, TypeOK
        <4> QED
          BY <1>1, <4>1 DEF TaskInv, OneCorePerTask
      <3> QED
        BY <2>0, <2>2, <3>1 DEF SaveLastTask
    <2>3. ASSUME NEW c \in Cores, MarkRunning(c) PROVE Cycle
      <3>1. /\ nextTask[c] \in Tasks
            /\ status[nextTask[c]] \in {WAITING_TO_START, WAITING}
        BY <1>1, <2>3 DEF MarkRunning, TaskInv, ChoiceInv, TypeInv, IndexInv, Chosen
      <3> QED
        BY <2>0, <2>3, <3>1 DEF MarkRunning
    <2>4. CASE UNCHANGED status
      BY <2>4
    <2> QED
      BY <1>1, <2>1, <2>2, <2>3, <2>4
         DEF Next, CreateNewTask, SchedulerMain, vars, taskVars, FindFreeIndex,
             WriteStack, Publish, Compute, Tick, SpinLock, FindNextTask,
             NothingToRun, Install, SpinRelease, StartTask, SwitchTask, Return,
             Enter
  <1>2. TypeInv /\ LockInv /\ TaskInv /\ [Next]_vars => [Cycle]_vars
    BY <1>1
  <1> QED
    BY <1>2, TaskInvariant, PTL DEF Spec, Lifecycle

-----------------------------------------------------------------------------
(* Contexts. *)

Holding == {"run", "spin", "scan", "save", "end", "return"}

Saved(t) == regs[t] = [owner |-> t, val |-> work[t]]

(* The one good copy of a context is on the core while the core is not     *)
(* past SaveLastTask, and in regs from there until SwitchTask.             *)
ContextInv ==
  /\ \A c \in Cores :
       /\ pc[c] \in Holding
            => /\ live[c].owner = currentTask[c]
               /\ currentTask[c] \in Tasks => live[c].val = work[currentTask[c]]
       /\ pc[c] \in {"releaseToSwitch", "switch"} => Saved(nextTask[c])
       /\ pc[c] \in {"releaseToStart", "start"}
            => regs[nextTask[c]].owner = nextTask[c] /\ work[nextTask[c]] = 0
  /\ \A t \in Tasks :
       /\ status[t] = WAITING => Saved(t)
       /\ status[t] = WAITING_TO_START => regs[t].owner = t
       /\ status[t] \in {Free, WAITING_TO_START} => work[t] = 0

LEMMA InitContextInv == Init => ContextInv
  BY DEF Init, ContextInv, Holding, NoTask, Tasks, Free, WAITING,
         WAITING_TO_START

LEMMA NextContextInv ==
  TypeInv /\ LockInv /\ TaskInv /\ ContextInv /\ [Next]_vars => ContextInv'
  <1> SUFFICES ASSUME TypeInv, LockInv, TaskInv, ContextInv, [Next]_vars
               PROVE  ContextInv'
    OBVIOUS
  <1> USE DEF ContextInv, Saved, Holding
  <1>0. /\ status \in [Tasks -> {Free, WAITING_TO_START, RUNNING, WAITING}]
        /\ currentTask \in [Cores -> Tasks \cup {NoTask}]
        /\ pc \in [Cores -> {"run", "spin", "scan", "save", "install", "mark",
                            "releaseToStart", "releaseToSwitch", "end",
                            "start", "switch", "return"}]
        /\ nextTask \in [Cores -> Tasks \cup {NoTask}]
        /\ regs \in [Tasks -> Context]
        /\ live \in [Cores -> Context]
        /\ work \in [Tasks -> 0 .. Work - 1]
        /\ \A c \in Cores : pc[c] \in Chosen => nextTask[c] \in Tasks
    BY DEF TypeInv, TypeOK, IndexInv
  <1>a. ChoiceInv /\ OneCorePerTask
    BY DEF TaskInv
  <1>b. NoTask \notin Tasks
    BY DEF Tasks, NoTask
  (* A task that some core has from MarkRunning on is RUNNING. *)
  <1>c. \A c \in Cores : currentTask[c] \in Tasks /\ pc[c] \notin {"install", "mark"}
                         => status[currentTask[c]] = RUNNING
    BY <1>a DEF OneCorePerTask
  <1>d. \A c \in Cores : pc[c] \in {"releaseToStart", "releaseToSwitch", "start",
                                   "switch"} => currentTask[c] = nextTask[c]
    BY <1>a DEF ChoiceInv, Chosen
  <1> USE DEF Chosen, Free, WAITING_TO_START, RUNNING, WAITING
  <1>1. CASE FindFreeIndex
    BY <1>0, <1>1 DEF FindFreeIndex, taskVars, coreVars
  <1>2. CASE WriteStatus
    <2>1. bootIndex \in Tasks /\ status[bootIndex] = Free
      BY <1>2 DEF WriteStatus, Booting, TaskInv, TableInv, TypeInv, IndexInv
    <2>2. \A c \in Cores : pc[c] \in {"releaseToStart", "releaseToSwitch", "start",
                                     "switch"} => nextTask[c] # bootIndex
      BY <1>0, <1>c, <1>d, <2>1
    <2>3. \A t \in Tasks : t # bootIndex => regs'[t] = regs[t] /\ status'[t] = status[t]
      BY <1>0, <1>2 DEF WriteStatus
    <2>4. regs'[bootIndex].owner = bootIndex /\ status'[bootIndex] = WAITING_TO_START
      BY <1>0, <1>2, <2>1 DEF WriteStatus
    <2>5. UNCHANGED <<pc, live, nextTask, currentTask, work>>
      BY <1>2 DEF WriteStatus, coreVars
    <2> QED
      BY <1>0, <2>1, <2>2, <2>3, <2>4, <2>5
  <1>3. CASE WriteStack
    BY <1>0, <1>3 DEF WriteStack, coreVars
  <1>4. CASE Publish
    BY <1>0, <1>4 DEF Publish, taskVars, coreVars
  <1>5. ASSUME NEW c \in Cores, Compute(c) PROVE ContextInv'
    <2> DEFINE t == live[c].owner
    <2>1. t \in Tasks /\ currentTask[c] = t /\ status[t] = RUNNING
      <3>1. pc[c] = "run" /\ t \in Tasks
        BY <1>5 DEF Compute
      <3>2. currentTask[c] = t
        BY <3>1
      <3> QED
        BY <1>c, <3>1, <3>2
    <2>2. \A d \in Cores : d # c => live'[d] = live[d] /\ currentTask[d] # t
      BY <1>0, <1>5, <1>a, <1>b, <2>1 DEF Compute, OneCorePerTask
    <2>3. live'[c].owner = t /\ live'[c].val = work'[t]
      <3>0. pc[c] = "run"
        BY <1>5 DEF Compute
      <3>1. live[c].val = work[t]
        <4>1. currentTask[c] \in Tasks => live[c].val = work[currentTask[c]]
          BY <3>0
        <4> QED
          BY <2>1, <4>1
      <3>2. live'[c] = [owner |-> t, val |-> Advance(live[c].val)]
        <4>1. live' = [live EXCEPT ![c] = [owner |-> t, val |-> Advance(live[c].val)]]
          BY <1>5 DEF Compute
        <4>2. live \in [Cores -> Context]
          BY <1>0
        <4> HIDE DEF t, ContextInv
        <4> QED
          BY <4>1, <4>2
      <3>3. work'[t] = Advance(work[t])
        BY <1>0, <1>5, <2>1 DEF Compute
      <3> QED
        BY <3>1, <3>2, <3>3
    <2>4. \A u \in Tasks : u # t => work'[u] = work[u]
      BY <1>0, <1>5 DEF Compute
    <2>5. UNCHANGED <<pc, nextTask, currentTask, status, regs>> /\ pc[c] = "run"
      BY <1>5 DEF Compute, taskVars, coreVars
    <2>6. \A d \in Cores : pc[d] \in {"releaseToStart", "releaseToSwitch", "start",
                                     "switch"} => nextTask[d] # t
      BY <1>d, <2>1, <2>2, <2>5
    <2>7. \A u \in Tasks : status[u] # RUNNING => work'[u] = work[u]
      BY <2>1, <2>4
    <2> HIDE DEF t
    <2>8. ASSUME NEW d \in Cores, pc[d] \in Holding
          PROVE  /\ live'[d].owner = currentTask[d]
                 /\ currentTask[d] \in Tasks => live'[d].val = work'[currentTask[d]]
      <3>1. CASE d = c
        BY <2>1, <2>3, <3>1
      <3>2. CASE d # c
        BY <2>2, <2>4, <2>8, <3>2
      <3> QED
        BY <3>1, <3>2
    <2>9. \A d \in Cores :
            pc[d] \in {"releaseToStart", "releaseToSwitch", "start", "switch"}
              => work'[nextTask[d]] = work[nextTask[d]]
      BY <1>0, <2>4, <2>6
    <2> QED
      BY <2>5, <2>7, <2>8, <2>9
  <1>6. ASSUME NEW c \in Cores, Tick(c) PROVE ContextInv'
    BY <1>0, <1>6 DEF Tick, taskVars, coreVars
  <1>7. ASSUME NEW c \in Cores, SpinLock(c) PROVE ContextInv'
    BY <1>0, <1>7 DEF SpinLock, taskVars, coreVars
  <1>8. ASSUME NEW c \in Cores, FindNextTask(c) PROVE ContextInv'
    BY <1>0, <1>8 DEF FindNextTask, coreVars
  <1>9. ASSUME NEW c \in Cores, NothingToRun(c) PROVE ContextInv'
    BY <1>0, <1>9 DEF NothingToRun, taskVars, coreVars
  <1>10. ASSUME NEW c \in Cores, SaveLastTask(c) PROVE ContextInv'
    <2> DEFINE last == currentTask[c]
    <2>1. pc[c] = "save" /\ pc' = [pc EXCEPT ![c] = "install"]
          /\ UNCHANGED <<live, nextTask, currentTask, work>>
      BY <1>10 DEF SaveLastTask, coreVars
    <2>2. CASE last = NoTask
      BY <1>0, <1>10, <2>1, <2>2 DEF SaveLastTask
    <2>3. CASE last # NoTask
      <3>1. last \in Tasks
        BY <1>0, <2>3
      <3>2. regs' = [regs EXCEPT ![last] = live[c]]
            /\ status' = [status EXCEPT ![last] = WAITING]
        BY <1>10, <2>3 DEF SaveLastTask
      <3>3. live[c] = [owner |-> last, val |-> work[last]]
        <4>1. live[c] \in Context /\ live[c].owner = last /\ live[c].val = work[last]
          BY <1>0, <2>1, <3>1
        <4> QED
          BY <4>1 DEF Context
      <3>4. \A d \in Cores : pc[d] \in {"releaseToStart", "releaseToSwitch", "start",
                                       "switch"} => nextTask[d] # last
        BY <1>0, <1>a, <1>d, <2>1, <2>3 DEF OneCorePerTask
      <3> HIDE DEF last
      <3> QED
        BY <1>0, <2>1, <3>1, <3>2, <3>3, <3>4
    <2> QED
      BY <2>2, <2>3
  <1>11. ASSUME NEW c \in Cores, Install(c) PROVE ContextInv'
    BY <1>0, <1>11 DEF Install
  <1>12. ASSUME NEW c \in Cores, MarkRunning(c) PROVE ContextInv'
    BY <1>0, <1>a, <1>12 DEF MarkRunning, coreVars, ChoiceInv
  <1>13. ASSUME NEW c \in Cores, SpinRelease(c) PROVE ContextInv'
    BY <1>0, <1>13 DEF SpinRelease, After, taskVars, coreVars
  <1>14. ASSUME NEW c \in Cores, StartTask(c) PROVE ContextInv'
    BY <1>0, <1>d, <1>14 DEF StartTask, Enter, taskVars, coreVars
  <1>15. ASSUME NEW c \in Cores, SwitchTask(c) PROVE ContextInv'
    BY <1>0, <1>d, <1>15 DEF SwitchTask, Enter, taskVars, coreVars
  <1>16. ASSUME NEW c \in Cores, Return(c) PROVE ContextInv'
    BY <1>0, <1>16 DEF Return, Enter, taskVars, coreVars
  <1>17. CASE UNCHANGED vars
    BY <1>0, <1>17 DEF vars, taskVars, coreVars
  <1> QED
    BY <1>1, <1>2, <1>3, <1>4, <1>5, <1>6, <1>7, <1>8, <1>9, <1>10, <1>11,
       <1>12, <1>13, <1>14, <1>15, <1>16, <1>17
       DEF Next, CreateNewTask, SchedulerMain

LEMMA ContextInvImplies ==
  TypeInv /\ TaskInv /\ ContextInv => ContextIntact
  <1> SUFFICES ASSUME TypeInv, TaskInv, ContextInv, NEW t \in Published
               PROVE
        LET on == {c \in Cores : HasContext(c, t)}
            starting == \/ status[t] = WAITING_TO_START
                        \/ \E c \in Cores : /\ nextTask[c] = t
                                            /\ pc[c] \in {"releaseToStart", "start"}
        IN  IF on # {} THEN \E c \in Cores : on = {c} /\ live[c].val = work[t]
            ELSE IF starting THEN work[t] = 0
            ELSE regs[t] = [owner |-> t, val |-> work[t]]
    BY DEF ContextIntact
  <1> DEFINE on == {c \in Cores : HasContext(c, t)}
             starting == \/ status[t] = WAITING_TO_START
                         \/ \E c \in Cores : /\ nextTask[c] = t
                                             /\ pc[c] \in {"releaseToStart", "start"}
  <1>0. t \in Tasks /\ t < numberOfTasks /\ t # NoTask
    BY DEF Published, Tasks, NoTask
  <1>1. \A c \in Cores : HasContext(c, t) <=> pc[c] \in Holding /\ currentTask[c] = t
    BY DEF HasContext, ContextInv, Holding
  <1>2. CASE on # {}
    <2>1. PICK c \in Cores : HasContext(c, t)
      BY <1>2
    <2>2. \A d \in Cores : HasContext(d, t) => d = c
      BY <1>0, <1>1, <2>1 DEF TaskInv, OneCorePerTask
    <2>3. live[c].val = work[t]
      BY <1>0, <1>1, <2>1 DEF ContextInv
    <2> QED
      BY <1>2, <2>1, <2>2, <2>3
  <1>3. CASE on = {} /\ starting
    BY <1>0, <1>3 DEF ContextInv
  <1>4. CASE on = {} /\ ~starting
    <2>1. \A c \in Cores : ~(pc[c] \in Holding /\ currentTask[c] = t)
      BY <1>1, <1>4
    <2>2. status[t] \in {RUNNING, WAITING}
      BY <1>0, <1>4 DEF TaskInv, TableInv, TypeInv, TypeOK
    <2>3. CASE status[t] = WAITING
      BY <1>0, <1>4, <2>3 DEF ContextInv, Saved
    <2>4. CASE status[t] = RUNNING
      <3>1. PICK c \in Cores : currentTask[c] = t /\ pc[c] \notin {"install", "mark"}
        BY <1>0, <2>4 DEF TaskInv, OneCorePerTask
      <3>2. pc[c] \in {"releaseToStart", "releaseToSwitch", "start", "switch"}
        BY <2>1, <3>1 DEF TypeInv, TypeOK, Holding
      <3>3. nextTask[c] = t
        BY <3>1, <3>2 DEF TaskInv, ChoiceInv, Chosen
      <3>4. pc[c] \in {"releaseToSwitch", "switch"}
        BY <1>4, <3>2, <3>3
      <3> QED
        BY <1>4, <3>3, <3>4 DEF ContextInv, Saved
    <2> QED
      BY <1>4, <2>2, <2>3, <2>4
  <1> QED
    BY <1>2, <1>3, <1>4

(* Preemption loses no task's registers: there is always exactly one good  *)
(* copy of the context of every task that was created.                     *)
THEOREM ContextsSurvive == Spec => []ContextIntact
  BY TaskInvariant, InitContextInv, NextContextInv, ContextInvImplies, PTL
     DEF Spec

-----------------------------------------------------------------------------
(* Address spaces and kernel stacks. *)

(* Install changes the current task, the address space and the stack of    *)
(* the TSS together; the last only on a machine with one or two cores.     *)
SpaceInv == \A c \in Cores : cr3[c] = currentTask[c]
TssInv   == \A c \in Cores :
              currentTask[c] \in Tasks
                => rsp0[TaskRegister(c)] = KernelStack(currentTask[c])

LEMMA InitSpaceInv == Init => SpaceInv /\ TssInv
  BY DEF Init, SpaceInv, TssInv, Tasks, NoTask

LEMMA NextSpaceInv == TypeInv /\ SpaceInv /\ [Next]_vars => SpaceInv'
  <1> SUFFICES ASSUME TypeInv, SpaceInv, [Next]_vars PROVE SpaceInv'
    OBVIOUS
  <1>1. ASSUME NEW c \in Cores, Install(c) PROVE SpaceInv'
    BY <1>1 DEF Install, SpaceInv, TypeInv, TypeOK
  <1>2. CASE UNCHANGED coreVars
    BY <1>2 DEF coreVars, SpaceInv
  <1> QED
    BY <1>1, <1>2
       DEF Next, CreateNewTask, SchedulerMain, vars, FindFreeIndex, WriteStatus,
           WriteStack, Publish, Compute, Tick, SpinLock, FindNextTask,
           NothingToRun, SaveLastTask, MarkRunning, SpinRelease, StartTask,
           SwitchTask, Return, Enter

LEMMA NextTssInv ==
  ASSUME NCores <= 2
  PROVE  TypeInv /\ TaskInv /\ TssInv /\ [Next]_vars => TssInv'
  <1> SUFFICES ASSUME TypeInv, TaskInv, TssInv, [Next]_vars PROVE TssInv'
    OBVIOUS
  <1>1. ASSUME NEW c \in Cores, Install(c) PROVE TssInv'
    <2> DEFINE t == nextTask[c]
    <2>1. /\ t \in Tasks /\ t < numberOfTasks
          /\ currentTask' = [currentTask EXCEPT ![c] = t]
          /\ SetKernelStack(c, kernelStack[t])
      BY <1>1 DEF Install, TypeInv, IndexInv, TaskInv, ChoiceInv, Chosen
    <2>2. kernelStack[t] = KernelStack(t)
      BY <2>1 DEF TaskInv, TableInv
    <2>3. rsp0' = [i \in 0 .. 2 * NCores |-> IF i \in {c, 2 * c} THEN KernelStack(t)
                                                             ELSE rsp0[i]]
      BY <2>1, <2>2 DEF SetKernelStack, TypeInv, TypeOK
    <2>4. \A d \in Cores : TaskRegister(d) \in 0 .. 2 * NCores
      BY DEF TaskRegister, Cores
    <2>5. \A d \in Cores : TaskRegister(d) \in {c, 2 * c} <=> d = c
      BY DEF TaskRegister, Cores
    <2>6. currentTask'[c] = t /\ \A d \in Cores \ {c} : currentTask'[d] = currentTask[d]
      BY <2>1 DEF TypeInv, TypeOK
    <2> HIDE DEF t
    <2> QED
      BY <2>3, <2>4, <2>5, <2>6 DEF TssInv
  <1>2. CASE UNCHANGED coreVars
    BY <1>2 DEF coreVars, TssInv
  <1> QED
    BY <1>1, <1>2
       DEF Next, CreateNewTask, SchedulerMain, vars, FindFreeIndex, WriteStatus,
           WriteStack, Publish, Compute, Tick, SpinLock, FindNextTask,
           NothingToRun, SaveLastTask, MarkRunning, SpinRelease, StartTask,
           SwitchTask, Return, Enter

(* The task a core executes is its currentTask, in its own address space.  *)
THEOREM AddressSpaces == Spec => []OwnAddressSpace
  <1>1. SpaceInv /\ ContextInv => OwnAddressSpace
    BY DEF SpaceInv, ContextInv, OwnAddressSpace, Holding
  <1> QED
    BY <1>1, InitTypeInv, NextTypeInv, InitSpaceInv, NextSpaceInv,
       TaskInvariant, InitContextInv, NextContextInv, PTL DEF Spec

(* With at most two cores the double index of setKernelStack does no harm: *)
(* an interrupt of a ring-3 task finds that task's kernel stack.           *)
THEOREM KernelStacks == ASSUME NCores <= 2 PROVE Spec => []OwnKernelStack
  <1>1. TssInv /\ ContextInv => OwnKernelStack
    BY DEF TssInv, ContextInv, OwnKernelStack, Holding
  <1>2. TypeInv /\ TaskInv /\ TssInv /\ [Next]_vars => TssInv'
    BY NextTssInv
  <1> QED
    BY <1>1, <1>2, InitSpaceInv, TaskInvariant, InitContextInv,
       NextContextInv, PTL DEF Spec

-----------------------------------------------------------------------------
(* The order in which tasks start. *)

Started == {RUNNING, WAITING}

(* A task after one that never ran never ran either, and while a core is   *)
(* about to start a task, all older tasks have started.                    *)
OrderInv ==
  /\ \A t, u \in Tasks :
       t < u /\ u < numberOfTasks /\ status[t] = WAITING_TO_START
         => status[u] = WAITING_TO_START
  /\ \A c \in Cores : \A t \in Tasks :
       (/\ pc[c] \in {"save", "install", "mark"}
        /\ status[nextTask[c]] = WAITING_TO_START
        /\ t < nextTask[c])
         => status[t] \in Started

LEMMA InitOrderInv == Init => OrderInv
  BY DEF Init, OrderInv, Tasks

LEMMA NextOrderInv ==
  TypeInv /\ LockInv /\ TaskInv /\ OrderInv /\ [Next]_vars => OrderInv'
  <1> SUFFICES ASSUME TypeInv, LockInv, TaskInv, OrderInv, [Next]_vars
               PROVE  OrderInv'
    OBVIOUS
  <1>0. /\ numberOfTasks \in 0 .. NTasks
        /\ status \in [Tasks -> {Free, WAITING_TO_START, RUNNING, WAITING}]
        /\ pc \in [Cores -> {"run", "spin", "scan", "save", "install", "mark",
                            "releaseToStart", "releaseToSwitch", "end",
                            "start", "switch", "return"}]
        /\ nextTask \in [Cores -> Tasks \cup {NoTask}]
        /\ \A t \in Tasks : t \in Nat
    BY DEF TypeInv, TypeOK, Tasks
  <1>a. \A c \in Cores : pc[c] \in {"save", "install", "mark"}
                         => nextTask[c] < numberOfTasks /\ nextTask[c] \in Tasks
    BY DEF TaskInv, ChoiceInv, Chosen, TypeInv, IndexInv
  <1>b. \A t \in Tasks :
          /\ t < numberOfTasks => status[t] # Free
          /\ t = numberOfTasks /\ bootPc = "publish" => status[t] = WAITING_TO_START
    BY DEF TaskInv, TableInv
  <1>e. \A c, d \in Cores : pc[c] \in Critical /\ pc[d] \in Critical => c = d
    BY DEF LockInv
  <1> USE DEF OrderInv, Started, Free, WAITING_TO_START, RUNNING, WAITING
  <1>1. CASE UNCHANGED <<status, numberOfTasks, nextTask>>
             /\ \A c \in Cores : pc'[c] \in {"save", "install", "mark"}
                                 => pc[c] \in {"save", "install", "mark"}
    BY <1>0, <1>1
  <1>2. CASE WriteStatus
    <2>1. bootIndex = numberOfTasks /\ bootIndex \in Tasks
      BY <1>2 DEF WriteStatus, Booting, TaskInv, TableInv, TypeInv, IndexInv
    <2>2. UNCHANGED <<pc, nextTask, numberOfTasks>>
          /\ status' = [status EXCEPT ![bootIndex] = WAITING_TO_START]
      BY <1>2 DEF WriteStatus
    <2>3. \A t \in Tasks : t < numberOfTasks => status'[t] = status[t]
      BY <1>0, <2>1, <2>2
    <2>4. \A t, u \in Tasks : t < u /\ u < numberOfTasks => t < numberOfTasks
      BY <1>0
    <2> QED
      BY <1>0, <1>a, <2>2, <2>3, <2>4
  <1>3. CASE Publish
    <2>1. bootPc = "publish" /\ numberOfTasks' = numberOfTasks + 1
          /\ UNCHANGED <<status, pc, nextTask>>
      BY <1>3 DEF Publish, Booting, taskVars
    <2> QED
      BY <1>0, <1>b, <2>1
  <1>4. ASSUME NEW c \in Cores, FindNextTask(c) PROVE OrderInv'
    <2>1. PICK n \in Tasks : IsNext(n) /\ nextTask' = [nextTask EXCEPT ![c] = n]
      BY <1>4 DEF FindNextTask
    <2>2. pc' = [pc EXCEPT ![c] = "save"] /\ UNCHANGED <<status, numberOfTasks>>
      BY <1>4 DEF FindNextTask, bootVars
    <2>3. ASSUME status[n] = WAITING_TO_START, NEW t \in Tasks, t < n
          PROVE  status[t] \in Started
      <3>1. IsFirstNotStarted(n)
        BY <2>1, <2>3 DEF IsNext, IsLongestWaiting, Waiting
      <3>2. t < numberOfTasks /\ status[t] # WAITING_TO_START
        BY <1>0, <2>3, <3>1 DEF IsFirstNotStarted, NotStarted, Published
      <3>3. status[t] # Free /\ status[t] \in {Free, WAITING_TO_START, RUNNING, WAITING}
        BY <1>0, <1>b, <3>2
      <3> QED
        BY <3>2, <3>3
    <2> QED
      BY <1>0, <1>b, <2>1, <2>2, <2>3
  <1>5. ASSUME NEW c \in Cores, SaveLastTask(c) PROVE OrderInv'
    <2>1. currentTask[c] # NoTask =>
            currentTask[c] \in Tasks /\ status[currentTask[c]] = RUNNING
      <3>1. currentTask[c] \in Tasks \cup {NoTask} /\ pc[c] = "save"
        BY <1>5 DEF SaveLastTask, TypeInv, TypeOK
      <3> QED
        BY <3>1 DEF TaskInv, OneCorePerTask
    <2>2. \A t \in Tasks : status'[t] # status[t]
                            => status[t] = RUNNING /\ status'[t] = WAITING
      BY <1>0, <1>5, <2>1 DEF SaveLastTask
    <2>3. status' \in [Tasks -> {Free, WAITING_TO_START, RUNNING, WAITING}]
      BY <1>0, <1>5, <2>1 DEF SaveLastTask
    <2>4. UNCHANGED <<nextTask, numberOfTasks>>
          /\ \A d \in Cores : pc'[d] \in {"save", "install", "mark"}
                              => pc[d] \in {"save", "install", "mark"}
      BY <1>0, <1>5 DEF SaveLastTask, bootVars
    <2> QED
      BY <1>0, <1>a, <2>2, <2>3, <2>4
  <1>6. ASSUME NEW c \in Cores, MarkRunning(c) PROVE OrderInv'
    <2> DEFINE n == nextTask[c]
    <2>1. n \in Tasks /\ n < numberOfTasks /\ pc[c] = "mark"
      BY <1>6 DEF MarkRunning, TaskInv, ChoiceInv, Chosen, TypeInv, IndexInv
    <2>2. status' = [status EXCEPT ![n] = RUNNING]
          /\ UNCHANGED <<numberOfTasks, nextTask>>
      BY <1>6 DEF MarkRunning, bootVars
    <2>3. \A d \in Cores : pc'[d] \notin {"save", "install", "mark"}
      BY <1>0, <1>6, <1>e, <2>1 DEF MarkRunning, Critical
    <2>4. \A t \in Tasks : t < n => status[t] # WAITING_TO_START
      <3>1. CASE status[n] = WAITING_TO_START
        BY <2>1, <3>1
      <3>2. CASE status[n] # WAITING_TO_START
        BY <2>1, <3>2
      <3> QED
        BY <3>1, <3>2
    <2> HIDE DEF n
    <2> QED
      BY <1>0, <2>1, <2>2, <2>3, <2>4
  <1> QED
    BY <1>0, <1>1, <1>2, <1>3, <1>4, <1>5, <1>6
       DEF Next, CreateNewTask, SchedulerMain, vars, taskVars, bootVars,
           FindFreeIndex, WriteStack, Compute, Tick, SpinLock, NothingToRun,
           Install, SpinRelease, After, StartTask, SwitchTask, Return, Enter

(* The handler never sees a half-written entry of the table, and tasks     *)
(* start in the order in which they were created.                          *)
THEOREM TasksStartInOrder == Spec => []StartOrder
  <1>1. TypeInv /\ TaskInv /\ OrderInv => StartOrder
    BY DEF OrderInv, TaskInv, TableInv, StartOrder, Published, TypeInv, TypeOK
  <1> QED
    BY <1>1, TaskInvariant, InitOrderInv, NextOrderInv, PTL DEF Spec
-----------------------------------------------------------------------------
(* The stacks of the handler. *)

Leaving == {"install", "mark", "releaseToStart", "releaseToSwitch"}

(* A core stays on the stack of what it interrupted until it enters the    *)
(* next context; meanwhile, once the interrupted task is saved, the task   *)
(* waits, for the lock keeps every other core from choosing it.            *)
HomeStack(c) == IF live[c].owner \notin Tasks THEN BootStack(c)
                ELSE IF live[c].owner \in KernelTasks THEN OwnStack(live[c].owner)
                ELSE KernelStack(live[c].owner)

TrapInv ==
  \A c \in Cores :
    /\ pc[c] \notin {"run", "start", "switch"} => sp[c] = HomeStack(c)
    /\ pc[c] \in Leaving /\ live[c].owner \in Tasks
         => status[live[c].owner] = WAITING /\ live[c].owner # nextTask[c]

LEMMA InitTrapInv == Init => TrapInv
  BY DEF Init, TrapInv, Leaving

LEMMA NextTrapInv ==
  ASSUME NCores <= 2
  PROVE  /\ TypeInv /\ LockInv /\ TaskInv /\ ContextInv /\ TssInv /\ TrapInv
         /\ [Next]_vars
         => TrapInv'
  <1> SUFFICES ASSUME TypeInv, LockInv, TaskInv, ContextInv, TssInv, TrapInv,
                      [Next]_vars
               PROVE  TrapInv'
    OBVIOUS
  <1>0. /\ status \in [Tasks -> {Free, WAITING_TO_START, RUNNING, WAITING}]
        /\ currentTask \in [Cores -> Tasks \cup {NoTask}]
        /\ pc \in [Cores -> {"run", "spin", "scan", "save", "install", "mark",
                            "releaseToStart", "releaseToSwitch", "end",
                            "start", "switch", "return"}]
        /\ nextTask \in [Cores -> Tasks \cup {NoTask}]
        /\ live \in [Cores -> Context]
        /\ sp \in [Cores -> Stack]
    BY DEF TypeInv, TypeOK
  <1>a. \A c \in Cores : live[c].owner \in Tasks \cup {NoTask}
    BY <1>0 DEF Context
  <1>b. NoTask \notin Tasks
    BY DEF NoTask, Tasks
  <1>c. \A c \in Cores : pc[c] \in Holding => live[c].owner = currentTask[c]
    BY DEF ContextInv
  <1>d. \A c, d \in Cores : pc[c] \in Critical /\ pc[d] \in Critical => c = d
    BY DEF LockInv
  <1> USE DEF TrapInv, HomeStack, Leaving
  (* Nothing the invariant reads changes, but for cores that go on. *)
  <1>1. ASSUME UNCHANGED <<live, sp, status, nextTask>>,
               \A c \in Cores :
                 /\ pc[c] \in {"run", "start", "switch"}
                      => pc'[c] \in {"run", "start", "switch"}
                 /\ pc'[c] \in Leaving => pc[c] \in Leaving
        PROVE  TrapInv'
    BY <1>1
  <1>2. CASE WriteStatus
    <2>1. bootIndex \in Tasks /\ status[bootIndex] = Free
      BY <1>2 DEF WriteStatus, Booting, TaskInv, TableInv, TypeInv, IndexInv
    <2>2. \A t \in Tasks : status[t] = WAITING => status'[t] = WAITING
      BY <1>0, <1>2, <2>1 DEF WriteStatus, Free, WAITING
    <2>3. UNCHANGED <<live, sp, nextTask, pc>>
      BY <1>2 DEF WriteStatus
    <2> QED
      BY <2>2, <2>3
  <1>3. ASSUME NEW c \in Cores, Compute(c) PROVE TrapInv'
    <2>1. /\ pc[c] = "run" /\ UNCHANGED <<sp, status, nextTask, pc>>
          /\ \A d \in Cores : pc[d] # "run" => live'[d] = live[d]
      BY <1>0, <1>3 DEF Compute, taskVars
    <2> QED
      BY <2>1
  <1>4. ASSUME NEW c \in Cores, Tick(c) PROVE TrapInv'
    <2>1. /\ pc[c] = "run" /\ pc' = [pc EXCEPT ![c] = "spin"]
          /\ sp' = [sp EXCEPT ![c] = TrapStack(c)]
          /\ UNCHANGED <<live, status, nextTask>>
      BY <1>4 DEF Tick, taskVars
    <2>2. TrapStack(c) = HomeStack(c)
      BY <1>a, <1>b, <1>c, <2>1 DEF TrapStack, TssInv, Holding
    <2> QED
      BY <1>0, <2>1, <2>2
  <1>5. ASSUME NEW c \in Cores, FindNextTask(c) PROVE TrapInv'
    <2>1. /\ pc[c] = "scan" /\ pc' = [pc EXCEPT ![c] = "save"]
          /\ UNCHANGED <<live, sp, status>>
          /\ \A d \in Cores : d # c => nextTask'[d] = nextTask[d]
      BY <1>0, <1>5 DEF FindNextTask
    <2> QED
      BY <1>0, <2>1
  <1>6. ASSUME NEW c \in Cores, SaveLastTask(c) PROVE TrapInv'
    <2>1. /\ pc[c] = "save" /\ pc' = [pc EXCEPT ![c] = "install"]
          /\ UNCHANGED <<live, sp, nextTask>>
          /\ status' = IF currentTask[c] # NoTask
                       THEN [status EXCEPT ![currentTask[c]] = WAITING] ELSE status
      BY <1>6 DEF SaveLastTask
    <2>2. live[c].owner = currentTask[c]
      BY <1>c, <2>1 DEF Holding
    <2>3. live[c].owner \in Tasks => status'[live[c].owner] = WAITING
      BY <1>0, <1>b, <2>1, <2>2
    <2>4. \A t \in Tasks : status[t] = WAITING => status'[t] = WAITING
      BY <1>0, <2>1
    <2>5. live[c].owner \in Tasks => live[c].owner # nextTask[c]
      <3>1. currentTask[c] \in Tasks => status[currentTask[c]] = RUNNING
        BY <2>1 DEF TaskInv, OneCorePerTask
      <3>2. status[nextTask[c]] # RUNNING
        BY <2>1 DEF TaskInv, ChoiceInv, RUNNING, WAITING, WAITING_TO_START
      <3> QED
        BY <2>2, <3>1, <3>2
    <2> QED
      BY <1>0, <2>1, <2>3, <2>4, <2>5
  <1>7. ASSUME NEW c \in Cores, MarkRunning(c) PROVE TrapInv'
    <2>1. /\ pc[c] = "mark" /\ UNCHANGED <<live, sp, nextTask>>
          /\ status' = [status EXCEPT ![nextTask[c]] = RUNNING]
          /\ \A d \in Cores : d # c => pc'[d] = pc[d]
      BY <1>0, <1>7 DEF MarkRunning
    <2>2. pc'[c] \in Leaving
      BY <1>0, <1>7 DEF MarkRunning
    <2>3. \A d \in Cores : pc'[d] \in Leaving => d = c
      BY <1>d, <2>1 DEF Critical
    <2>4. live[c].owner \in Tasks =>
            status'[live[c].owner] = WAITING /\ live[c].owner # nextTask[c]
      BY <1>0, <2>1
    <2>5. \A d \in Cores : pc'[d] \notin {"run", "start", "switch"}
                           => pc[d] \notin {"run", "start", "switch"}
      BY <2>1
    <2> QED
      BY <2>1, <2>3, <2>4, <2>5
  <1>8. ASSUME NEW c \in Cores, SpinRelease(c) PROVE TrapInv'
    <2>1. /\ UNCHANGED <<live, sp, status, nextTask>>
          /\ \A d \in Cores : d # c => pc'[d] = pc[d]
          /\ pc[c] \in {"releaseToStart", "releaseToSwitch", "end"}
          /\ pc'[c] \in {"start", "switch", "return"}
      BY <1>0, <1>8 DEF SpinRelease, After, taskVars
    <2> QED
      BY <2>1
  <1>9. ASSUME NEW c \in Cores, NEW context, Enter(c, context) PROVE TrapInv'
    <2>1. /\ pc'[c] = "run" /\ UNCHANGED status
          /\ \A d \in Cores : d # c => /\ pc'[d] = pc[d] /\ live'[d] = live[d]
                                       /\ sp'[d] = sp[d]
                                       /\ nextTask'[d] = nextTask[d]
      BY <1>0, <1>9 DEF Enter, taskVars
    <2> QED
      BY <2>1
  <1>10. ASSUME NEW c \in Cores, SpinLock(c) PROVE TrapInv'
    BY <1>0, <1>1, <1>10 DEF SpinLock, taskVars
  <1>11. ASSUME NEW c \in Cores, NothingToRun(c) PROVE TrapInv'
    BY <1>0, <1>1, <1>11 DEF NothingToRun, taskVars
  <1>12. ASSUME NEW c \in Cores, Install(c) PROVE TrapInv'
    BY <1>0, <1>1, <1>12 DEF Install
  <1>13. CASE UNCHANGED <<live, sp, status, nextTask, pc>>
    BY <1>1, <1>13
  <1> QED
    BY <1>2, <1>3, <1>4, <1>5, <1>6, <1>7, <1>8, <1>9, <1>10, <1>11, <1>12, <1>13
       DEF Next, CreateNewTask, SchedulerMain, vars, taskVars, FindFreeIndex,
           WriteStack, Publish, StartTask, SwitchTask, Return

(* Stacks differ when their owners do. *)
LEMMA HomesDiffer ==
  ASSUME NEW c \in Cores, NEW d \in Cores, c # d, HomeStack(c) = HomeStack(d)
  PROVE  live[c].owner \in Tasks /\ live[c].owner = live[d].owner
  BY DEF HomeStack, KernelStack, OwnStack, BootStack

LEMMA TrapInvImplies ==
  TypeInv /\ LockInv /\ TaskInv /\ ContextInv /\ TrapInv => StackShared
  <1> SUFFICES ASSUME TypeInv, LockInv, TaskInv, ContextInv, TrapInv,
                      NEW c \in Cores, NEW d \in Cores, c # d,
                      pc[c] \notin {"run", "start", "switch"},
                      pc[d] \notin {"run", "start", "switch"}, sp[c] = sp[d]
               PROVE  FALSE
    BY DEF StackShared
  <1> DEFINE t == live[c].owner
  <1>1. t \in Tasks /\ live[d].owner = t
    BY HomesDiffer DEF TrapInv
  <1>2. \A e \in {c, d} : pc[e] \in Leaving \/ pc[e] \in Holding
    BY DEF TypeInv, TypeOK, Leaving, Holding
  <1>3. \A e \in {c, d} : pc[e] \in Leaving => status[t] = WAITING
    BY <1>1 DEF TrapInv
  <1>4. \A e \in {c, d} : pc[e] \in Holding => currentTask[e] = t
    BY <1>1 DEF ContextInv
  <1>5. \A e \in {c, d} : pc[e] \in Holding => status[t] = RUNNING
    BY <1>1, <1>4 DEF TaskInv, OneCorePerTask, Holding
  <1>6. ~(pc[c] \in Leaving /\ pc[d] \in Leaving)
    BY DEF LockInv, Critical, Leaving
  <1>7. pc[c] \in Holding /\ pc[d] \in Holding
    BY <1>2, <1>3, <1>5, <1>6 DEF RUNNING, WAITING
  <1>8. currentTask[c] = currentTask[d] /\ currentTask[c] # NoTask
    BY <1>1, <1>4, <1>7 DEF NoTask, Tasks
  <1> QED
    BY <1>8 DEF TaskInv, OneCorePerTask

(* With at most two cores two handlers are on one stack only when one of   *)
(* them has released the lock and is about to leave it.                    *)
THEOREM HandlerStacks == ASSUME NCores <= 2 PROVE Spec => []StackShared
  <1>1. TypeInv /\ TaskInv /\ TssInv /\ [Next]_vars => TssInv'
    BY NextTssInv
  <1>2. /\ TypeInv /\ LockInv /\ TaskInv /\ ContextInv /\ TssInv /\ TrapInv
        /\ [Next]_vars
        => TrapInv'
    BY NextTrapInv
  <1> QED
    BY <1>1, <1>2, InitSpaceInv, InitTrapInv, TaskInvariant, InitContextInv,
       NextContextInv, TrapInvImplies, PTL DEF Spec
-----------------------------------------------------------------------------
(* Bounded waiting. *)

Choosing == {"save", "install", "mark"}

Picked(t) == \E c \in Cores : pc[c] \in Choosing /\ nextTask[c] = t

(* The tasks that will not run again before t does: those that run, the    *)
(* one just chosen, and those that have waited less.                       *)
Behind(t) == {u \in Published \ {t} : \/ status[u] = RUNNING
                                      \/ Picked(u)
                                      \/ status[u] = WAITING /\ idleTime[u] < idleTime[t]}

(* Every time t is passed over, the task chosen instead of it joins        *)
(* Behind(t), and no task leaves that set while t waits: there t is passed *)
(* over less often than there are other tasks.                             *)
WaitInv ==
  /\ \A t \in Tasks : status[t] # WAITING => idleTime[t] = 0
  /\ \A t \in Tasks :
       status[t] = WAITING /\ ~Picked(t) => idleTime[t] < Cardinality(Behind(t))
  /\ \A t \in Tasks : Picked(t) => idleTime[t] < numberOfTasks
  /\ \A c \in Cores : pc[c] = "mark" => idleTime[nextTask[c]] = 0
  /\ \A c \in Cores : pc[c] = "save" =>
       \A t \in Tasks : status[t] = WAITING => idleTime[t] > 0

LEMMA PublishedSize ==
  ASSUME NEW n \in 0 .. NTasks
  PROVE  LET first == {t \in Tasks : t < n}
         IN  IsFiniteSet(first) /\ Cardinality(first) = n
  <1>1. {t \in Tasks : t < n} = 0 .. n - 1
    BY DEF Tasks
  <1>2. IsFiniteSet(0 .. n - 1) /\ Cardinality(0 .. n - 1) = n
    BY FS_Interval
  <1> QED
    BY <1>1, <1>2

LEMMA BehindSize ==
  ASSUME TypeInv, NEW t \in Published
  PROVE  /\ IsFiniteSet(Behind(t)) /\ Cardinality(Behind(t)) \in Nat
         /\ Cardinality(Behind(t)) < numberOfTasks
  <1>0. IsFiniteSet(Published) /\ Cardinality(Published) = numberOfTasks
    BY PublishedSize DEF Published, TypeInv, TypeOK
  <1>1. /\ IsFiniteSet(Published \ {t})
        /\ Cardinality(Published \ {t}) = numberOfTasks - 1
    BY <1>0, FS_RemoveElement
  <1>2. Behind(t) \subseteq Published \ {t}
    BY DEF Behind
  <1>3. /\ IsFiniteSet(Behind(t))
        /\ Cardinality(Behind(t)) <= Cardinality(Published \ {t})
    BY <1>1, <1>2, FS_Subset
  <1>4. Cardinality(Behind(t)) \in Nat /\ numberOfTasks \in Nat
    BY <1>3, FS_CardinalityType DEF TypeInv, TypeOK
  <1> QED
    BY <1>1, <1>3, <1>4

LEMMA InitWaitInv == Init => WaitInv
  BY DEF Init, WaitInv, Picked, Choosing, Free, WAITING
(* A task that gains company has waited no longer than its company allows. *)
LEMMA BehindGrows ==
  ASSUME TypeInv, TypeInv', NEW t \in Tasks, Behind(t) \subseteq Behind(t)'
  PROVE  /\ IsFiniteSet(Behind(t)) /\ Cardinality(Behind(t)) \in Nat
         /\ IsFiniteSet(Behind(t)') /\ Cardinality(Behind(t)') \in Nat
         /\ Cardinality(Behind(t)) <= Cardinality(Behind(t)')
         /\ \A u \in Behind(t)' \ Behind(t) :
              Cardinality(Behind(t)) + 1 <= Cardinality(Behind(t)')
  <1>1. IsFiniteSet(Published')
    BY PublishedSize DEF Published, TypeInv, TypeOK
  <1>2. Behind(t)' \subseteq Published'
    BY DEF Behind
  <1>3. IsFiniteSet(Behind(t)')
    BY <1>1, <1>2, FS_Subset
  <1>4. IsFiniteSet(Behind(t)) /\ Cardinality(Behind(t)) <= Cardinality(Behind(t)')
    BY <1>3, FS_Subset
  <1>5. Cardinality(Behind(t)) \in Nat /\ Cardinality(Behind(t)') \in Nat
    BY <1>3, <1>4, FS_CardinalityType
  <1>6. ASSUME NEW u \in Behind(t)' \ Behind(t)
        PROVE  Cardinality(Behind(t)) + 1 <= Cardinality(Behind(t)')
    <2>1. /\ IsFiniteSet(Behind(t) \cup {u})
          /\ Cardinality(Behind(t) \cup {u}) = Cardinality(Behind(t)) + 1
      BY <1>4, FS_AddElement
    <2>2. (Behind(t) \cup {u}) \subseteq Behind(t)'
      OBVIOUS
    <2> QED
      BY <1>3, <2>1, <2>2, FS_Subset
  <1> QED
    BY <1>3, <1>4, <1>5, <1>6

LEMMA NextWaitInv ==
  /\ TypeInv /\ LockInv /\ TaskInv /\ OrderInv /\ WaitInv
  /\ TypeInv' /\ [Next]_vars
  => WaitInv'
  <1> SUFFICES ASSUME TypeInv, LockInv, TaskInv, OrderInv, WaitInv,
                      TypeInv', [Next]_vars
               PROVE  WaitInv'
    OBVIOUS
  <1>0. /\ numberOfTasks \in 0 .. NTasks
        /\ status \in [Tasks -> {Free, WAITING_TO_START, RUNNING, WAITING}]
        /\ idleTime \in [Tasks -> Nat]
        /\ currentTask \in [Cores -> Tasks \cup {NoTask}]
        /\ pc \in [Cores -> {"run", "spin", "scan", "save", "install", "mark",
                            "releaseToStart", "releaseToSwitch", "end",
                            "start", "switch", "return"}]
        /\ nextTask \in [Cores -> Tasks \cup {NoTask}]
    BY DEF TypeInv, TypeOK
  <1>n. \A t \in Tasks : t \in Nat
    BY DEF Tasks
  <1>a. \A c \in Cores : pc[c] \in Choosing =>
          /\ nextTask[c] < numberOfTasks /\ nextTask[c] \in Tasks
          /\ status[nextTask[c]] \in {WAITING_TO_START, WAITING}
    BY DEF TaskInv, ChoiceInv, Chosen, TypeInv, IndexInv, Choosing
  <1>b. \A t \in Tasks : status[t] = WAITING => t < numberOfTasks
    <2>1. \A t \in Tasks : t < numberOfTasks \/ t = numberOfTasks \/ t > numberOfTasks
      BY <1>0, <1>n
    <2> QED
      BY <2>1 DEF TaskInv, TableInv, Free, WAITING, WAITING_TO_START
  <1>c. \A c, d \in Cores : pc[c] \in Critical /\ pc[d] \in Choosing => c = d
    BY DEF LockInv, Critical, Choosing
  <1>d. \A t \in Tasks : Picked(t) => t < numberOfTasks
    BY <1>a DEF Picked
  <1> USE DEF WaitInv
  (* Nothing the invariant reads changes but who is in Behind(t). *)
  <1>1. ASSUME UNCHANGED <<idleTime, status, nextTask>>, numberOfTasks' >= numberOfTasks,
               \A t \in Tasks : Picked(t)' <=> Picked(t),
               \A c \in Cores : /\ pc'[c] = "mark" => pc[c] = "mark"
                                /\ pc'[c] = "save" => pc[c] = "save"
        PROVE  WaitInv'
    <2>0. numberOfTasks' \in Nat
      BY DEF TypeInv, TypeOK
    <2>1. ASSUME NEW t \in Tasks PROVE Behind(t) \subseteq Behind(t)'
      BY <1>0, <1>n, <1>1, <2>0 DEF Behind, Published
    <2>2. \A t \in Tasks : Cardinality(Behind(t)) \in Nat /\ Cardinality(Behind(t)') \in Nat
                           /\ Cardinality(Behind(t)) <= Cardinality(Behind(t)')
      BY <2>1, BehindGrows
    <2>3. ASSUME NEW t \in Tasks, status[t] = WAITING, ~Picked(t)
          PROVE  idleTime'[t] < Cardinality(Behind(t)')
      BY <1>0, <1>1, <2>2, <2>3
    <2>4. ASSUME NEW t \in Tasks, Picked(t) PROVE idleTime'[t] < numberOfTasks'
      BY <1>0, <1>1, <2>0, <2>4
    <2>5. UNCHANGED <<idleTime, status, nextTask>>
      BY <1>1
    <2>6. \A t \in Tasks : status'[t] = WAITING /\ ~Picked(t)'
                             => idleTime'[t] < Cardinality(Behind(t)')
      BY <1>1, <2>3
    <2>7. \A t \in Tasks : Picked(t)' => idleTime'[t] < numberOfTasks'
      BY <1>1, <2>4
    <2>8. \A c \in Cores : pc'[c] = "mark" => idleTime'[nextTask'[c]] = 0
      BY <1>1
    <2>9. \A c \in Cores : pc'[c] = "save" =>
            \A t \in Tasks : status'[t] = WAITING => idleTime'[t] > 0
      BY <1>1
    <2> QED
      BY <2>5, <2>6, <2>7, <2>8, <2>9
  <1>2. ASSUME NEW c \in Cores, UNCHANGED <<idleTime, status, numberOfTasks>>,
               \A d \in Cores \ {c} : pc'[d] = pc[d] /\ nextTask'[d] = nextTask[d],
               pc[c] \notin Choosing, pc'[c] \notin Choosing
        PROVE  WaitInv'
    <2>1. \A t \in Tasks : Picked(t)' <=> Picked(t)
      BY <1>2 DEF Picked
    <2>2. \A t \in Tasks : Behind(t)' = Behind(t)
      BY <1>2, <2>1 DEF Behind, Published
    <2>3. \A d \in Cores : pc'[d] \in {"save", "mark"} => d # c
      BY <1>2 DEF Choosing
    <2>4. \A d \in Cores : pc'[d] = "mark" => idleTime'[nextTask'[d]] = 0
      BY <1>2, <2>3
    <2>5. \A d \in Cores : pc'[d] = "save" =>
            \A t \in Tasks : status'[t] = WAITING => idleTime'[t] > 0
      BY <1>2, <2>3
    <2>6. \A t \in Tasks : status'[t] = WAITING /\ ~Picked(t)'
                             => idleTime'[t] < Cardinality(Behind(t)')
      BY <1>2, <2>1, <2>2
    <2>7. \A t \in Tasks : Picked(t)' => idleTime'[t] < numberOfTasks'
      BY <1>2, <2>1
    <2> QED
      BY <1>2, <2>4, <2>5, <2>6, <2>7
  (* createNewTask works on an entry that is not published. *)
  <1>3. ASSUME bootIndex \in Tasks, bootIndex = numberOfTasks,
               UNCHANGED <<pc, nextTask, numberOfTasks>>,
               \A t \in Tasks \ {bootIndex} : /\ status'[t] = status[t]
                                              /\ idleTime'[t] = idleTime[t],
               status'[bootIndex] # WAITING, idleTime'[bootIndex] = 0
        PROVE  WaitInv'
    <2>1. \A t \in Tasks : Picked(t)' <=> Picked(t)
      BY <1>3 DEF Picked
    <2>2. \A u \in Published : u \in Tasks \ {bootIndex}
      BY <1>0, <1>3 DEF Published
    <2>3. \A t \in Tasks \ {bootIndex} : Behind(t)' = Behind(t)
      BY <1>3, <2>1, <2>2 DEF Behind, Published
    <2>4. \A t \in Tasks : status'[t] = WAITING /\ ~Picked(t)'
                             => idleTime'[t] < Cardinality(Behind(t)')
      BY <1>3, <2>1, <2>3
    <2>5. \A t \in Tasks : Picked(t) => t # bootIndex
      BY <1>0, <1>3, <1>d
    <2>6. \A t \in Tasks : Picked(t)' => idleTime'[t] < numberOfTasks'
      BY <1>3, <2>1, <2>5
    <2>7. \A d \in Cores : pc[d] = "mark" => nextTask[d] \in Tasks \ {bootIndex}
      BY <1>0, <1>3, <1>a DEF Choosing
    <2>8. \A d \in Cores : pc'[d] = "mark" => idleTime'[nextTask'[d]] = 0
      BY <1>3, <2>7
    <2> QED
      BY <1>3, <2>4, <2>6, <2>8
  <1>4. CASE WriteStatus
    <2>1. /\ bootIndex = numberOfTasks /\ bootIndex \in Tasks
          /\ status[bootIndex] = Free
      BY <1>4 DEF WriteStatus, Booting, TaskInv, TableInv, TypeInv, IndexInv
    <2>2. idleTime[bootIndex] = 0
      BY <2>1 DEF Free, WAITING
    <2>3. /\ UNCHANGED <<pc, nextTask, numberOfTasks, idleTime>>
          /\ status' = [status EXCEPT ![bootIndex] = WAITING_TO_START]
      BY <1>4 DEF WriteStatus
    <2> QED
      BY <1>0, <1>3, <2>1, <2>2, <2>3 DEF WAITING, WAITING_TO_START
  <1>5. CASE WriteStack
    <2>1. /\ bootIndex = numberOfTasks /\ bootIndex \in Tasks
          /\ status[bootIndex] = WAITING_TO_START
      BY <1>5 DEF WriteStack, Booting, TaskInv, TableInv, TypeInv, IndexInv
    <2>2. /\ UNCHANGED <<pc, nextTask, numberOfTasks, status>>
          /\ idleTime' = [idleTime EXCEPT ![bootIndex] = 0]
      BY <1>5 DEF WriteStack
    <2> QED
      BY <1>0, <1>3, <2>1, <2>2 DEF WAITING, WAITING_TO_START
  <1>6. CASE Publish
    <2>1. UNCHANGED <<idleTime, status, nextTask, pc>> /\ numberOfTasks' = numberOfTasks + 1
      BY <1>6 DEF Publish, taskVars
    <2>2. \A t \in Tasks : Picked(t)' <=> Picked(t)
      BY <2>1 DEF Picked
    <2> QED
      BY <1>0, <1>1, <2>1, <2>2
  <1>7. CASE UNCHANGED <<idleTime, status, nextTask, pc, numberOfTasks>>
    <2>1. \A t \in Tasks : Picked(t)' <=> Picked(t)
      BY <1>7 DEF Picked
    <2> QED
      BY <1>0, <1>1, <1>7, <2>1
  <1>8. ASSUME NEW c \in Cores, Tick(c) PROVE WaitInv'
    BY <1>0, <1>2, <1>8 DEF Tick, taskVars, bootVars, Choosing
  <1>9. ASSUME NEW c \in Cores, SpinLock(c) PROVE WaitInv'
    BY <1>0, <1>2, <1>9 DEF SpinLock, taskVars, bootVars, Choosing
  <1>10. ASSUME NEW c \in Cores, NothingToRun(c) PROVE WaitInv'
    BY <1>0, <1>2, <1>10 DEF NothingToRun, taskVars, bootVars, Choosing
  <1>11. ASSUME NEW c \in Cores, SpinRelease(c) PROVE WaitInv'
    BY <1>0, <1>2, <1>11 DEF SpinRelease, After, taskVars, bootVars, Choosing
  <1>12. ASSUME NEW c \in Cores, NEW context, Enter(c, context),
                pc[c] \in {"start", "switch", "return"}
         PROVE  WaitInv'
    BY <1>0, <1>2, <1>12 DEF Enter, taskVars, bootVars, Choosing
  (* The task chosen joins the company of every task passed over. *)
  <1>13. ASSUME NEW c \in Cores, FindNextTask(c) PROVE WaitInv'
    <2>1. PICK n \in Tasks : IsNext(n) /\ nextTask' = [nextTask EXCEPT ![c] = n]
      BY <1>13 DEF FindNextTask
    <2>2. /\ pc[c] = "scan" /\ pc' = [pc EXCEPT ![c] = "save"]
          /\ UNCHANGED <<status, numberOfTasks>>
          /\ idleTime' = [t \in Tasks |-> IF t \in Scanned THEN idleTime[t] + 1
                                                           ELSE idleTime[t]]
      BY <1>13 DEF FindNextTask, bootVars
    <2>3. \A t \in Tasks : ~Picked(t)
      BY <1>c, <2>2 DEF Picked, Critical, Choosing
    <2>4. \A t \in Tasks : Picked(t)' <=> t = n
      <3>1. \A d \in Cores : pc'[d] \in Choosing <=> d = c
        BY <1>0, <1>c, <2>2 DEF Critical, Choosing
      <3>2. nextTask'[c] = n
        BY <1>0, <2>1
      <3> QED
        BY <3>1, <3>2 DEF Picked
    <2>5. n \in Published /\ status[n] \in {WAITING, WAITING_TO_START}
      BY <2>1 DEF IsNext, IsFirstNotStarted, IsLongestWaiting, NotStarted, Waiting
    <2>6. \A t \in Tasks : t \in Scanned <=> status[t] = WAITING
      <3>1. \A t \in Waiting, u \in NotStarted : t < u
        <4> SUFFICES ASSUME NEW t \in Waiting, NEW u \in NotStarted, ~(t < u)
                     PROVE  FALSE
          OBVIOUS
        <4>1. t # u
          BY DEF Waiting, NotStarted, WAITING, WAITING_TO_START
        <4>2. u < t /\ t < numberOfTasks
          BY <1>n, <4>1 DEF Waiting, NotStarted, Published
        <4> QED
          BY <4>2 DEF OrderInv, Waiting, NotStarted, Published, WAITING,
                      WAITING_TO_START
      <3> QED
        BY <1>b, <3>1 DEF Scanned, Waiting, Published
    <2>7. \A t \in Tasks : idleTime'[t] = IF status[t] = WAITING THEN idleTime[t] + 1
                                                                 ELSE idleTime[t]
      BY <2>2, <2>6
    <2>8. ASSUME NEW t \in Tasks, status[t] = WAITING, t # n
          PROVE  idleTime'[t] < Cardinality(Behind(t)')
      <3>1. Behind(t) \subseteq Behind(t)'
        BY <1>0, <2>2, <2>3, <2>7, <2>8 DEF Behind, Published, RUNNING, WAITING
      <3>2. n \in Behind(t)'
        BY <2>2, <2>4, <2>5, <2>8 DEF Behind, Published
      <3>3. n \notin Behind(t)
        <4>1. status[n] = WAITING => ~(idleTime[n] < idleTime[t])
          <5> SUFFICES ASSUME status[n] = WAITING PROVE ~(idleTime[n] < idleTime[t])
            OBVIOUS
          <5>1. t \in Waiting
            BY <1>b, <2>8 DEF Waiting, Published
          <5>2. IsLongestWaiting(n)
            BY <2>1 DEF IsNext, IsFirstNotStarted, NotStarted, WAITING, WAITING_TO_START
          <5>3. idleTime[t] \in Nat /\ idleTime[n] \in Nat
            BY <1>0
          <5> QED
            BY <5>1, <5>2, <5>3 DEF IsLongestWaiting
        <4> QED
          BY <2>3, <2>5, <4>1 DEF Behind, RUNNING, WAITING, WAITING_TO_START
      <3>4. Cardinality(Behind(t)) + 1 <= Cardinality(Behind(t)')
            /\ Cardinality(Behind(t)) \in Nat /\ Cardinality(Behind(t)') \in Nat
        BY <3>1, <3>2, <3>3, BehindGrows
      <3>5. idleTime[t] < Cardinality(Behind(t)) /\ idleTime'[t] = idleTime[t] + 1
        BY <2>3, <2>7, <2>8
      <3> QED
        BY <1>0, <3>4, <3>5
    <2>9. idleTime'[n] < numberOfTasks'
      <3>1. CASE status[n] = WAITING
        <4>1. idleTime[n] < Cardinality(Behind(n)) /\ idleTime'[n] = idleTime[n] + 1
          BY <2>3, <2>7, <3>1
        <4>2. /\ Cardinality(Behind(n)) \in Nat
              /\ Cardinality(Behind(n)) < numberOfTasks
          BY <2>5, BehindSize
        <4> QED
          BY <1>0, <2>2, <4>1, <4>2
      <3>2. CASE status[n] = WAITING_TO_START
        <4>1. idleTime'[n] = 0
          BY <2>7, <3>2 DEF WAITING, WAITING_TO_START
        <4> QED
          BY <1>0, <1>n, <2>2, <2>5, <4>1 DEF Published
      <3> QED
        BY <2>5, <3>1, <3>2
    <2>10. \A t \in Tasks : status'[t] # WAITING => idleTime'[t] = 0
      BY <2>2, <2>7
    <2>11. \A t \in Tasks : status'[t] = WAITING => idleTime'[t] > 0
      BY <1>0, <2>2, <2>7
    <2>12. \A d \in Cores : pc'[d] # "mark"
      BY <1>0, <1>c, <2>2 DEF Critical, Choosing
    <2>13. \A t \in Tasks : status'[t] = WAITING /\ ~Picked(t)'
                              => idleTime'[t] < Cardinality(Behind(t)')
      BY <2>2, <2>4, <2>8
    <2>14. \A t \in Tasks : Picked(t)' => idleTime'[t] < numberOfTasks'
      BY <2>4, <2>9
    <2> QED
      BY <2>10, <2>11, <2>12, <2>13, <2>14
  (* The task saved has waited less than all others, and starts behind the  *)
  (* task chosen.                                                           *)
  <1>14. ASSUME NEW c \in Cores, SaveLastTask(c) PROVE WaitInv'
    <2>1. /\ pc[c] = "save" /\ pc' = [pc EXCEPT ![c] = "install"]
          /\ UNCHANGED <<idleTime, nextTask, numberOfTasks>>
          /\ status' = IF currentTask[c] # NoTask
                       THEN [status EXCEPT ![currentTask[c]] = WAITING] ELSE status
      BY <1>14 DEF SaveLastTask, bootVars
    <2>2. \A t \in Tasks : Picked(t)' <=> Picked(t)
      BY <1>0, <2>1 DEF Picked, Choosing
    <2>3. \A d \in Cores : pc'[d] \notin {"save", "mark"}
      BY <1>0, <1>c, <2>1 DEF Critical, Choosing
    <2>4. CASE currentTask[c] = NoTask
      BY <1>0, <1>1, <2>1, <2>2, <2>3, <2>4
    <2>5. ASSUME NEW last \in Tasks, currentTask[c] = last PROVE WaitInv'
      <3>0. status[last] = RUNNING
        BY <2>1, <2>5 DEF TaskInv, OneCorePerTask
      <3>1. status[last] = RUNNING /\ idleTime[last] = 0
        BY <3>0 DEF RUNNING, WAITING
      <3>2. status' = [status EXCEPT ![last] = WAITING]
        BY <2>1, <2>5 DEF Tasks, NoTask
      <3>3. nextTask[c] \in Tasks /\ nextTask[c] < numberOfTasks /\ Picked(nextTask[c])
            /\ nextTask[c] # last
        BY <1>a, <2>1, <3>1 DEF Picked, Choosing, RUNNING, WAITING, WAITING_TO_START
      <3>4. last < numberOfTasks
        BY <2>5 DEF TaskInv, ChoiceInv, Tasks, NoTask
      <3>5. ASSUME NEW t \in Tasks, status[t] = WAITING, ~Picked(t)
            PROVE  idleTime'[t] < Cardinality(Behind(t)')
        <4>1. idleTime[t] > 0 /\ t # last
          BY <2>1, <3>1, <3>5 DEF RUNNING, WAITING
        <4>2. Behind(t) \subseteq Behind(t)'
          BY <1>0, <2>1, <2>2, <3>1, <3>2, <3>5, <4>1 DEF Behind, Published
        <4>3. idleTime[t] < Cardinality(Behind(t))
          BY <3>5
        <4> QED
          BY <1>0, <2>1, <4>2, <4>3, BehindGrows
      <3>6. idleTime'[last] < Cardinality(Behind(last)')
        <4>1. nextTask[c] \in Behind(last)'
          BY <2>1, <2>2, <3>3 DEF Behind, Published
        <4>2. Behind(last) \subseteq Behind(last)'
          BY <1>0, <2>1, <2>2, <3>1, <3>2 DEF Behind, Published
        <4>3. IsFiniteSet(Behind(last)') /\ Cardinality(Behind(last)') \in Nat
          BY <3>1, <4>2, BehindGrows
        <4>4. Cardinality(Behind(last)') # 0
          BY <4>1, <4>3, FS_EmptySet
        <4> QED
          BY <2>1, <3>1, <4>3, <4>4
      <3>7. \A t \in Tasks : status'[t] = WAITING /\ ~Picked(t)'
                               => idleTime'[t] < Cardinality(Behind(t)')
        BY <1>0, <2>2, <3>1, <3>2, <3>5, <3>6
      <3>8. \A t \in Tasks : status'[t] # WAITING => idleTime'[t] = 0
        BY <1>0, <2>1, <3>2
      <3>9. \A t \in Tasks : Picked(t)' => idleTime'[t] < numberOfTasks'
        BY <2>1, <2>2
      <3> QED
        BY <2>3, <3>7, <3>8, <3>9
    <2> QED
      BY <1>0, <2>4, <2>5
  <1>15. ASSUME NEW c \in Cores, Install(c) PROVE WaitInv'
    <2> DEFINE n == nextTask[c]
    <2>1. /\ pc[c] = "install" /\ pc' = [pc EXCEPT ![c] = "mark"]
          /\ UNCHANGED <<status, nextTask, numberOfTasks>>
          /\ idleTime' = [idleTime EXCEPT ![n] = 0]
      BY <1>15 DEF Install, bootVars
    <2>2. n \in Tasks /\ n < numberOfTasks /\ Picked(n)
      BY <1>a, <2>1 DEF Picked, Choosing
    <2>3. \A t \in Tasks : Picked(t)' <=> Picked(t)
      BY <1>0, <2>1 DEF Picked, Choosing
    <2>4. \A d \in Cores : pc'[d] \in Choosing => d = c
      BY <1>0, <1>c, <2>1 DEF Critical, Choosing
    <2> HIDE DEF n
    <2>5. \A t \in Tasks : t # n => idleTime'[t] = idleTime[t]
      BY <1>0, <2>1
    <2>6. idleTime'[n] = 0
      BY <1>0, <2>1, <2>2
    <2>7. \A t \in Tasks : t # n => Behind(t) \subseteq Behind(t)'
      BY <1>0, <2>1, <2>2, <2>3, <2>5 DEF Behind, Published
    <2>8. ASSUME NEW t \in Tasks, status[t] = WAITING, ~Picked(t)
          PROVE  idleTime'[t] < Cardinality(Behind(t)')
      <3>1. t # n
        BY <2>2, <2>8
      <3>2. idleTime[t] < Cardinality(Behind(t))
        BY <2>8
      <3> QED
        BY <1>0, <2>5, <2>7, <3>1, <3>2, BehindGrows
    <2>9. \A t \in Tasks : status'[t] = WAITING /\ ~Picked(t)'
                             => idleTime'[t] < Cardinality(Behind(t)')
      BY <2>1, <2>3, <2>8
    <2>10. \A t \in Tasks : status'[t] # WAITING => idleTime'[t] = 0
      BY <2>1, <2>5, <2>6
    <2>11. \A t \in Tasks : Picked(t)' => idleTime'[t] < numberOfTasks'
      BY <1>0, <1>n, <2>1, <2>2, <2>3, <2>5, <2>6
    <2>12. \A d \in Cores : pc'[d] = "mark" => nextTask'[d] = n
      BY <2>1, <2>4 DEF Choosing, n
    <2>13. \A d \in Cores : pc'[d] # "save"
      BY <1>0, <2>1, <2>4 DEF Choosing
    <2> QED
      BY <2>6, <2>9, <2>10, <2>11, <2>12, <2>13
  <1>16. ASSUME NEW c \in Cores, MarkRunning(c) PROVE WaitInv'
    <2> DEFINE n == nextTask[c]
    <2>1. /\ pc[c] = "mark"
          /\ UNCHANGED <<idleTime, nextTask, numberOfTasks>>
          /\ status' = [status EXCEPT ![n] = RUNNING]
          /\ \A d \in Cores \ {c} : pc'[d] = pc[d]
      BY <1>0, <1>16 DEF MarkRunning, bootVars
    <2>2. pc'[c] \notin Choosing
      BY <1>0, <1>16 DEF MarkRunning, Choosing
    <2>3. n \in Tasks /\ idleTime[n] = 0
      BY <1>a, <2>1 DEF Choosing
    <2>4. \A t \in Tasks : Picked(t) <=> t = n
      BY <1>c, <2>1 DEF Picked, Choosing, Critical
    <2>5. \A d \in Cores : pc'[d] \notin Choosing
      BY <1>c, <2>1, <2>2 DEF Choosing, Critical
    <2>6. \A t \in Tasks : ~Picked(t)'
      BY <2>5 DEF Picked
    <2> HIDE DEF n
    <2>7. \A t \in Tasks : t # n => Behind(t) \subseteq Behind(t)'
      BY <1>0, <2>1, <2>3, <2>4, <2>6 DEF Behind, Published
    <2>8. ASSUME NEW t \in Tasks, status[t] = WAITING, t # n
          PROVE  idleTime'[t] < Cardinality(Behind(t)')
      <3>1. idleTime[t] < Cardinality(Behind(t))
        BY <2>4, <2>8
      <3> QED
        BY <1>0, <2>1, <2>7, <2>8, <3>1, BehindGrows
    <2>9. \A t \in Tasks : status'[t] = WAITING
                             => idleTime'[t] < Cardinality(Behind(t)')
      BY <1>0, <2>1, <2>3, <2>8 DEF RUNNING, WAITING
    <2>10. \A t \in Tasks : status'[t] # WAITING => idleTime'[t] = 0
      BY <1>0, <2>1, <2>3
    <2> QED
      BY <2>5, <2>6, <2>9, <2>10 DEF Choosing
  <1> QED
    BY <1>4, <1>5, <1>6, <1>7, <1>8, <1>9, <1>10, <1>11, <1>12, <1>13, <1>14,
       <1>15, <1>16
       DEF Next, CreateNewTask, SchedulerMain, vars, taskVars, bootVars,
           FindFreeIndex, Compute, StartTask, SwitchTask, Return

(* A waiting task is passed over fewer times than there are tasks.         *)
THEOREM WaitingIsBounded == Spec => []BoundedWait
  <1>1. TypeInv /\ WaitInv => BoundedWait
    <2> SUFFICES ASSUME TypeInv, WaitInv, NEW t \in Published
                 PROVE  idleTime[t] < numberOfTasks
      BY DEF BoundedWait
    <2>1. t \in Tasks /\ t \in Nat /\ t < numberOfTasks /\ numberOfTasks \in Nat
          /\ idleTime[t] \in Nat
      BY DEF Published, Tasks, TypeInv, TypeOK
    <2>2. CASE status[t] # WAITING
      BY <2>1, <2>2 DEF WaitInv
    <2>3. CASE Picked(t)
      BY <2>1, <2>3 DEF WaitInv
    <2>4. CASE status[t] = WAITING /\ ~Picked(t)
      BY <2>1, <2>4, BehindSize DEF WaitInv
    <2> QED
      BY <2>2, <2>3, <2>4
  <1> QED
    BY <1>1, TaskInvariant, InitOrderInv, NextOrderInv, InitWaitInv,
       NextWaitInv, PTL DEF Spec

-----------------------------------------------------------------------------
(* The scheduler as a round-robin scheduler: the queue of its refinement    *)
(* mapping, by how long the tasks have waited.                             *)

(* Tasks that can be put into a queue by how long they have waited.        *)
Sortable(S, time) ==
  /\ IsFiniteSet(S)
  /\ \A t \in S : time[t] \in Nat
  /\ \A t, u \in S : time[t] = time[u] => t = u

LEMMA FunctionIsSeq ==
  ASSUME NEW R, NEW m \in Nat, NEW f \in [1 .. m -> R]
  PROVE  f \in Seq(R)
  OBVIOUS

(* Each of them has a place of its own, from the first to the last.        *)
LEMMA Positions ==
  ASSUME NEW S, NEW time, Sortable(S, time)
  PROVE  /\ Cardinality(S) \in Nat
         /\ \A t \in S : Position(t, S, time) \in 1 .. Cardinality(S)
         /\ \A t, u \in S : Position(t, S, time) = Position(u, S, time) => t = u
         /\ \A k \in 1 .. Cardinality(S) : \E t \in S : Position(t, S, time) = k
  <1> DEFINE ahead(t) == {u \in S : time[u] >= time[t]}
             place == [t \in S |-> Position(t, S, time)]
  <1>0. IsFiniteSet(S) /\ Cardinality(S) \in Nat
    BY FS_CardinalityType DEF Sortable
  <1>1. ASSUME NEW t \in S
        PROVE  /\ IsFiniteSet(ahead(t)) /\ t \in ahead(t) /\ ahead(t) # {}
               /\ Cardinality(ahead(t)) \in 1 .. Cardinality(S)
    <2>1. t \in ahead(t)
      BY DEF Sortable
    <2>2. IsFiniteSet(ahead(t)) /\ Cardinality(ahead(t)) <= Cardinality(S)
      BY <1>0, FS_Subset
    <2>3. Cardinality(ahead(t)) \in Nat /\ Cardinality(ahead(t)) # 0
      BY <2>1, <2>2, FS_CardinalityType, FS_EmptySet
    <2> QED
      BY <1>0, <2>1, <2>2, <2>3
  <1>2. ASSUME NEW t \in S, NEW u \in S, time[u] < time[t]
        PROVE  Cardinality(ahead(t)) # Cardinality(ahead(u))
    <2>1. \A v \in S : time[v] \in Nat
      BY DEF Sortable
    <2>2. ahead(t) \subseteq ahead(u)
      BY <1>2, <2>1
    <2>3. u \in ahead(u) /\ u \notin ahead(t)
      BY <1>2, <2>1
    <2>4. IsFiniteSet(ahead(u))
      BY <1>1
    <2> HIDE DEF ahead
    <2> QED
      BY <2>2, <2>3, <2>4, FS_Subset
  <1>3. \A t \in S : Position(t, S, time) = Cardinality(ahead(t))
    BY DEF Position
  <1> HIDE DEF ahead
  <1>4. ASSUME NEW t \in S, NEW u \in S, t # u
        PROVE  Position(t, S, time) # Position(u, S, time)
    <2>1. time[t] < time[u] \/ time[u] < time[t]
      BY <1>4 DEF Sortable
    <2> QED
      BY <1>2, <1>3, <2>1
  <1>5. place \in Injection(S, 1 .. Cardinality(S))
    BY <1>1, <1>3, <1>4 DEF Injection, IsInjective
  <1>6. /\ IsFiniteSet(1 .. Cardinality(S))
        /\ Cardinality(1 .. Cardinality(S)) = Cardinality(S)
    BY <1>0, FS_Interval
  <1> HIDE DEF place
  <1>7. place \in Surjection(S, 1 .. Cardinality(S))
    BY <1>5, <1>6, FS_Injection
  <1>8. \A k \in 1 .. Cardinality(S) : \E t \in S : place[t] = k
    BY <1>7 DEF Surjection
  <1> QED
    BY <1>0, <1>1, <1>3, <1>4, <1>8 DEF place

(* The queue is the sequence in which every task stands at its place.      *)
LEMMA QueueIs ==
  ASSUME NEW S, NEW time, Sortable(S, time)
  PROVE  /\ LongestFirst(S, time) \in Seq(S)
         /\ Len(LongestFirst(S, time)) = Cardinality(S)
         /\ \A k \in 1 .. Cardinality(S) :
              /\ LongestFirst(S, time)[k] \in S
              /\ Position(LongestFirst(S, time)[k], S, time) = k
         /\ \A s \in Seq(S) :
              /\ Len(s) = Cardinality(S)
              /\ \A k \in 1 .. Cardinality(S) : Position(s[k], S, time) = k
              => LongestFirst(S, time) = s
  <1> DEFINE n == Cardinality(S)
             q == LongestFirst(S, time)
             chosen(k) == CHOOSE t \in S : Position(t, S, time) = k
  <1>1. n \in Nat /\ \A k \in 1 .. n : chosen(k) \in S /\ Position(chosen(k), S, time) = k
    BY Positions
  <1>2. q = [k \in 1 .. n |-> chosen(k)]
    BY DEF LongestFirst
  <1> HIDE DEF q, chosen, n
  <1>3. q \in [1 .. n -> S]
    BY <1>1, <1>2
  <1>4. q \in Seq(S) /\ Len(q) = n
    BY <1>1, <1>3
  <1>5. \A k \in 1 .. n : q[k] \in S /\ Position(q[k], S, time) = k
    BY <1>1, <1>2
  <1>6. ASSUME NEW s \in Seq(S), Len(s) = n,
               \A k \in 1 .. n : Position(s[k], S, time) = k
        PROVE  q = s
    <2>1. \A k \in 1 .. n : s[k] \in S
      BY <1>6, ElementOfSeq
    <2>2. \A k \in 1 .. n : q[k] = s[k]
      BY <1>5, <1>6, <2>1, Positions
    <2> QED
      BY <1>4, <1>6, <2>2, SeqEqual
  <1> QED
    BY <1>4, <1>5, <1>6 DEF q, n

(* Only the order matters, ... *)
LEMMA SameOrder ==
  ASSUME NEW S, NEW time, NEW later,
         \A t, u \in S : later[u] >= later[t] <=> time[u] >= time[t]
  PROVE  LongestFirst(S, later) = LongestFirst(S, time)
  <1>1. \A t \in S : Position(t, S, later) = Position(t, S, time)
    <2>1. ASSUME NEW t \in S
          PROVE  {u \in S : later[u] >= later[t]} = {u \in S : time[u] >= time[t]}
      OBVIOUS
    <2> QED
      BY <2>1 DEF Position
  <1>2. \A k : (CHOOSE t \in S : Position(t, S, later) = k)
               = CHOOSE t \in S : Position(t, S, time) = k
    BY <1>1
  <1> QED
    BY <1>2 DEF LongestFirst

(* ... who has waited least is the last, ... *)
IsLast(x, S, time, later) ==
  LongestFirst(S \cup {x}, later) = Append(LongestFirst(S, time), x)

LEMMA QueueAppend ==
  ASSUME NEW S, NEW time, Sortable(S, time), NEW x, x \notin S,
         NEW later, \A t \in S : later[t] = time[t] + 1, later[x] = 0
  PROVE  /\ Sortable(S \cup {x}, later)
         /\ IsLast(x, S, time, later)
  <1> DEFINE n == Cardinality(S)
             T == S \cup {x}
             q == LongestFirst(S, time)
  <1>0. \A t \in S : time[t] \in Nat
    BY DEF Sortable
  <1>1. Sortable(T, later)
    <2>1. IsFiniteSet(T)
      BY FS_AddElement DEF Sortable
    <2>2. \A t \in T : later[t] \in Nat
      BY <1>0
    <2>3. ASSUME NEW t \in T, NEW u \in T, later[t] = later[u] PROVE t = u
      BY <1>0, <2>3 DEF Sortable
    <2> QED
      BY <2>1, <2>2, <2>3 DEF Sortable
  <1>2. n \in Nat /\ Cardinality(T) = n + 1
    BY Positions, FS_AddElement DEF Sortable
  <1>3. ASSUME NEW t \in S PROVE Position(t, T, later) = Position(t, S, time)
    <2>1. {u \in T : later[u] >= later[t]} = {u \in S : time[u] >= time[t]}
      BY <1>0
    <2> QED
      BY <2>1 DEF Position
  <1>4. Position(x, T, later) = n + 1
    <2>1. {u \in T : later[u] >= later[x]} = T
      BY <1>0
    <2> QED
      BY <1>2, <2>1 DEF Position
  <1>5. /\ q \in Seq(S) /\ Len(q) = n
        /\ \A k \in 1 .. n : q[k] \in S /\ Position(q[k], S, time) = k
    BY QueueIs
  <1> HIDE DEF T, q, n
  <1>6. q \in Seq(T) /\ x \in T
    BY <1>5, SeqMonotonic DEF T
  <1>7. /\ Append(q, x) \in Seq(T)
        /\ Len(Append(q, x)) = n + 1
        /\ \A k \in 1 .. n : Append(q, x)[k] = q[k]
        /\ Append(q, x)[n + 1] = x
    BY <1>5, <1>6, AppendProperties
  <1>8. \A k \in 1 .. n + 1 : Position(Append(q, x)[k], T, later) = k
    <2>1. \A k \in 1 .. n : Position(Append(q, x)[k], T, later) = k
      BY <1>3, <1>5, <1>7
    <2>2. \A k \in 1 .. n + 1 : k \in 1 .. n \/ k = n + 1
      BY <1>2
    <2> QED
      BY <1>4, <1>7, <2>1, <2>2
  <1>9. LongestFirst(T, later) = Append(q, x)
    BY <1>1, <1>2, <1>7, <1>8, QueueIs
  <1> QED
    BY <1>1, <1>9 DEF T, q, IsLast

(* ... and without the first one, all others move up. *)
LEMMA QueueTail ==
  ASSUME NEW S, NEW time, Sortable(S, time), NEW h \in S,
         \A u \in S \ {h} : time[u] < time[h]
  PROVE  /\ LongestFirst(S, time) # <<>>
         /\ Head(LongestFirst(S, time)) = h
         /\ Sortable(S \ {h}, time)
         /\ LongestFirst(S \ {h}, time) = Tail(LongestFirst(S, time))
  <1> DEFINE n == Cardinality(S)
             R == S \ {h}
             q == LongestFirst(S, time)
  <1>0. (\A t \in S : time[t] \in Nat) /\ IsFiniteSet(S)
    BY DEF Sortable
  <1>1. /\ n \in Nat /\ n >= 1
        /\ IsFiniteSet(R) /\ Cardinality(R) = n - 1
    BY <1>0, FS_RemoveElement, FS_CardinalityType, FS_EmptySet
  <1>2. Sortable(R, time)
    BY <1>1 DEF Sortable
  <1>3. Position(h, S, time) = 1
    <2>1. {u \in S : time[u] >= time[h]} = {h}
      BY <1>0
    <2> QED
      BY <2>1, FS_Singleton DEF Position
  <1>4. ASSUME NEW t \in R PROVE Position(t, R, time) = Position(t, S, time) - 1
    <2> DEFINE A == {u \in S : time[u] >= time[t]}
    <2>1. h \in A /\ IsFiniteSet(A)
      BY <1>0, FS_Subset
    <2>2. {u \in R : time[u] >= time[t]} = A \ {h}
      OBVIOUS
    <2> HIDE DEF A
    <2>3. Cardinality(A \ {h}) = Cardinality(A) - 1
      BY <2>1, FS_RemoveElement
    <2> QED
      BY <2>2, <2>3 DEF Position, A
  <1>5. /\ q \in Seq(S) /\ Len(q) = n
        /\ \A k \in 1 .. n : q[k] \in S /\ Position(q[k], S, time) = k
    BY QueueIs
  <1>6. \A t, u \in S : Position(t, S, time) = Position(u, S, time) => t = u
    BY Positions
  <1> HIDE DEF R, q, n
  <1>7. q # <<>> /\ q[1] = h
    BY <1>1, <1>3, <1>5, <1>6
  <1>8. /\ Head(q) = h
        /\ Tail(q) \in Seq(S) /\ Len(Tail(q)) = n - 1
        /\ \A k \in 1 .. n - 1 : Tail(q)[k] = q[k + 1]
    BY <1>5, <1>7, HeadTailProperties
  <1>9. \A k \in 1 .. n - 1 : k + 1 \in 1 .. n /\ (k + 1) - 1 = k /\ k + 1 # 1
    BY <1>1
  <1>10. \A k \in 1 .. n - 1 : Tail(q)[k] \in R
    BY <1>3, <1>5, <1>8, <1>9 DEF R
  <1>11. \A k \in 1 .. n - 1 : Position(Tail(q)[k], R, time) = k
    BY <1>4, <1>5, <1>8, <1>9, <1>10
  <1>12. Tail(q) \in Seq(R)
    <2>1. Tail(q) \in [1 .. n - 1 -> S] /\ n - 1 \in Nat
      BY <1>1, <1>8, LenProperties
    <2>2. Tail(q) \in [1 .. n - 1 -> R]
      BY <1>10, <2>1
    <2> QED
      BY <2>1, <2>2, FunctionIsSeq
  <1>13. LongestFirst(R, time) = Tail(q)
    BY <1>1, <1>2, <1>8, <1>11, <1>12, QueueIs
  <1> QED
    BY <1>2, <1>7, <1>8, <1>13 DEF R, q

-----------------------------------------------------------------------------
(* Seen as a round-robin scheduler. *)

(* No two tasks in the queue have waited equally long. *)
QueueInv == Sortable(InQueue, idleTime)

SchedulerInv == TypeInv /\ LockInv /\ TaskInv /\ OrderInv /\ WaitInv

LEMMA ViewTypes ==
  ASSUME TypeInv, TaskInv
  PROVE  /\ \A c \in Cores : Mapped(c) \in Tasks \cup {NoTask}
         /\ \A t \in Tasks : IsRunning(t) => t < numberOfTasks
         /\ Published \subseteq Tasks /\ InQueue \subseteq Published
         /\ NeverRan \subseteq Published
         /\ \A t \in Tasks : t \in Nat /\ t # NoTask
         /\ \A t \in Published : status[t] \in {WAITING_TO_START, RUNNING, WAITING}
  <1>1. \A t \in Tasks : t \in Nat /\ t # NoTask
    BY DEF Tasks, NoTask
  <1>2. \A c \in Cores : Mapped(c) \in Tasks \cup {NoTask}
    BY DEF Mapped, TypeInv, TypeOK
  <1>3. \A c \in Cores : Mapped(c) # NoTask => Mapped(c) < numberOfTasks
    <2>1. ASSUME NEW c \in Cores, pc[c] \in {"save", "install"}
          PROVE  Mapped(c) < numberOfTasks
      BY <2>1 DEF Mapped, TaskInv, ChoiceInv, Chosen
    <2>2. ASSUME NEW c \in Cores, pc[c] \notin {"save", "install"}, Mapped(c) # NoTask
          PROVE  Mapped(c) < numberOfTasks
      BY <2>2 DEF Mapped, TaskInv, ChoiceInv
    <2> QED
      BY <2>1, <2>2
  <1>4. \A t \in Published : status[t] \in {WAITING_TO_START, RUNNING, WAITING}
    BY DEF Published, TaskInv, TableInv, TypeInv, TypeOK
  <1> QED
    BY <1>1, <1>2, <1>3, <1>4 DEF IsRunning, Published, InQueue, NeverRan, NotStarted

(* What does not change who runs, who waits and in which order is not seen. *)
LEMMA SameView ==
  ASSUME \A c \in Cores : Mapped(c)' = Mapped(c),
         InQueue' = InQueue, NeverRan' = NeverRan, numberOfTasks' = numberOfTasks,
         \A t \in InQueue : idleTime'[t] = idleTime[t]
  PROVE  UNCHANGED Abstract!vars /\ (QueueInv => QueueInv')
  <1>1. LongestFirst(InQueue', idleTime') = LongestFirst(InQueue, idleTime)
    <2>1. \A t, u \in InQueue : idleTime'[u] >= idleTime'[t] <=> idleTime[u] >= idleTime[t]
      OBVIOUS
    <2> QED
      BY <2>1, SameOrder
  <1>2. [c \in Cores |-> Mapped(c)]' = [c \in Cores |-> Mapped(c)]
    OBVIOUS
  <1>3. QueueInv => QueueInv'
    BY DEF QueueInv, Sortable
  <1> QED
    BY <1>1, <1>2, <1>3 DEF Abstract!vars

(* The sets follow from what the cores run and the status of the tasks.    *)
LEMMA SameSets ==
  ASSUME \A c \in Cores : Mapped(c)' = Mapped(c), numberOfTasks' = numberOfTasks,
         \A t \in Published : ~IsRunning(t) =>
           (status'[t] = WAITING_TO_START <=> status[t] = WAITING_TO_START)
  PROVE  InQueue' = InQueue /\ NeverRan' = NeverRan
  <1>1. \A t : IsRunning(t)' <=> IsRunning(t)
    BY DEF IsRunning
  <1>2. Published' = Published
    BY DEF Published
  <1> QED
    BY <1>1, <1>2 DEF InQueue, NeverRan, NotStarted

(* With the lock held by a core that scans, the queue is the waiting tasks. *)
LEMMA ScanSees ==
  ASSUME TypeInv, LockInv, TaskInv, NEW c \in Cores, pc[c] = "scan"
  PROVE  /\ \A d \in Cores : Mapped(d) = currentTask[d]
         /\ InQueue = Waiting /\ NeverRan = NotStarted
         /\ \A t \in Published : status[t] = RUNNING <=> IsRunning(t)
  <1>1. \A d \in Cores : pc[d] \notin {"save", "install", "mark"}
    BY DEF LockInv, Critical
  <1>2. \A d \in Cores : Mapped(d) = currentTask[d]
    BY <1>1 DEF Mapped
  <1>3. \A t \in Tasks : status[t] = RUNNING <=> IsRunning(t)
    BY <1>1, <1>2 DEF TaskInv, OneCorePerTask, IsRunning
  <1>4. /\ Published \subseteq Tasks
        /\ \A t \in Published : status[t] \in {WAITING_TO_START, RUNNING, WAITING}
    BY ViewTypes
  <1>5. \A t \in Published : t \in InQueue <=> status[t] = WAITING
    BY <1>3, <1>4 DEF InQueue, NotStarted, WAITING_TO_START, RUNNING, WAITING
  <1>6. \A t \in Published : t \in NeverRan <=> status[t] = WAITING_TO_START
    BY <1>3, <1>4 DEF NeverRan, NotStarted, WAITING_TO_START, RUNNING, WAITING
  <1> QED
    BY <1>2, <1>3, <1>4, <1>5, <1>6 DEF InQueue, NeverRan, Waiting, NotStarted

(* The choice: the chosen task leaves the queue, and the task the core ran *)
(* joins it.                                                               *)
LEMMA ChoiceView ==
  ASSUME SchedulerInv, NEW c \in Cores, FindNextTask(c),
         NEW n \in Tasks, IsNext(n), nextTask' = [nextTask EXCEPT ![c] = n]
  PROVE  /\ n \in Waiting \cup NotStarted
         /\ [d \in Cores |-> Mapped(d)]' = [[d \in Cores |-> Mapped(d)] EXCEPT ![c] = n]
         /\ InQueue' = (Waiting \ {n}) \cup ({Mapped(c)} \ {NoTask})
         /\ Mapped(c) \notin Waiting
         /\ NeverRan' = NotStarted \ {n}
  <1>0. TypeInv /\ LockInv /\ TaskInv /\ pc[c] = "scan"
    BY DEF SchedulerInv, FindNextTask
  <1>1. n \in Waiting \cup NotStarted /\ n # NoTask
    BY <1>0, ViewTypes DEF IsNext, IsFirstNotStarted, IsLongestWaiting
  <1>2. /\ \A d \in Cores : Mapped(d) = currentTask[d]
        /\ \A t \in Published : status[t] = RUNNING <=> IsRunning(t)
        /\ InQueue = Waiting /\ NeverRan = NotStarted
    BY <1>0, ScanSees
  <1>3. \A d \in Cores : pc[d] \notin {"save", "install"}
    BY <1>0 DEF LockInv, Critical
  <1>4. UNCHANGED <<status, currentTask, numberOfTasks>>
        /\ pc' = [pc EXCEPT ![c] = "save"]
    BY DEF FindNextTask, coreVars, bootVars
  <1>5. \A d \in Cores : Mapped(d)' = IF d = c THEN n ELSE Mapped(d)
    BY <1>0, <1>2, <1>3, <1>4 DEF Mapped, TypeInv, TypeOK
  <1>6. \A d \in Cores : d # c /\ Mapped(d) = Mapped(c) => Mapped(c) = NoTask
    BY <1>0, <1>2 DEF TaskInv, OneCorePerTask
  <1>7. Published' = Published /\ NotStarted' = NotStarted /\ NoTask \notin Published
    BY <1>0, <1>4, ViewTypes DEF Published, NotStarted
  <1>8. Mapped(c) # NoTask => Mapped(c) \in Published /\ status[Mapped(c)] = RUNNING
    BY <1>0, <1>2, ViewTypes DEF IsRunning, Published
  <1>9. ASSUME NEW t \in Published
        PROVE  IsRunning(t)' <=> t = n \/ (IsRunning(t) /\ t # Mapped(c))
    BY <1>5, <1>6, <1>7 DEF IsRunning
  <1>10. \A t \in Published : status[t] \in {WAITING_TO_START, RUNNING, WAITING}
    BY <1>0, ViewTypes
  <1>11. Mapped(c) \notin Waiting
    BY <1>7, <1>8 DEF Waiting, RUNNING, WAITING
  <1>12. \A t \in Published : t \in InQueue' <=> t \in Waiting \ {n} \/ t = Mapped(c)
    <2>1. \A t \in Published : t \in InQueue' <=> t \notin NotStarted /\ ~IsRunning(t)'
      BY <1>7 DEF InQueue
    <2>2. n # Mapped(c)
      BY <1>1, <1>8, <1>11 DEF NotStarted, WAITING_TO_START, RUNNING
    <2>3. \A t \in Published : t \notin NotStarted => t \in Waiting \/ IsRunning(t)
      BY <1>2, <1>10 DEF NotStarted, Waiting
    <2>4. \A t \in Published : t \in Waiting => t \notin NotStarted /\ ~IsRunning(t)
      BY <1>2 DEF NotStarted, Waiting, WAITING_TO_START, RUNNING, WAITING
    <2>5. Mapped(c) \in Published => IsRunning(Mapped(c)) /\ Mapped(c) \notin NotStarted
      BY <1>7, <1>8 DEF IsRunning, NotStarted, WAITING_TO_START, RUNNING
    <2> QED
      BY <1>9, <2>1, <2>2, <2>3, <2>4, <2>5
  <1>13. InQueue' \subseteq Published /\ Waiting \subseteq Published
    BY <1>7 DEF InQueue, Waiting
  <1>14. InQueue' = (Waiting \ {n}) \cup ({Mapped(c)} \ {NoTask})
    BY <1>7, <1>8, <1>12, <1>13
  <1>15. NeverRan' = NotStarted \ {n}
    <2>1. \A t \in NotStarted : t \in Published /\ ~IsRunning(t)
      <3>1. NotStarted = {t \in NotStarted : ~IsRunning(t)}
        BY <1>2 DEF NeverRan
      <3>2. NotStarted \subseteq Published
        BY DEF NotStarted
      <3> QED
        BY <3>1, <3>2
    <2> QED
      BY <1>7, <1>9, <2>1 DEF NeverRan
  <1>16. [d \in Cores |-> Mapped(d)]' = [[d \in Cores |-> Mapped(d)] EXCEPT ![c] = n]
    BY <1>5
  <1> QED
    BY <1>1, <1>11, <1>14, <1>15, <1>16

(* Every waiting task has waited one choice more, and the one that joins   *)
(* them not at all.                                                        *)
LEMMA ChoiceTimes ==
  ASSUME SchedulerInv, NEW c \in Cores, FindNextTask(c)
  PROVE  /\ \A t \in Waiting : idleTime'[t] = idleTime[t] + 1
         /\ Mapped(c) # NoTask => idleTime'[Mapped(c)] = 0
  <1>0. TypeInv /\ LockInv /\ TaskInv /\ OrderInv /\ WaitInv /\ pc[c] = "scan"
    BY DEF SchedulerInv, FindNextTask
  <1>1. idleTime' = [t \in Tasks |-> IF t \in Scanned THEN idleTime[t] + 1
                                                     ELSE idleTime[t]]
    BY DEF FindNextTask
  <1>2. Waiting \subseteq Scanned
    <2>1. ASSUME NEW t \in Waiting, NEW u \in NotStarted PROVE t < u
      <3>1. /\ t \in Tasks /\ u \in Tasks /\ t \in Nat /\ u \in Nat
            /\ t < numberOfTasks /\ status[t] = WAITING /\ status[u] = WAITING_TO_START
        BY DEF Waiting, NotStarted, Published, Tasks
      <3>2. status[t] # status[u]
        BY <3>1 DEF WAITING, WAITING_TO_START
      <3>3. ~(u < t)
        BY <1>0, <3>1, <3>2 DEF OrderInv
      <3>4. t # u
        BY <3>2
      <3> QED
        BY <3>1, <3>3, <3>4
    <2> QED
      BY <2>1 DEF Scanned
  <1>3. Waiting \subseteq Tasks
    BY DEF Waiting, Published
  <1>4. ASSUME Mapped(c) # NoTask PROVE idleTime'[Mapped(c)] = 0
    <2>1. Mapped(c) \in Tasks /\ Mapped(c) \in Published
      BY <1>0, <1>4, ViewTypes DEF IsRunning, Published
    <2>2. status[Mapped(c)] = RUNNING
      BY <1>0, <2>1, ScanSees DEF IsRunning
    <2>3. status[Mapped(c)] # WAITING /\ Mapped(c) \notin Scanned
      BY <2>2 DEF RUNNING, WAITING, Scanned, Waiting
    <2> QED
      BY <1>0, <1>1, <2>1, <2>3 DEF WaitInv
  <1> QED
    BY <1>1, <1>2, <1>3, <1>4

(* So the queue of RoundRobin does what it should. *)
LEMMA ChoiceQueue ==
  ASSUME SchedulerInv, NEW c \in Cores, FindNextTask(c),
         NEW S \in SUBSET Waiting, Sortable(S, idleTime),
         InQueue' = S \cup ({Mapped(c)} \ {NoTask}), Mapped(c) \notin Waiting
  PROVE  /\ QueueInv'
         /\ LongestFirst(InQueue', idleTime') =
              IF Mapped(c) = NoTask THEN LongestFirst(S, idleTime)
              ELSE Append(LongestFirst(S, idleTime), Mapped(c))
  <1>1. /\ \A t \in S : idleTime'[t] = idleTime[t] + 1
        /\ Mapped(c) # NoTask => idleTime'[Mapped(c)] = 0
    BY ChoiceTimes
  <1>2. \A t \in S : idleTime[t] \in Nat
    BY DEF Sortable
  <1>3. CASE Mapped(c) = NoTask
    <2>1. InQueue' = S
      BY <1>3
    <2>2. \A t, u \in S : idleTime'[u] >= idleTime'[t] <=> idleTime[u] >= idleTime[t]
      BY <1>1, <1>2
    <2>3. Sortable(S, idleTime')
      BY <1>1, <1>2 DEF Sortable
    <2> QED
      BY <1>3, <2>1, <2>2, <2>3, SameOrder DEF QueueInv
  <1>4. CASE Mapped(c) # NoTask
    <2>1. InQueue' = S \cup {Mapped(c)} /\ Mapped(c) \notin S
      BY <1>4
    <2>2. /\ Sortable(S \cup {Mapped(c)}, idleTime')
          /\ LongestFirst(S \cup {Mapped(c)}, idleTime')
               = Append(LongestFirst(S, idleTime), Mapped(c))
      <3>1. Mapped(c) \notin S /\ idleTime'[Mapped(c)] = 0
        BY <1>1, <1>4, <2>1
      <3>2. \A t \in S : idleTime'[t] = idleTime[t] + 1
        BY <1>1
      <3>3. IsLast(Mapped(c), S, idleTime, idleTime')
            /\ Sortable(S \cup {Mapped(c)}, idleTime')
        BY <3>1, <3>2, QueueAppend
      <3> QED
        BY <3>3 DEF IsLast
    <2> QED
      BY <1>4, <2>1, <2>2 DEF QueueInv
  <1> QED
    BY <1>3, <1>4

(* The tasks that never ran are the last ones. *)
LEMMA NeverRanSize ==
  ASSUME SchedulerInv, NEW c \in Cores, pc[c] = "scan", NEW n, IsFirstNotStarted(n)
  PROVE  /\ IsFiniteSet(NotStarted) /\ n \in NotStarted /\ n \in Nat
         /\ Cardinality(NotStarted) = numberOfTasks - n /\ n < numberOfTasks
  <1>1. n \in NotStarted /\ \A u \in NotStarted : n <= u
    BY DEF IsFirstNotStarted
  <1>2. /\ n \in Tasks /\ n \in Nat /\ n < numberOfTasks /\ status[n] = WAITING_TO_START
        /\ numberOfTasks \in Nat /\ numberOfTasks <= MaxTasks
    BY <1>1 DEF NotStarted, Published, Tasks, SchedulerInv, TypeInv, TypeOK
  <1>3. NotStarted = n .. numberOfTasks - 1
    <2>1. ASSUME NEW u \in n .. numberOfTasks - 1 PROVE u \in NotStarted
      <3>1. u \in Tasks /\ u < numberOfTasks /\ (n < u \/ n = u)
        BY <1>2 DEF Tasks
      <3>2. status[u] = WAITING_TO_START
        BY <1>2, <3>1 DEF SchedulerInv, OrderInv
      <3> QED
        BY <3>1, <3>2 DEF NotStarted, Published
    <2>2. ASSUME NEW u \in NotStarted PROVE u \in n .. numberOfTasks - 1
      BY <1>1, <1>2 DEF NotStarted, Published, Tasks
    <2> QED
      BY <2>1, <2>2
  <1>4. IsFiniteSet(n .. numberOfTasks - 1)
        /\ Cardinality(n .. numberOfTasks - 1) = numberOfTasks - n
    <2>1. n \in Int /\ numberOfTasks - 1 \in Int /\ ~(n > numberOfTasks - 1)
          /\ (numberOfTasks - 1) - n + 1 = numberOfTasks - n
      BY <1>2
    <2> QED
      BY <2>1, FS_Interval
  <1> QED
    BY <1>1, <1>2, <1>3, <1>4

(* A core that finds a task that never ran starts the oldest one, ... *)
LEMMA ChoiceStarts ==
  ASSUME SchedulerInv, QueueInv, NEW c \in Cores, FindNextTask(c), NotStarted # {}
  PROVE  Abstract!StartNew(c) /\ QueueInv'
  <1>0. PICK n \in Tasks : IsNext(n) /\ nextTask' = [nextTask EXCEPT ![c] = n]
    BY DEF FindNextTask
  <1>1. /\ TypeInv /\ LockInv /\ TaskInv /\ pc[c] = "scan"
        /\ UNCHANGED numberOfTasks /\ numberOfTasks \in Nat
    BY DEF SchedulerInv, FindNextTask, bootVars, TypeInv, TypeOK
  <1>2. IsFirstNotStarted(n)
    BY <1>0 DEF IsNext
  <1>3. /\ IsFiniteSet(NotStarted) /\ n \in NotStarted /\ n \in Nat
        /\ Cardinality(NotStarted) = numberOfTasks - n /\ n < numberOfTasks
    BY <1>1, <1>2, NeverRanSize
  <1>4. /\ InQueue = Waiting /\ NeverRan = NotStarted
    BY <1>1, ScanSees
  <1>5. n \notin Waiting
    BY <1>3 DEF NotStarted, Waiting, WAITING, WAITING_TO_START
  <1>6. /\ [d \in Cores |-> Mapped(d)]' = [[d \in Cores |-> Mapped(d)] EXCEPT ![c] = n]
        /\ InQueue' = InQueue \cup ({Mapped(c)} \ {NoTask})
        /\ Mapped(c) \notin Waiting
        /\ NeverRan' = NotStarted \ {n}
    <2>1. /\ [d \in Cores |-> Mapped(d)]' = [[d \in Cores |-> Mapped(d)] EXCEPT ![c] = n]
          /\ InQueue' = (Waiting \ {n}) \cup ({Mapped(c)} \ {NoTask})
          /\ Mapped(c) \notin Waiting
          /\ NeverRan' = NotStarted \ {n}
      BY <1>0, ChoiceView
    <2> QED
      BY <1>4, <1>5, <2>1
  <1>7. numberOfTasks - Cardinality(NeverRan) = n
    BY <1>1, <1>3, <1>4
  <1>8. numberOfTasks' - Cardinality(NeverRan') = n + 1
    <2>1. Cardinality(NotStarted \ {n}) = Cardinality(NotStarted) - 1
      BY <1>3, FS_RemoveElement
    <2> QED
      BY <1>1, <1>3, <1>6, <2>1
  <1>9. /\ QueueInv'
        /\ LongestFirst(InQueue', idleTime') =
              IF Mapped(c) = NoTask THEN LongestFirst(InQueue, idleTime)
              ELSE Append(LongestFirst(InQueue, idleTime), Mapped(c))
    BY <1>4, <1>6, ChoiceQueue DEF QueueInv
  <1> QED
    BY <1>1, <1>3, <1>6, <1>7, <1>8, <1>9
       DEF Abstract!StartNew, Abstract!Requeue

(* ... and otherwise takes the one that has waited longest. *)
LEMMA ChoiceRotates ==
  ASSUME SchedulerInv, QueueInv, NEW c \in Cores, FindNextTask(c), NotStarted = {}
  PROVE  Abstract!Rotate(c) /\ QueueInv'
  <1>0. PICK n \in Tasks : IsNext(n) /\ nextTask' = [nextTask EXCEPT ![c] = n]
    BY DEF FindNextTask
  <1>1. /\ TypeInv /\ LockInv /\ TaskInv /\ pc[c] = "scan"
        /\ UNCHANGED numberOfTasks /\ numberOfTasks \in Nat
    BY DEF SchedulerInv, FindNextTask, bootVars, TypeInv, TypeOK
  <1>2. /\ n \in Waiting
        /\ \A u \in Waiting : \/ idleTime[u] < idleTime[n]
                              \/ idleTime[u] = idleTime[n] /\ n <= u
    BY <1>0 DEF IsNext, IsLongestWaiting
  <1>3. InQueue = Waiting /\ NeverRan = {}
    BY <1>1, ScanSees
  <1>4. Sortable(Waiting, idleTime)
    BY <1>3 DEF QueueInv
  <1>5. \A u \in Waiting \ {n} : idleTime[u] < idleTime[n]
    BY <1>2, <1>4 DEF Sortable
  <1>6. /\ LongestFirst(Waiting, idleTime) # <<>>
        /\ Head(LongestFirst(Waiting, idleTime)) = n
        /\ Sortable(Waiting \ {n}, idleTime)
        /\ LongestFirst(Waiting \ {n}, idleTime) = Tail(LongestFirst(Waiting, idleTime))
    BY <1>2, <1>4, <1>5, QueueTail
  <1>7. /\ [d \in Cores |-> Mapped(d)]' = [[d \in Cores |-> Mapped(d)] EXCEPT ![c] = n]
        /\ InQueue' = (Waiting \ {n}) \cup ({Mapped(c)} \ {NoTask})
        /\ Mapped(c) \notin Waiting
        /\ NeverRan' = {}
    BY <1>0, <1>3, ChoiceView
  <1>8. /\ QueueInv'
        /\ LongestFirst(InQueue', idleTime') =
              IF Mapped(c) = NoTask THEN LongestFirst(Waiting \ {n}, idleTime)
              ELSE Append(LongestFirst(Waiting \ {n}, idleTime), Mapped(c))
    BY <1>6, <1>7, ChoiceQueue
  <1>9. /\ numberOfTasks - Cardinality(NeverRan) = numberOfTasks
        /\ numberOfTasks' - Cardinality(NeverRan') = numberOfTasks
    BY <1>1, <1>3, <1>7, FS_EmptySet
  <1> QED
    BY <1>1, <1>3, <1>6, <1>7, <1>8, <1>9
       DEF Abstract!Rotate, Abstract!Requeue

(* A task that createNewTask counts is new. *)
LEMMA PublishCreates ==
  ASSUME SchedulerInv, QueueInv, Publish
  PROVE  Abstract!Create /\ QueueInv'
  <1> DEFINE n == numberOfTasks
  <1>1. /\ TypeInv /\ TaskInv /\ bootPc = "publish" /\ numberOfTasks' = n + 1
        /\ UNCHANGED <<status, idleTime, pc, nextTask, currentTask>>
    BY DEF SchedulerInv, Publish, Booting, taskVars, coreVars
  <1>2. n \in Nat /\ n \in Tasks /\ n < NTasks /\ status[n] = WAITING_TO_START
    BY <1>1 DEF TypeInv, TypeOK, IndexInv, TaskInv, TableInv
  <1>3. \A c \in Cores : Mapped(c)' = Mapped(c)
    BY <1>1 DEF Mapped
  <1>4. \A t : IsRunning(t)' <=> IsRunning(t)
    BY <1>3 DEF IsRunning
  <1>5. Published' = Published \cup {n} /\ n \notin Published
    BY <1>1, <1>2 DEF Published, Tasks
  <1>6. ~IsRunning(n)
    BY <1>1, <1>2, ViewTypes
  <1> HIDE DEF n
  <1>7. NotStarted' = NotStarted \cup {n}
    BY <1>1, <1>2, <1>5 DEF NotStarted
  <1>8. InQueue' = InQueue
    BY <1>4, <1>5, <1>7 DEF InQueue
  <1>9. NeverRan' = NeverRan \cup {n} /\ n \notin NeverRan
    BY <1>4, <1>5, <1>6, <1>7 DEF NeverRan, NotStarted
  <1>10. IsFiniteSet(NeverRan) /\ Cardinality(NeverRan) \in Nat
    <2>1. IsFiniteSet(Published)
      BY <1>1, PublishedSize DEF Published, TypeInv, TypeOK
    <2> QED
      BY <1>1, <2>1, ViewTypes, FS_Subset, FS_CardinalityType
  <1>11. Cardinality(NeverRan') = Cardinality(NeverRan) + 1
    BY <1>9, <1>10, FS_AddElement
  <1>12. numberOfTasks' - Cardinality(NeverRan') = numberOfTasks - Cardinality(NeverRan)
    BY <1>1, <1>2, <1>10, <1>11 DEF n
  <1>13. LongestFirst(InQueue', idleTime') = LongestFirst(InQueue, idleTime)
         /\ QueueInv'
    BY <1>1, <1>8 DEF QueueInv
  <1>14. [c \in Cores |-> Mapped(c)]' = [c \in Cores |-> Mapped(c)]
    BY <1>3
  <1> QED
    BY <1>1, <1>2, <1>12, <1>13, <1>14 DEF Abstract!Create, n

(* What a step keeps of the tasks that do not run is enough to keep the view. *)
LEMMA Unseen ==
  ASSUME QueueInv, \A c \in Cores : Mapped(c)' = Mapped(c), numberOfTasks' = numberOfTasks,
         \A t \in Published : ~IsRunning(t) =>
           /\ status'[t] = WAITING_TO_START <=> status[t] = WAITING_TO_START
           /\ idleTime'[t] = idleTime[t]
  PROVE  UNCHANGED Abstract!vars /\ QueueInv'
  <1>1. InQueue' = InQueue /\ NeverRan' = NeverRan
    BY SameSets
  <1>2. \A t \in InQueue : idleTime'[t] = idleTime[t]
    BY DEF InQueue
  <1> QED
    BY <1>1, <1>2, SameView

(* Only the choice and the creation of a task are seen. *)
LEMMA NotSeen ==
  ASSUME SchedulerInv, QueueInv, [Next]_vars,
         ~Publish, \A c \in Cores : ~FindNextTask(c)
  PROVE  UNCHANGED Abstract!vars /\ QueueInv'
  <1>0. TypeInv /\ TaskInv
    BY DEF SchedulerInv
  <1>a. pc = [c \in Cores |-> pc[c]] /\ nextTask \in [Cores -> Tasks \cup {NoTask}]
        /\ currentTask \in [Cores -> Tasks \cup {NoTask}]
    BY <1>0 DEF TypeInv, TypeOK
  <1>1. CASE /\ UNCHANGED <<pc, nextTask, status, idleTime, currentTask, numberOfTasks>>
    <2>1. \A c \in Cores : Mapped(c)' = Mapped(c)
      BY <1>1 DEF Mapped
    <2> QED
      BY <1>1, <2>1, Unseen
  <1>2. CASE WriteStatus \/ WriteStack
    <2>1. /\ bootIndex \notin Published
          /\ UNCHANGED <<pc, nextTask, currentTask, numberOfTasks>>
      BY <1>0, <1>2 DEF WriteStatus, WriteStack, Booting, coreVars, Published, Tasks,
                        TaskInv, TableInv, TypeInv, TypeOK
    <2>2. \A c \in Cores : Mapped(c)' = Mapped(c)
      BY <2>1 DEF Mapped
    <2>3. \A t \in Published : status'[t] = status[t] /\ idleTime'[t] = idleTime[t]
      BY <1>0, <1>2, <2>1 DEF WriteStatus, WriteStack, Published, TypeInv, TypeOK
    <2> QED
      BY <2>1, <2>2, <2>3, Unseen
  <1>3. ASSUME NEW c \in Cores,
               \/ Tick(c) \/ SpinLock(c) \/ NothingToRun(c) \/ SpinRelease(c)
               \/ StartTask(c) \/ SwitchTask(c) \/ Return(c)
        PROVE  UNCHANGED Abstract!vars /\ QueueInv'
    <2>1. /\ pc[c] \notin {"save", "install"} /\ pc'[c] \notin {"save", "install"}
          /\ \A d \in Cores \ {c} : pc'[d] = pc[d] /\ nextTask'[d] = nextTask[d]
          /\ UNCHANGED <<status, idleTime, currentTask, numberOfTasks>>
      BY <1>3, <1>a DEF Tick, SpinLock, NothingToRun, SpinRelease, After, StartTask,
           SwitchTask, Return, Enter, taskVars, coreVars, bootVars
    <2>2. \A d \in Cores : Mapped(d)' = Mapped(d)
      BY <2>1 DEF Mapped
    <2> QED
      BY <2>1, <2>2, Unseen
  <1>4. ASSUME NEW c \in Cores, SaveLastTask(c)
        PROVE  UNCHANGED Abstract!vars /\ QueueInv'
    <2>1. /\ pc[c] = "save" /\ pc' = [pc EXCEPT ![c] = "install"]
          /\ UNCHANGED <<nextTask, idleTime, currentTask, numberOfTasks>>
      BY <1>4 DEF SaveLastTask, coreVars, bootVars
    <2>2. \A d \in Cores : Mapped(d)' = Mapped(d)
      BY <1>a, <2>1 DEF Mapped
    <2>3. ASSUME NEW t \in Published
          PROVE  status'[t] = WAITING_TO_START <=> status[t] = WAITING_TO_START
      <3>1. t \in Tasks /\ t # NoTask
        BY DEF Published, Tasks, NoTask
      <3>2. CASE t = currentTask[c]
        <4>1. status[t] = RUNNING
          BY <1>0, <2>1, <3>1, <3>2 DEF TaskInv, OneCorePerTask
        <4>2. status'[t] = WAITING
          BY <1>0, <1>4, <3>1, <3>2 DEF SaveLastTask, TypeInv, TypeOK
        <4> QED
          BY <4>1, <4>2 DEF RUNNING, WAITING, WAITING_TO_START
      <3>3. CASE t # currentTask[c]
        BY <1>0, <1>4, <3>1, <3>3 DEF SaveLastTask, TypeInv, TypeOK
      <3> QED
        BY <3>2, <3>3
    <2> QED
      BY <2>1, <2>2, <2>3, Unseen
  <1>5. ASSUME NEW c \in Cores, Install(c)
        PROVE  UNCHANGED Abstract!vars /\ QueueInv'
    <2>1. /\ pc[c] = "install" /\ pc' = [pc EXCEPT ![c] = "mark"]
          /\ currentTask' = [currentTask EXCEPT ![c] = nextTask[c]]
          /\ idleTime' = [idleTime EXCEPT ![nextTask[c]] = 0]
          /\ UNCHANGED <<nextTask, status, numberOfTasks>>
      BY <1>5 DEF Install, bootVars
    <2>2. \A d \in Cores : Mapped(d)' = Mapped(d)
      BY <1>a, <2>1 DEF Mapped
    <2>3. IsRunning(nextTask[c])
      BY <2>1 DEF IsRunning, Mapped
    <2>4. \A t \in Published : ~IsRunning(t) => idleTime'[t] = idleTime[t]
      BY <1>0, <2>1, <2>3 DEF Published, TypeInv, TypeOK
    <2> QED
      BY <2>1, <2>2, <2>4, Unseen
  <1>6. ASSUME NEW c \in Cores, MarkRunning(c)
        PROVE  UNCHANGED Abstract!vars /\ QueueInv'
    <2>1. /\ pc[c] = "mark" /\ \A d \in Cores \ {c} : pc'[d] = pc[d]
          /\ pc'[c] \notin {"save", "install"}
          /\ status' = [status EXCEPT ![nextTask[c]] = RUNNING]
          /\ UNCHANGED <<nextTask, idleTime, currentTask, numberOfTasks>>
      BY <1>6, <1>a DEF MarkRunning, coreVars, bootVars
    <2>2. \A d \in Cores : Mapped(d)' = Mapped(d)
      BY <2>1 DEF Mapped
    <2>3. IsRunning(nextTask[c])
      BY <1>0, <2>1 DEF IsRunning, Mapped, TaskInv, ChoiceInv, Chosen
    <2>4. \A t \in Published : ~IsRunning(t) => status'[t] = status[t]
      BY <1>0, <2>1, <2>3 DEF Published, TypeInv, TypeOK
    <2> QED
      BY <2>1, <2>2, <2>4, Unseen
  <1>7. CASE FindFreeIndex \/ (\E c \in Cores : Compute(c)) \/ UNCHANGED vars
    BY <1>1, <1>7 DEF FindFreeIndex, Compute, vars, taskVars, coreVars, bootVars
  <1> QED
    BY <1>2, <1>3, <1>4, <1>5, <1>6, <1>7 DEF Next, CreateNewTask, SchedulerMain

(* A step of the scheduler is a step of RoundRobin or none. *)
LEMMA StepRefines ==
  SchedulerInv /\ QueueInv /\ [Next]_vars => [Abstract!Next]_(Abstract!vars) /\ QueueInv'
  <1> SUFFICES ASSUME SchedulerInv, QueueInv, [Next]_vars
               PROVE  [Abstract!Next]_(Abstract!vars) /\ QueueInv'
    OBVIOUS
  <1>1. CASE Publish
    BY <1>1, PublishCreates DEF Abstract!Next
  <1>2. ASSUME NEW c \in Cores, FindNextTask(c)
        PROVE  [Abstract!Next]_(Abstract!vars) /\ QueueInv'
    BY <1>2, ChoiceStarts, ChoiceRotates DEF Abstract!Next
  <1>3. CASE ~Publish /\ \A c \in Cores : ~FindNextTask(c)
    BY <1>3, NotSeen
  <1> QED
    BY <1>1, <1>2, <1>3

LEMMA InitRefines == Init => Abstract!Init /\ QueueInv
  <1> SUFFICES ASSUME Init PROVE Abstract!Init /\ QueueInv
    OBVIOUS
  <1>1. Published = {}
    BY DEF Init, Published, Tasks
  <1>2. InQueue = {} /\ NeverRan = {}
    BY <1>1 DEF InQueue, NeverRan, NotStarted
  <1>3. IsFiniteSet({}) /\ Cardinality({}) = 0
    BY FS_EmptySet
  <1>4. LongestFirst(InQueue, idleTime) = <<>>
    BY <1>2, <1>3 DEF LongestFirst
  <1>5. [c \in Cores |-> Mapped(c)] = [c \in Cores |-> NoTask]
    BY DEF Init, Mapped
  <1>6. numberOfTasks = 0 /\ numberOfTasks - Cardinality(NeverRan) = 0
    BY <1>2, <1>3 DEF Init
  <1>7. QueueInv
    BY <1>2, <1>3 DEF QueueInv, Sortable
  <1> QED
    BY <1>4, <1>5, <1>6, <1>7 DEF Abstract!Init

(* Whatever the cores do, each of their choices is one a round-robin       *)
(* scheduler makes, without a lock and in one step: the oldest task that   *)
(* never ran, or else the one that has waited longest, and the task of the *)
(* core goes to the back of the queue.                                     *)
THEOREM SchedulingIsRoundRobin == Spec => ImplementsRoundRobin
  <1>1. SchedulerInv <=> TypeInv /\ LockInv /\ TaskInv /\ OrderInv /\ WaitInv
    BY DEF SchedulerInv
  <1> QED
    BY <1>1, TaskInvariant, InitOrderInv, NextOrderInv, InitWaitInv, NextWaitInv,
       InitRefines, StepRefines, PTL DEF Spec, ImplementsRoundRobin, Abstract!Spec

=============================================================================
