----------------------------- MODULE KernelProofs -----------------------------
(***************************************************************************)
(* Theorems about Kernel for any number of cores, tasks, threads and       *)
(* system calls.  Each invariant is proved from the ones before it.        *)
(***************************************************************************)
EXTENDS Kernel, TLAPS

USE NCoresAssumption, NTasksAssumption, ThreadsAssumption, MaxCallsAssumption,
    NamedAssumption, GarbageAssumption, VectorsAssumption

(* The points between the two calls a core makes on the lock of            *)
(* syscallMain, and those of them at which it still needs the registers    *)
(* of the system call.                                                     *)
Creating == {"realloc", "pages", "scan", "write"}
Critical == Creating \cup {"release"}

-----------------------------------------------------------------------------
(* What keeps the types: bootMain is inside a call only while it has a     *)
(* task to create, a core behind the gate has a task, and createThread     *)
(* has named one that exists.                                              *)
BootInv ==
  /\ bootAt # "done" => numberOfTasks < NTasks
  /\ bootAt \in {"holding", "inHeap"} => lost = "no" /\ bootStep < Len(BootCalls)
  /\ \A t \in Tasks : t >= numberOfTasks => status[t] = "absent"

CallInv ==
  \A c \in Cores :
    /\ at[c] \notin {"code", "halted"} => task[c] \in Tasks
    /\ at[c] \in Creating =>
         \E t \in Tasks : t < numberOfTasks /\ request[task[c]].index = t
    /\ at[c] \in {"realloc", "pages", "scan"} => left[c] \in 1 .. 2

(* No task has two cores, so no core changes the registers of another's    *)
(* system call.                                                            *)
TaskInv ==
  /\ \A c \in Cores : task[c] # NoTask => status[task[c]] = "running"
  /\ \A c, d \in Cores : task[c] = task[d] /\ task[c] # NoTask => c = d

TypeInv == TypeOK /\ BootInv /\ TaskInv /\ CallInv

(* A lock is held by the core that is inside it, or by one that can no     *)
(* longer release it.                                                      *)
SyscallLock ==
  /\ holder["syscall"] # BootMain
  /\ \A c \in Cores : at[c] \in Critical => holder["syscall"] = c
  /\ \A c \in Cores : holder["syscall"] = c
                        => at[c] \in Critical \/ (at[c] = "halted" /\ deadlock)

PageLock ==
  /\ \A c \in Cores : at[c] = "scan" <=> holder["page"] = c
  /\ bootAt = "holding" => holder["page"] = BootMain
  /\ holder["page"] = BootMain => bootAt = "holding" \/ lost = "allocator"

LockInv == SyscallLock /\ PageLock /\ DeadlockNeedsLostBoot

(* What createThread knows of the array it grows. *)
ArrayInv ==
  /\ \A c \in Cores, t \in Tasks :
       at[c] \in Creating /\ request[task[c]].index = t
         => /\ numberOfThreads[t] > 0
            /\ at[c] = "realloc" => numberOfThreads[t] % ThreadsPerTable = 0
  /\ \A t \in Tasks : capacity[t] = 0 => numberOfThreads[t] >= ThreadsPerTable
  /\ ThreadsInsideArray

-----------------------------------------------------------------------------
(* Facts about the constants and the helpers.                              *)

(* bootMain makes eight calls for one task. *)
LEMMA CallsOfBoot == Len(BootCalls) = 8
  BY DEF BootCalls

(* The values that stand for nobody are no cores and no tasks. *)
LEMMA ConstantFacts ==
  /\ NoTask \notin Tasks /\ Tasks \subseteq Nat
  /\ Free \notin Cores /\ BootMain \notin Cores /\ 0 \in Cores
  BY DEF NoTask, Tasks, Cores, Free, BootMain

(* Whatever kmalloc returns, its entries are entries of an array. *)
LEMMA NewArrayType ==
  ASSUME TypeOK, NEW t, NewArray(t) PROVE threads' \in [Tasks -> SUBSET Slots]
  <1>1. PICK garbage \in Garbage : threads' = [threads EXCEPT ![t] = garbage]
    BY DEF NewArray
  <1>2. garbage \in SUBSET Slots
    BY DEF Slots
  <1> QED
    BY <1>1, <1>2 DEF TypeOK

(* A core that changes the registers of its own system call leaves those   *)
(* of the others alone.                                                    *)
LEMMA OtherCalls ==
  ASSUME TypeInv, NEW c \in Cores, task[c] \in Tasks, NEW r, UNCHANGED task,
         request' = [request EXCEPT ![task[c]] = r]
  PROVE  \A d \in Cores : d # c /\ at[d] \in Creating
                          => request'[task'[d]] = request[task[d]]
  BY ConstantFacts DEF TypeInv, TypeOK, TaskInv, CallInv, Creating

(* What a tick does to the table of tasks, apart from where it leaves. *)
Moves(c, next) ==
  /\ status[next] \in {"new", "waiting"} /\ task'[c] = next
  /\ \A d \in Cores : d # c => task'[d] = task[d] /\ at'[d] = at[d]
  /\ \A t \in Tasks : status'[t] = IF t = next THEN "running"
                                   ELSE IF t = task[c] THEN "waiting"
                                   ELSE status[t]

(* A tick moves one task to the core and the old one to the table. *)
LEMMA TickMoves ==
  ASSUME TypeOK, NEW c \in Cores, Tick(c)
  PROVE  \E next \in Tasks : Moves(c, next)
  BY DEF TypeOK, Tick, Moves

(* The invariants of the types hold when bootMain starts. *)
LEMMA InitTypeInv == Init => TypeInv
  <1> SUFFICES ASSUME Init PROVE TypeInv
    OBVIOUS
  <1>1. /\ holder \in [Locks -> Cores \cup {Free, BootMain}]
        /\ at \in [Cores -> Points]
        /\ task \in [Cores -> Tasks \cup {NoTask}]
        /\ request \in [Tasks -> Requests \cup {NoCall}]
    BY DEF Init, Points
  <1>2. /\ bootStep \in 0 .. Len(BootCalls) /\ numberOfTasks \in 0 .. NTasks
        /\ left \in [Cores -> 0 .. 2] /\ calls \in 0 .. MaxCalls
        /\ numberOfThreads \in [Tasks -> Nat]
        /\ capacity \in [Tasks -> {0, ThreadsPerTable}]
        /\ threads \in [Tasks -> SUBSET Slots]
    BY CallsOfBoot DEF Init
  <1>3. TypeOK
    BY <1>1, <1>2 DEF Init, TypeOK
  <1>4. BootInv /\ TaskInv /\ CallInv
    BY DEF Init, BootInv, TaskInv, CallInv, Creating, Tasks
  <1> QED
    BY <1>3, <1>4 DEF TypeInv

(* The types of the variables. *)
LEMMA NextTypes == TypeInv /\ [Next]_vars => TypeOK'
  <1> SUFFICES ASSUME TypeInv, [Next]_vars PROVE TypeOK'
    OBVIOUS
  <1> USE DEF TypeInv, TypeOK, taskVars, callVars, bootVars, threadVars,
     Points, Locks
  <1>1. CASE BootLock
    BY <1>1 DEF BootLock, Booting, Acquire
  <1>2. CASE BootUnlock
    BY <1>2, CallsOfBoot DEF BootUnlock, Booting, Release, BootInv
  <1>3. CASE BootKmalloc
    BY <1>3 DEF BootKmalloc, Booting
  <1>4. CASE BootKmallocReturns
    <2>1. threads' \in [Tasks -> SUBSET Slots]
      BY <1>4, NewArrayType DEF BootKmallocReturns
    <2> QED
      BY <1>4, <2>1, CallsOfBoot DEF BootKmallocReturns, Booting, BootInv
  <1>5. CASE Publish
    <2>1. numberOfTasks' \in 0 .. NTasks /\ bootAt' \in {"between", "done"}
      BY <1>5 DEF Publish, Booting, BootInv
    <2>2. bootStep' \in 0 .. Len(BootCalls)
      BY <1>5, CallsOfBoot DEF Publish
    <2>3. status' \in [Tasks -> {"absent", "new", "running", "waiting"}]
      BY <1>5 DEF Publish
    <2> QED
      BY <1>5, <2>1, <2>2, <2>3 DEF Publish
  <1>6. ASSUME NEW c \in Cores, Tick(c) PROVE TypeOK'
    BY <1>6 DEF Tick, Leaves, Where, Booting, InterruptsOn
  <1>7. ASSUME NEW c \in Cores, SpuriousInterrupt(c) PROVE TypeOK'
    BY <1>7 DEF SpuriousInterrupt, Exception, Leaves, Where, Delivered, Gates,
       SpuriousVector, IsException, SegmentNotPresent, Deadlock, Booting,
       InterruptsOn
  <1>8. ASSUME NEW c \in Cores, SystemCall(c) PROVE TypeOK'
    BY <1>8 DEF SystemCall
  <1>9. ASSUME NEW c \in Cores, ForbiddenInterrupt(c) PROVE TypeOK'
    BY <1>9 DEF ForbiddenInterrupt, Exception, Leaves, Where, Raised, Gates,
       OpenToPrograms, SyscallVector, IsException, SegmentNotPresent,
       GeneralProtection, Deadlock, Booting
  <1>10. ASSUME NEW c \in Cores, Enter(c) PROVE TypeOK'
    BY <1>10 DEF Enter, Quiet, Goto
  <1>11. ASSUME NEW c \in Cores, NoThread(c) PROVE TypeOK'
    BY <1>11 DEF NoThread, Quiet, Goto, Lock, Acquire
  <1>12. ASSUME NEW c \in Cores, CreateThread(c) PROVE TypeOK'
    BY <1>12 DEF CreateThread, Quiet, Goto, Lock, Acquire, Names, Valid
  <1>13. ASSUME NEW c \in Cores, Realloc(c) PROVE TypeOK'
    <2>1. threads' \in [Tasks -> SUBSET Slots]
      BY <1>13, NewArrayType DEF Realloc
    <2> QED
      BY <1>13, <2>1 DEF Realloc, Quiet, Goto
  <1>14. ASSUME NEW c \in Cores, LockPages(c) PROVE TypeOK'
    BY <1>14 DEF LockPages, Quiet, Goto, Acquire
  <1>15. ASSUME NEW c \in Cores, UnlockPages(c) PROVE TypeOK'
    BY <1>15 DEF UnlockPages, Quiet, Goto, Release, CallInv
  <1>16. ASSUME NEW c \in Cores, Write(c) PROVE TypeOK'
    <2>1. PICK t \in Tasks : request[task[c]].index = t
      BY <1>16 DEF Write, Goto, CallInv, Creating
    <2> QED
      BY <1>16, <2>1 DEF Write, Quiet, Goto
  <1>17. ASSUME NEW c \in Cores, Return(c) PROVE TypeOK'
    BY <1>17 DEF Return, Quiet, Goto, Release
  <1>18. ASSUME NEW c \in Cores, SpinsTooLong(c) PROVE TypeOK'
    BY <1>18 DEF SpinsTooLong, Exception, Leaves, Where, Abandoned, Deadlock,
       Booting
  <1>19. CASE UNCHANGED vars
    BY <1>19 DEF vars
  <1> QED
    BY <1>1, <1>2, <1>3, <1>4, <1>5, <1>6, <1>7, <1>8, <1>9, <1>10, <1>11,
       <1>12, <1>13, <1>14, <1>15, <1>16, <1>17, <1>18, <1>19 DEF Next,
       BootStep, Handler

(* A task that is not created yet has no entry; bootMain stops at NTasks. *)
LEMMA NextBoot == TypeInv /\ [Next]_vars => BootInv'
  <1> SUFFICES ASSUME TypeInv, [Next]_vars PROVE BootInv'
    OBVIOUS
  <1> USE DEF TypeInv, TypeOK, BootInv, taskVars, callVars, bootVars,
     threadVars, Tasks, Cores
  <1>1. CASE BootLock
    BY <1>1 DEF BootLock, Booting, Acquire
  <1>2. CASE BootUnlock
    BY <1>2 DEF BootUnlock, Booting, Release
  <1>3. CASE BootKmalloc
    BY <1>3 DEF BootKmalloc, Booting
  <1>4. CASE BootKmallocReturns
    BY <1>4 DEF BootKmallocReturns, Booting, NewArray
  <1>5. CASE Publish
    BY <1>5 DEF Publish, Booting
  <1>6. ASSUME NEW c \in Cores, Tick(c) PROVE BootInv'
    <2>1. PICK next \in Tasks : Moves(c, next)
      BY <1>6, TickMoves
    <2>2. \A t \in Tasks : status[t] = "absent" => status'[t] = "absent"
      BY <1>6, <2>1, ConstantFacts DEF Moves, TaskInv
    <2>3. UNCHANGED numberOfTasks
      BY <1>6 DEF Tick
    <2> QED
      BY <1>6, <2>2, <2>3 DEF Tick, Leaves, Booting
  <1>7. ASSUME NEW c \in Cores, SpuriousInterrupt(c) PROVE BootInv'
    BY <1>7 DEF SpuriousInterrupt, Exception, Leaves, Where, Delivered, Gates,
       SpuriousVector, IsException, SegmentNotPresent, Deadlock, Booting,
       InterruptsOn
  <1>8. ASSUME NEW c \in Cores, SystemCall(c) PROVE BootInv'
    BY <1>8 DEF SystemCall
  <1>9. ASSUME NEW c \in Cores, ForbiddenInterrupt(c) PROVE BootInv'
    BY <1>9 DEF ForbiddenInterrupt, Exception, Leaves, Where, Raised, Gates,
       OpenToPrograms, SyscallVector, IsException, SegmentNotPresent,
       GeneralProtection, Deadlock, Booting
  <1>10. ASSUME NEW c \in Cores, Enter(c) PROVE BootInv'
    BY <1>10 DEF Enter, Quiet, Goto
  <1>11. ASSUME NEW c \in Cores, NoThread(c) PROVE BootInv'
    BY <1>11 DEF NoThread, Quiet, Goto, Lock, Acquire
  <1>12. ASSUME NEW c \in Cores, CreateThread(c) PROVE BootInv'
    BY <1>12 DEF CreateThread, Quiet, Goto, Lock, Acquire, Names, Valid
  <1>13. ASSUME NEW c \in Cores, Realloc(c) PROVE BootInv'
    BY <1>13 DEF Realloc, Quiet, Goto, NewArray
  <1>14. ASSUME NEW c \in Cores, LockPages(c) PROVE BootInv'
    BY <1>14 DEF LockPages, Quiet, Goto, Acquire
  <1>15. ASSUME NEW c \in Cores, UnlockPages(c) PROVE BootInv'
    BY <1>15 DEF UnlockPages, Quiet, Goto, Release
  <1>16. ASSUME NEW c \in Cores, Write(c) PROVE BootInv'
    BY <1>16 DEF Write, Quiet, Goto
  <1>17. ASSUME NEW c \in Cores, Return(c) PROVE BootInv'
    BY <1>17 DEF Return, Quiet, Goto, Release
  <1>18. ASSUME NEW c \in Cores, SpinsTooLong(c) PROVE BootInv'
    BY <1>18 DEF SpinsTooLong, Exception, Leaves, Where, Abandoned, Deadlock,
       Booting
  <1>19. CASE UNCHANGED vars
    BY <1>19 DEF vars
  <1> QED
    BY <1>1, <1>2, <1>3, <1>4, <1>5, <1>6, <1>7, <1>8, <1>9, <1>10, <1>11,
       <1>12, <1>13, <1>14, <1>15, <1>16, <1>17, <1>18, <1>19 DEF Next,
       BootStep, Handler

(* A tick gives a core a task that has none. *)
LEMMA NextTask == TypeInv /\ [Next]_vars => TaskInv'
  <1> SUFFICES ASSUME TypeInv, [Next]_vars PROVE TaskInv'
    OBVIOUS
  <1> USE DEF TypeInv, TypeOK, TaskInv, BootInv, taskVars, callVars, bootVars,
     threadVars
  <1>1. CASE BootLock
    BY <1>1 DEF BootLock, Booting, Acquire
  <1>2. CASE BootUnlock
    BY <1>2 DEF BootUnlock, Booting, Release
  <1>3. CASE BootKmalloc
    BY <1>3 DEF BootKmalloc, Booting
  <1>4. CASE BootKmallocReturns
    BY <1>4 DEF BootKmallocReturns, Booting, NewArray
  <1>5. CASE Publish
    BY <1>5 DEF Publish, Booting
  <1>6. ASSUME NEW c \in Cores, Tick(c) PROVE TaskInv'
    BY <1>6 DEF Tick, Leaves, Where, Booting, InterruptsOn
  <1>7. ASSUME NEW c \in Cores, SpuriousInterrupt(c) PROVE TaskInv'
    BY <1>7 DEF SpuriousInterrupt, Exception, Leaves, Where, Delivered, Gates,
       SpuriousVector, IsException, SegmentNotPresent, Deadlock, Booting,
       InterruptsOn
  <1>8. ASSUME NEW c \in Cores, SystemCall(c) PROVE TaskInv'
    BY <1>8 DEF SystemCall
  <1>9. ASSUME NEW c \in Cores, ForbiddenInterrupt(c) PROVE TaskInv'
    BY <1>9 DEF ForbiddenInterrupt, Exception, Leaves, Where, Raised, Gates,
       OpenToPrograms, SyscallVector, IsException, SegmentNotPresent,
       GeneralProtection, Deadlock, Booting
  <1>10. ASSUME NEW c \in Cores, Enter(c) PROVE TaskInv'
    BY <1>10 DEF Enter, Quiet, Goto
  <1>11. ASSUME NEW c \in Cores, NoThread(c) PROVE TaskInv'
    BY <1>11 DEF NoThread, Quiet, Goto, Lock, Acquire
  <1>12. ASSUME NEW c \in Cores, CreateThread(c) PROVE TaskInv'
    BY <1>12 DEF CreateThread, Quiet, Goto, Lock, Acquire, Names, Valid
  <1>13. ASSUME NEW c \in Cores, Realloc(c) PROVE TaskInv'
    BY <1>13 DEF Realloc, Quiet, Goto, NewArray
  <1>14. ASSUME NEW c \in Cores, LockPages(c) PROVE TaskInv'
    BY <1>14 DEF LockPages, Quiet, Goto, Acquire
  <1>15. ASSUME NEW c \in Cores, UnlockPages(c) PROVE TaskInv'
    BY <1>15 DEF UnlockPages, Quiet, Goto, Release
  <1>16. ASSUME NEW c \in Cores, Write(c) PROVE TaskInv'
    BY <1>16 DEF Write, Quiet, Goto
  <1>17. ASSUME NEW c \in Cores, Return(c) PROVE TaskInv'
    BY <1>17 DEF Return, Quiet, Goto, Release
  <1>18. ASSUME NEW c \in Cores, SpinsTooLong(c) PROVE TaskInv'
    BY <1>18 DEF SpinsTooLong, Exception, Leaves, Where, Abandoned, Deadlock,
       Booting
  <1>19. CASE UNCHANGED vars
    BY <1>19 DEF vars
  <1> QED
    BY <1>1, <1>2, <1>3, <1>4, <1>5, <1>6, <1>7, <1>8, <1>9, <1>10, <1>11,
       <1>12, <1>13, <1>14, <1>15, <1>16, <1>17, <1>18, <1>19 DEF Next,
       BootStep, Handler

(* The tasks a core behind the gate works for. *)
LEMMA NextCall == TypeInv /\ [Next]_vars => CallInv'
  <1> SUFFICES ASSUME TypeInv, [Next]_vars PROVE CallInv'
    OBVIOUS
  <1> USE DEF TypeInv, TypeOK, TaskInv, CallInv, taskVars, callVars, bootVars,
     threadVars, Creating
  <1>1. CASE BootLock
    BY <1>1 DEF BootLock, Booting, Acquire
  <1>2. CASE BootUnlock
    BY <1>2 DEF BootUnlock, Booting, Release
  <1>3. CASE BootKmalloc
    BY <1>3 DEF BootKmalloc, Booting
  <1>4. CASE BootKmallocReturns
    BY <1>4 DEF BootKmallocReturns, Booting, NewArray
  <1>5. CASE Publish
    BY <1>5 DEF Publish, Booting, Tasks
  <1>6. ASSUME NEW c \in Cores, Tick(c) PROVE CallInv'
    BY <1>6 DEF Tick, Leaves, Where, Booting, InterruptsOn
  <1>7. ASSUME NEW c \in Cores, SpuriousInterrupt(c) PROVE CallInv'
    BY <1>7 DEF SpuriousInterrupt, Exception, Leaves, Where, Delivered, Gates,
       SpuriousVector, IsException, SegmentNotPresent, Deadlock, Booting,
       InterruptsOn
  <1>8. ASSUME NEW c \in Cores, SystemCall(c) PROVE CallInv'
    BY <1>8 DEF SystemCall
  <1>9. ASSUME NEW c \in Cores, ForbiddenInterrupt(c) PROVE CallInv'
    BY <1>9 DEF ForbiddenInterrupt, Exception, Leaves, Where, Raised, Gates,
       OpenToPrograms, SyscallVector, IsException, SegmentNotPresent,
       GeneralProtection, Deadlock, Booting
  <1>10. ASSUME NEW c \in Cores, Enter(c) PROVE CallInv'
    BY <1>10 DEF Enter, Quiet, Goto
  <1>11. ASSUME NEW c \in Cores, NoThread(c) PROVE CallInv'
    BY <1>11 DEF NoThread, Quiet, Goto, Lock, Acquire
  <1>12. ASSUME NEW c \in Cores, CreateThread(c) PROVE CallInv'
    BY <1>12 DEF CreateThread, Quiet, Goto, Lock, Acquire, Names, Valid
  <1>13. ASSUME NEW c \in Cores, Realloc(c) PROVE CallInv'
    BY <1>13 DEF Realloc, Quiet, Goto, NewArray
  <1>14. ASSUME NEW c \in Cores, LockPages(c) PROVE CallInv'
    BY <1>14 DEF LockPages, Quiet, Goto, Acquire
  <1>15. ASSUME NEW c \in Cores, UnlockPages(c) PROVE CallInv'
    BY <1>15 DEF UnlockPages, Quiet, Goto, Release
  <1>16. ASSUME NEW c \in Cores, Write(c) PROVE CallInv'
    BY <1>16 DEF Write, Quiet, Goto
  <1>17. ASSUME NEW c \in Cores, Return(c) PROVE CallInv'
    <2>1. /\ at'[c] = "code" /\ UNCHANGED <<task, left, numberOfTasks>>
          /\ \A d \in Cores : d # c => at'[d] = at[d]
      BY <1>17 DEF Return, Goto, Quiet
    <2>2. \A d \in Cores : d # c /\ at[d] \in Creating
                            => request'[task'[d]] = request[task[d]]
      BY <1>17, OtherCalls DEF Return, Goto, Quiet
    <2> QED
      BY <2>1, <2>2
  <1>18. ASSUME NEW c \in Cores, SpinsTooLong(c) PROVE CallInv'
    BY <1>18 DEF SpinsTooLong, Exception, Leaves, Where, Abandoned, Deadlock,
       Booting
  <1>19. CASE UNCHANGED vars
    BY <1>19 DEF vars
  <1> QED
    BY <1>1, <1>2, <1>3, <1>4, <1>5, <1>6, <1>7, <1>8, <1>9, <1>10, <1>11,
       <1>12, <1>13, <1>14, <1>15, <1>16, <1>17, <1>18, <1>19 DEF Next,
       BootStep, Handler

(* Every variable keeps its type, for any number of cores and tasks. *)
THEOREM TypeCorrect == Spec => []TypeOK
  <1>1. TypeInv /\ [Next]_vars => TypeInv'
    BY NextTypes, NextBoot, NextTask, NextCall DEF TypeInv
  <1>2. TypeInv => TypeOK
    BY DEF TypeInv
  <1> QED
    BY <1>1, <1>2, InitTypeInv, PTL DEF Spec

-----------------------------------------------------------------------------
(* Nobody holds a lock at first. *)
LEMMA InitLockInv == Init => LockInv
  BY ConstantFacts DEF Init, LockInv, SyscallLock, PageLock,
     DeadlockNeedsLostBoot, Critical,
     Creating, Locks, Free, BootMain

(* The lock of syscallMain: only the core inside releases it. *)
LEMMA NextSyscallLock == TypeInv /\ LockInv /\ [Next]_vars => SyscallLock'
  <1> SUFFICES ASSUME TypeInv /\ LockInv, [Next]_vars PROVE SyscallLock'
    OBVIOUS
  <1> USE DEF TypeInv, TypeOK, taskVars, callVars, bootVars, threadVars,
     Critical, Creating, Locks, Free, BootMain, Cores, LockInv, SyscallLock
  <1>1. CASE BootLock
    BY <1>1 DEF BootLock, Booting, Acquire
  <1>2. CASE BootUnlock
    BY <1>2 DEF BootUnlock, Booting, Release
  <1>3. CASE BootKmalloc
    BY <1>3 DEF BootKmalloc, Booting
  <1>4. CASE BootKmallocReturns
    BY <1>4 DEF BootKmallocReturns, Booting, NewArray
  <1>5. CASE Publish
    BY <1>5 DEF Publish, Booting
  <1>6. ASSUME NEW c \in Cores, Tick(c) PROVE SyscallLock'
    BY <1>6 DEF Tick, Leaves, Where, Booting, InterruptsOn
  <1>7. ASSUME NEW c \in Cores, SpuriousInterrupt(c) PROVE SyscallLock'
    BY <1>7 DEF SpuriousInterrupt, Exception, Leaves, Where, Delivered, Gates,
       SpuriousVector, IsException, SegmentNotPresent, Deadlock, Booting,
       InterruptsOn
  <1>8. ASSUME NEW c \in Cores, SystemCall(c) PROVE SyscallLock'
    BY <1>8 DEF SystemCall
  <1>9. ASSUME NEW c \in Cores, ForbiddenInterrupt(c) PROVE SyscallLock'
    BY <1>9 DEF ForbiddenInterrupt, Exception, Leaves, Where, Raised, Gates,
       OpenToPrograms, SyscallVector, IsException, SegmentNotPresent,
       GeneralProtection, Deadlock, Booting
  <1>10. ASSUME NEW c \in Cores, Enter(c) PROVE SyscallLock'
    BY <1>10 DEF Enter, Quiet, Goto
  <1>11. ASSUME NEW c \in Cores, NoThread(c) PROVE SyscallLock'
    BY <1>11 DEF NoThread, Quiet, Goto, Lock, Acquire
  <1>12. ASSUME NEW c \in Cores, CreateThread(c) PROVE SyscallLock'
    BY <1>12 DEF CreateThread, Quiet, Goto, Lock, Acquire, Names, Valid
  <1>13. ASSUME NEW c \in Cores, Realloc(c) PROVE SyscallLock'
    BY <1>13 DEF Realloc, Quiet, Goto, NewArray
  <1>14. ASSUME NEW c \in Cores, LockPages(c) PROVE SyscallLock'
    BY <1>14 DEF LockPages, Quiet, Goto, Acquire
  <1>15. ASSUME NEW c \in Cores, UnlockPages(c) PROVE SyscallLock'
    BY <1>15 DEF UnlockPages, Quiet, Goto, Release
  <1>16. ASSUME NEW c \in Cores, Write(c) PROVE SyscallLock'
    BY <1>16 DEF Write, Quiet, Goto
  <1>17. ASSUME NEW c \in Cores, Return(c) PROVE SyscallLock'
    BY <1>17 DEF Return, Quiet, Goto, Release
  <1>18. ASSUME NEW c \in Cores, SpinsTooLong(c) PROVE SyscallLock'
    BY <1>18 DEF SpinsTooLong, Exception, Leaves, Where, Abandoned, Deadlock,
       Booting
  <1>19. CASE UNCHANGED vars
    BY <1>19 DEF vars
  <1> QED
    BY <1>1, <1>2, <1>3, <1>4, <1>5, <1>6, <1>7, <1>8, <1>9, <1>10, <1>11,
       <1>12, <1>13, <1>14, <1>15, <1>16, <1>17, <1>18, <1>19 DEF Next,
       BootStep, Handler

(* The lock of physicalPageAlloc: bootMain may be taken away with it. *)
LEMMA NextPageLock == TypeInv /\ LockInv /\ [Next]_vars => PageLock'
  <1> SUFFICES ASSUME TypeInv /\ LockInv, [Next]_vars PROVE PageLock'
    OBVIOUS
  <1> USE DEF TypeInv, TypeOK, taskVars, callVars, bootVars, threadVars,
     Critical, Creating, Locks, Free, BootMain, Cores, LockInv, PageLock,
     BootInv
  <1>1. CASE BootLock
    BY <1>1 DEF BootLock, Booting, Acquire
  <1>2. CASE BootUnlock
    BY <1>2 DEF BootUnlock, Booting, Release
  <1>3. CASE BootKmalloc
    BY <1>3 DEF BootKmalloc, Booting
  <1>4. CASE BootKmallocReturns
    BY <1>4 DEF BootKmallocReturns, Booting, NewArray
  <1>5. CASE Publish
    BY <1>5 DEF Publish, Booting
  <1>6. ASSUME NEW c \in Cores, Tick(c) PROVE PageLock'
    BY <1>6 DEF Tick, Leaves, Where, Booting, InterruptsOn
  <1>7. ASSUME NEW c \in Cores, SpuriousInterrupt(c) PROVE PageLock'
    BY <1>7 DEF SpuriousInterrupt, Exception, Leaves, Where, Delivered, Gates,
       SpuriousVector, IsException, SegmentNotPresent, Deadlock, Booting,
       InterruptsOn
  <1>8. ASSUME NEW c \in Cores, SystemCall(c) PROVE PageLock'
    BY <1>8 DEF SystemCall
  <1>9. ASSUME NEW c \in Cores, ForbiddenInterrupt(c) PROVE PageLock'
    BY <1>9 DEF ForbiddenInterrupt, Exception, Leaves, Where, Raised, Gates,
       OpenToPrograms, SyscallVector, IsException, SegmentNotPresent,
       GeneralProtection, Deadlock, Booting
  <1>10. ASSUME NEW c \in Cores, Enter(c) PROVE PageLock'
    BY <1>10 DEF Enter, Quiet, Goto
  <1>11. ASSUME NEW c \in Cores, NoThread(c) PROVE PageLock'
    BY <1>11 DEF NoThread, Quiet, Goto, Lock, Acquire
  <1>12. ASSUME NEW c \in Cores, CreateThread(c) PROVE PageLock'
    BY <1>12 DEF CreateThread, Quiet, Goto, Lock, Acquire, Names, Valid
  <1>13. ASSUME NEW c \in Cores, Realloc(c) PROVE PageLock'
    BY <1>13 DEF Realloc, Quiet, Goto, NewArray
  <1>14. ASSUME NEW c \in Cores, LockPages(c) PROVE PageLock'
    BY <1>14 DEF LockPages, Quiet, Goto, Acquire
  <1>15. ASSUME NEW c \in Cores, UnlockPages(c) PROVE PageLock'
    BY <1>15 DEF UnlockPages, Quiet, Goto, Release
  <1>16. ASSUME NEW c \in Cores, Write(c) PROVE PageLock'
    BY <1>16 DEF Write, Quiet, Goto
  <1>17. ASSUME NEW c \in Cores, Return(c) PROVE PageLock'
    BY <1>17 DEF Return, Quiet, Goto, Release
  <1>18. ASSUME NEW c \in Cores, SpinsTooLong(c) PROVE PageLock'
    BY <1>18 DEF SpinsTooLong, Exception, Leaves, Where, Abandoned, Deadlock,
       Booting
  <1>19. CASE UNCHANGED vars
    BY <1>19 DEF vars
  <1> QED
    BY <1>1, <1>2, <1>3, <1>4, <1>5, <1>6, <1>7, <1>8, <1>9, <1>10, <1>11,
       <1>12, <1>13, <1>14, <1>15, <1>16, <1>17, <1>18, <1>19 DEF Next,
       BootStep, Handler

(* A core spins for ever only for the lock bootMain was lost with. *)
LEMMA NextDeadlock == TypeInv /\ LockInv /\ [Next]_vars => DeadlockNeedsLostBoot'
  <1> SUFFICES ASSUME TypeInv /\ LockInv, [Next]_vars PROVE DeadlockNeedsLostBoot'
    OBVIOUS
  <1> USE DEF TypeInv, TypeOK, taskVars, callVars, bootVars, threadVars,
     Critical, Creating, Locks, Free, BootMain, Cores, LockInv, SyscallLock,
     PageLock, DeadlockNeedsLostBoot, BootInv
  <1>1. CASE BootLock
    BY <1>1 DEF BootLock, Booting, Acquire
  <1>2. CASE BootUnlock
    BY <1>2 DEF BootUnlock, Booting, Release
  <1>3. CASE BootKmalloc
    BY <1>3 DEF BootKmalloc, Booting
  <1>4. CASE BootKmallocReturns
    BY <1>4 DEF BootKmallocReturns, Booting, NewArray
  <1>5. CASE Publish
    BY <1>5 DEF Publish, Booting
  <1>6. ASSUME NEW c \in Cores, Tick(c) PROVE DeadlockNeedsLostBoot'
    BY <1>6 DEF Tick, Leaves, Where, Booting, InterruptsOn
  <1>7. ASSUME NEW c \in Cores, SpuriousInterrupt(c) PROVE DeadlockNeedsLostBoot'
    <2>1. Delivered(SpuriousVector) # Deadlock
      BY DEF Delivered, SpuriousVector, Gates, SegmentNotPresent, Deadlock
    <2>2. (deadlock' = deadlock) /\ Leaves(c)
      BY <1>7, <2>1 DEF SpuriousInterrupt, Exception
    <2> QED
      BY <2>2 DEF Leaves, Booting
  <1>8. ASSUME NEW c \in Cores, SystemCall(c) PROVE DeadlockNeedsLostBoot'
    BY <1>8 DEF SystemCall
  <1>9. ASSUME NEW c \in Cores, ForbiddenInterrupt(c) PROVE DeadlockNeedsLostBoot'
    BY <1>9 DEF ForbiddenInterrupt, Exception, Leaves, Where, Raised, Gates,
       OpenToPrograms, SyscallVector, IsException, SegmentNotPresent,
       GeneralProtection, Deadlock, Booting
  <1>10. ASSUME NEW c \in Cores, Enter(c) PROVE DeadlockNeedsLostBoot'
    BY <1>10 DEF Enter, Quiet, Goto
  <1>11. ASSUME NEW c \in Cores, NoThread(c) PROVE DeadlockNeedsLostBoot'
    BY <1>11 DEF NoThread, Quiet, Goto, Lock, Acquire
  <1>12. ASSUME NEW c \in Cores, CreateThread(c) PROVE DeadlockNeedsLostBoot'
    BY <1>12 DEF CreateThread, Quiet, Goto, Lock, Acquire, Names, Valid
  <1>13. ASSUME NEW c \in Cores, Realloc(c) PROVE DeadlockNeedsLostBoot'
    BY <1>13 DEF Realloc, Quiet, Goto, NewArray
  <1>14. ASSUME NEW c \in Cores, LockPages(c) PROVE DeadlockNeedsLostBoot'
    BY <1>14 DEF LockPages, Quiet, Goto, Acquire
  <1>15. ASSUME NEW c \in Cores, UnlockPages(c) PROVE DeadlockNeedsLostBoot'
    BY <1>15 DEF UnlockPages, Quiet, Goto, Release
  <1>16. ASSUME NEW c \in Cores, Write(c) PROVE DeadlockNeedsLostBoot'
    BY <1>16 DEF Write, Quiet, Goto
  <1>17. ASSUME NEW c \in Cores, Return(c) PROVE DeadlockNeedsLostBoot'
    BY <1>17 DEF Return, Quiet, Goto, Release
  <1>18. ASSUME NEW c \in Cores, SpinsTooLong(c) PROVE DeadlockNeedsLostBoot'
    BY <1>18 DEF SpinsTooLong, Exception, Leaves, Where, Abandoned, Deadlock,
       Booting
  <1>19. CASE UNCHANGED vars
    BY <1>19 DEF vars
  <1> QED
    BY <1>1, <1>2, <1>3, <1>4, <1>5, <1>6, <1>7, <1>8, <1>9, <1>10, <1>11,
       <1>12, <1>13, <1>14, <1>15, <1>16, <1>17, <1>18, <1>19 DEF Next,
       BootStep, Handler

(* No thread was created yet. *)
LEMMA InitArrayInv == Init => ArrayInv
  BY DEF Init, ArrayInv, ThreadsInsideArray, Creating

(* A positive multiple of the length of the array is no smaller than it. *)
LEMMA FullArray ==
  ASSUME NEW n \in Nat, n > 0, n % ThreadsPerTable = 0
  PROVE  n >= ThreadsPerTable
  OBVIOUS

(* The array only gets too small when it grows, at ten threads. *)
LEMMA NextArrayInv == TypeInv /\ LockInv /\ ArrayInv /\ [Next]_vars => ArrayInv'
  <1> SUFFICES ASSUME TypeInv /\ LockInv /\ ArrayInv, [Next]_vars PROVE ArrayInv'
    OBVIOUS
  <1> USE DEF TypeInv, TypeOK, taskVars, callVars, bootVars, threadVars,
     Creating, ArrayInv, ThreadsInsideArray
  <1>1. CASE BootLock
    BY <1>1 DEF BootLock, Booting, Acquire
  <1>2. CASE BootUnlock
    BY <1>2 DEF BootUnlock, Booting, Release
  <1>3. CASE BootKmalloc
    BY <1>3 DEF BootKmalloc, Booting
  <1>4. CASE BootKmallocReturns
    BY <1>4 DEF BootKmallocReturns, Booting, NewArray
  <1>5. CASE Publish
    BY <1>5 DEF Publish, Booting
  <1>6. ASSUME NEW c \in Cores, Tick(c) PROVE ArrayInv'
    BY <1>6 DEF Tick, Leaves, Where, Booting, InterruptsOn
  <1>7. ASSUME NEW c \in Cores, SpuriousInterrupt(c) PROVE ArrayInv'
    BY <1>7 DEF SpuriousInterrupt, Exception, Leaves, Where, Delivered, Gates,
       SpuriousVector, IsException, SegmentNotPresent, Deadlock, Booting,
       InterruptsOn
  <1>8. ASSUME NEW c \in Cores, SystemCall(c) PROVE ArrayInv'
    <2>1. /\ at'[c] \notin Creating /\ UNCHANGED threadVars
          /\ \A d \in Cores : d # c => at'[d] = at[d]
      BY <1>8 DEF SystemCall, Goto, Quiet
    <2>2. \A d \in Cores : d # c /\ at[d] \in Creating
                            => request'[task'[d]] = request[task[d]]
      BY <1>8, OtherCalls, ConstantFacts DEF SystemCall, Goto, Quiet, CallInv
    <2> QED
      BY <2>1, <2>2
  <1>9. ASSUME NEW c \in Cores, ForbiddenInterrupt(c) PROVE ArrayInv'
    BY <1>9 DEF ForbiddenInterrupt, Exception, Leaves, Where, Raised, Gates,
       OpenToPrograms, SyscallVector, IsException, SegmentNotPresent,
       GeneralProtection, Deadlock, Booting
  <1>10. ASSUME NEW c \in Cores, Enter(c) PROVE ArrayInv'
    BY <1>10 DEF Enter, Quiet, Goto
  <1>11. ASSUME NEW c \in Cores, NoThread(c) PROVE ArrayInv'
    BY <1>11 DEF NoThread, Quiet, Goto, Lock, Acquire
  <1>12. ASSUME NEW c \in Cores, CreateThread(c) PROVE ArrayInv'
    <2>1. PICK t \in Valid :
            /\ Names(c, t)
            /\ Goto(c, "call", IF (numberOfThreads[t] + 1) % ThreadsPerTable = 0
                               THEN "realloc" ELSE "pages")
            /\ numberOfThreads' = [numberOfThreads EXCEPT ![t] = @ + 1]
            /\ Quiet /\ UNCHANGED <<request, capacity, overrun>>
      BY <1>12 DEF CreateThread
    <2>2. t \in Tasks /\ request[task[c]].index = t
      BY <2>1 DEF Valid, Names
    <2>3. /\ at'[c] = "realloc" => (numberOfThreads[t] + 1) % ThreadsPerTable = 0
          /\ \A d \in Cores : d # c => at'[d] = at[d]
      BY <1>12, <2>1 DEF Goto
    <2>4. \A d \in Cores : at[d] \notin Creating
      BY <1>12, ConstantFacts DEF CreateThread, Lock, Acquire, LockInv,
         SyscallLock, Critical
    <2> QED
      BY <1>12, <2>1, <2>2, <2>3, <2>4 DEF Quiet
  <1>13. ASSUME NEW c \in Cores, Realloc(c) PROVE ArrayInv'
    <2> DEFINE t == request[task[c]].index
    <2>1. t \in Tasks /\ at[c] = "realloc"
      BY <1>13 DEF Realloc, Goto, CallInv
    <2>2. numberOfThreads[t] >= ThreadsPerTable
      BY <1>13, <2>1, FullArray
    <2>3. /\ capacity' = [capacity EXCEPT ![t] = 0] /\ at'[c] = "pages"
          /\ UNCHANGED <<task, request, numberOfThreads, overrun>>
          /\ \A d \in Cores : d # c => at'[d] = at[d]
      BY <1>13 DEF Realloc, Goto, Quiet
    <2> HIDE DEF t
    <2>4. \A d \in Cores, u \in Tasks :
            at'[d] \in Creating /\ request'[task'[d]].index = u
              => /\ numberOfThreads'[u] > 0
                 /\ at'[d] = "realloc" => numberOfThreads'[u] % ThreadsPerTable = 0
      <3>1. request' = request /\ task' = task /\ numberOfThreads' = numberOfThreads
        BY <2>3
      <3>2. \A d \in Cores :
              /\ at'[d] \in Creating => at[d] \in Creating
              /\ at'[d] = "realloc" => at[d] = "realloc"
        BY <2>1, <2>3
      <3> QED
        BY <3>1, <3>2
    <2> QED
      BY <2>2, <2>3, <2>4
  <1>14. ASSUME NEW c \in Cores, LockPages(c) PROVE ArrayInv'
    BY <1>14 DEF LockPages, Quiet, Goto, Acquire
  <1>15. ASSUME NEW c \in Cores, UnlockPages(c) PROVE ArrayInv'
    BY <1>15 DEF UnlockPages, Quiet, Goto, Release
  <1>16. ASSUME NEW c \in Cores, Write(c) PROVE ArrayInv'
    <2> DEFINE t == request[task[c]].index
    <2>1. PICK i \in Slots : overrun' = IF i < capacity[t] THEN overrun ELSE overrun \cup {t}
      BY <1>16 DEF Write
    <2>2. t \in Tasks
      BY <1>16 DEF Write, Goto, CallInv
    <2>3. ~(i < capacity[t]) => numberOfThreads[t] >= ThreadsPerTable
      BY <2>2 DEF Slots
    <2>4. /\ at'[c] = "release"
          /\ UNCHANGED <<task, request, numberOfThreads, capacity>>
          /\ \A d \in Cores : d # c => at'[d] = at[d]
      BY <1>16 DEF Write, Goto, Quiet
    <2> HIDE DEF t
    <2>5. ThreadsInsideArray'
      BY <2>1, <2>3, <2>4
    <2> QED
      BY <2>4, <2>5
  <1>17. ASSUME NEW c \in Cores, Return(c) PROVE ArrayInv'
    <2>1. /\ at'[c] \notin Creating /\ UNCHANGED threadVars
          /\ \A d \in Cores : d # c => at'[d] = at[d]
      BY <1>17 DEF Return, Goto, Quiet
    <2>2. \A d \in Cores : d # c /\ at[d] \in Creating
                            => request'[task'[d]] = request[task[d]]
      BY <1>17, OtherCalls, ConstantFacts DEF Return, Goto, Quiet, CallInv
    <2> QED
      BY <2>1, <2>2
  <1>18. ASSUME NEW c \in Cores, SpinsTooLong(c) PROVE ArrayInv'
    BY <1>18 DEF SpinsTooLong, Exception, Leaves, Where, Abandoned, Deadlock,
       Booting
  <1>19. CASE UNCHANGED vars
    BY <1>19 DEF vars
  <1> QED
    BY <1>1, <1>2, <1>3, <1>4, <1>5, <1>6, <1>7, <1>8, <1>9, <1>10, <1>11,
       <1>12, <1>13, <1>14, <1>15, <1>16, <1>17, <1>18, <1>19 DEF Next,
       BootStep, Handler

(* The inductive invariant. *)
LEMMA AllInvariants == Spec => [](TypeInv /\ LockInv /\ ArrayInv)
  <1>1. TypeInv /\ LockInv /\ [Next]_vars => (TypeInv /\ LockInv)'
    BY NextTypes, NextBoot, NextTask, NextCall, NextSyscallLock, NextPageLock,
       NextDeadlock DEF TypeInv, LockInv
  <1> QED
    BY <1>1, InitTypeInv, InitLockInv, InitArrayInv, NextArrayInv, PTL DEF
       Spec

(* The Deadlock exception stops a core only after bootMain was taken off   *)
(* core 0 inside physicalPageAlloc (scheduler.c:160-167).                  *)
THEOREM NoDeadlockOfTheLocks == Spec => []DeadlockNeedsLostBoot
  <1>1. LockInv => DeadlockNeedsLostBoot
    BY DEF LockInv
  <1> QED
    BY <1>1, AllInvariants, PTL

(* Two cores are inside the heap only while bootMain creates tasks and a   *)
(* task asks for its tenth thread (kHeap.c:37-90, scheduler.c:100,119).    *)
THEOREM OneCoreInTheHeap == Spec => []HeapAlone
  <1>1. TypeInv /\ LockInv /\ ArrayInv => HeapAlone
    <2> SUFFICES ASSUME TypeInv, LockInv, ArrayInv PROVE HeapAlone
      OBVIOUS
    <2>1. ASSUME NEW c \in Cores, InHeap(c)
          PROVE  /\ holder["syscall"] = c
                 /\ \E t \in Tasks : /\ t < numberOfTasks /\ numberOfThreads[t] > 0
                                     /\ numberOfThreads[t] % ThreadsPerTable = 0
      <3>1. at[c] = "realloc"
        BY <2>1 DEF InHeap
      <3>2. PICK t \in Tasks : t < numberOfTasks /\ request[task[c]].index = t
        BY <3>1 DEF TypeInv, CallInv, Creating
      <3>3. numberOfThreads[t] > 0 /\ numberOfThreads[t] % ThreadsPerTable = 0
        BY <3>1, <3>2 DEF ArrayInv, Creating
      <3> QED
        BY <3>1, <3>2, <3>3 DEF LockInv, SyscallLock, Critical, Creating
    <2>2. \A c, d \in Cores : InHeap(c) /\ InHeap(d) => c = d
      BY <2>1
    <2>3. bootAt = "inHeap" => numberOfTasks < NTasks
      BY DEF TypeInv, BootInv
    <2>4. numberOfTasks \in 0 .. NTasks
      BY DEF TypeInv, TypeOK
    <2> QED
      BY <2>1, <2>2, <2>3, <2>4, ConstantFacts DEF HeapAlone
  <1> QED
    BY <1>1, AllInvariants, PTL

(* createThread writes inside the array of a task with fewer than ten      *)
(* threads (scheduler.c:118-143).                                          *)
THEOREM ThreadsStayInside == Spec => []ThreadsInsideArray
  <1>1. ArrayInv => ThreadsInsideArray
    BY DEF ArrayInv
  <1> QED
    BY <1>1, AllInvariants, PTL

=============================================================================
