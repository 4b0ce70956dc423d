----------------------------- MODULE RoundRobin -----------------------------
(***************************************************************************)
(* What the scheduler of seaweed promises, without its lock, its table or  *)
(* its context switches: tasks are created one after the other; a core     *)
(* that reschedules starts the oldest task that never ran, or, when there  *)
(* is none, takes the task that has waited longest; the task it ran before *)
(* goes to the back of the queue.  Module Scheduler implements it, under   *)
(* the map it states.                                                      *)
(***************************************************************************)
EXTENDS Integers, Sequences

CONSTANTS Core,     \* the cores
          NTasks,   \* how many tasks are created
          NoTask    \* what a core runs before its first task

VARIABLES running,  \* the task of each core, or NoTask
          queue,    \* the tasks that ran and wait, longest wait first
          created,  \* tasks 0 .. created-1 exist
          started   \* tasks 0 .. started-1 have run

vars == <<running, queue, created, started>>

Init == /\ running = [c \in Core |-> NoTask]
        /\ queue = <<>>
        /\ created = 0
        /\ started = 0

Create == /\ created < NTasks
          /\ created' = created + 1
          /\ UNCHANGED <<running, queue, started>>

(* The queue once core c has given up its task. *)
Requeue(c, q) == IF running[c] = NoTask THEN q ELSE Append(q, running[c])

StartNew(c) == /\ started < created
               /\ running' = [running EXCEPT ![c] = started]
               /\ started' = started + 1
               /\ queue' = Requeue(c, queue)
               /\ UNCHANGED created

Rotate(c) == /\ started = created
             /\ queue # <<>>
             /\ running' = [running EXCEPT ![c] = Head(queue)]
             /\ queue' = Requeue(c, Tail(queue))
             /\ UNCHANGED <<created, started>>

Next == Create \/ \E c \in Core : StartNew(c) \/ Rotate(c)

Spec == Init /\ [][Next]_vars
=============================================================================
