-------------------------------- MODULE Disk --------------------------------
(***************************************************************************)
(* What sataRW promises its callers: between the call and the return one   *)
(* sector is copied between the disk and the caller's buffer, in one step, *)
(* and nothing else changes.  Module Ahci implements it.                   *)
(***************************************************************************)
EXTENDS Integers

CONSTANTS Cores, Requests, Contents, None

VARIABLES disk,     \* by drive and sector
          memory,   \* by core and buffer page
          request,  \* what each core asks for, or None
          phase     \* of the request: "idle", "asked", "done"

vars == <<disk, memory, request, phase>>

Step(c, from, to) == phase[c] = from /\ phase' = [phase EXCEPT ![c] = to]

(* The caller does what it likes with its own buffer. *)
Touch(c) == /\ phase[c] = "idle"
            /\ \E v \in [DOMAIN memory[c] -> Contents] :
                 memory' = [memory EXCEPT ![c] = v]
            /\ UNCHANGED <<disk, request, phase>>

Ask(c) == /\ Step(c, "idle", "asked")
          /\ \E r \in Requests : request' = [request EXCEPT ![c] = r]
          /\ UNCHANGED <<disk, memory>>

Effect(c) ==
  /\ Step(c, "asked", "done")
  /\ LET r == request[c]
     IN IF r.w
        THEN /\ disk' = [disk EXCEPT ![r.port][r.start] = memory[c][r.page]]
             /\ UNCHANGED memory
        ELSE /\ memory' = [memory EXCEPT ![c][r.page] = disk[r.port][r.start]]
             /\ UNCHANGED disk
  /\ UNCHANGED request

Return(c) == /\ Step(c, "done", "idle")
             /\ request' = [request EXCEPT ![c] = None]
             /\ UNCHANGED <<disk, memory>>

Init == /\ request = [c \in Cores |-> None]
        /\ phase = [c \in Cores |-> "idle"]

Next == \E c \in Cores : Touch(c) \/ Ask(c) \/ Effect(c) \/ Return(c)

Spec == Init /\ [][Next]_vars
=============================================================================
