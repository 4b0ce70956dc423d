---------------------------- MODULE PageAllocator ----------------------------
(***************************************************************************)
(* What the physical memory manager promises: a core that asks for a       *)
(* number of pages gets the first run of free pages that is long enough,   *)
(* in one step, and is refused only when there is none.  Module            *)
(* PhysicalPages implements it with a lock, a bitmap and a scan.           *)
(***************************************************************************)
EXTENDS Integers

CONSTANTS Cores, Pages, Reserved, Counts

VARIABLES request,   \* the count each core asks for, 0 when it does not
          granted    \* the blocks each core was given

vars == <<request, granted>>

Run(base, count) == base .. base + count - 1

Taken == UNION {Run(b.base, b.count) : b \in UNION {granted[c] : c \in Cores}}

Fits(base, count) == Run(base, count) \subseteq Pages \ (Reserved \cup Taken)

Init == /\ request = [c \in Cores |-> 0]
        /\ granted = [c \in Cores |-> {}]

Ask(c) == /\ request[c] = 0
          /\ \E k \in Counts : request' = [request EXCEPT ![c] = k]
          /\ UNCHANGED granted

Grant(c) ==
  /\ request[c] # 0
  /\ \E base \in Pages :
       /\ Fits(base, request[c])
       /\ \A lower \in Pages : lower < base => ~Fits(lower, request[c])
       /\ granted' = [granted EXCEPT ![c] =
                        @ \cup {[base |-> base, count |-> request[c]]}]
  /\ request' = [request EXCEPT ![c] = 0]

Refuse(c) == /\ request[c] # 0
             /\ \A base \in Pages : ~Fits(base, request[c])
             /\ request' = [request EXCEPT ![c] = 0]
             /\ UNCHANGED granted

GiveBack(c) == /\ request[c] = 0
               /\ \E b \in granted[c] : granted' = [granted EXCEPT ![c] = @ \ {b}]
               /\ UNCHANGED request

Next == \E c \in Cores : Ask(c) \/ Grant(c) \/ Refuse(c) \/ GiveBack(c)

Spec == Init /\ [][Next]_vars
=============================================================================
