---------------------------- MODULE SmpBootProofs ----------------------------
(***************************************************************************)
(* Theorems about SmpBoot, for any MADT, any set of enabled cores and      *)
(* tables of any size: how many cores the shared tables hold, and that     *)
(* stacks, numbers and descriptors are private as long as no core is       *)
(* slower than the ten milliseconds, to the point that each property names.*)
(***************************************************************************)
EXTENDS SmpBoot, TLAPS, FiniteSetTheorems

(* The cores that have gone beyond a point. *)
Past(label) == {c \in Enabled : Stage(pc[c]) > Stage(label)}

(* initSMP: who has been started, and with what.  A core whose time is up  *)
(* has come as far as slack.                                               *)
OrderInv ==
  /\ boot # "stack" => i \in Enabled /\ mailbox.stack \in Nat
  /\ boot \in {"ipi", "sleep"} => mailbox.core = Rank(i)
  /\ numberOfCores = Rank(i) + IF boot \in {"ipi", "sleep"} THEN 1 ELSE 0
  /\ \A c \in Enabled :
       /\ c < i => pc[c] # "off" /\ Stage(pc[c]) >= slack
       /\ c > i => pc[c] = "off"
       /\ c = i => (pc[c] = "off" <=> boot # "sleep")
       /\ pc[c] # "off" => mailbox.stack \in Nat /\ mailbox.core \in Nat

(* However the increments of the two counters meet, neither gets ahead of  *)
(* the number of cores that have made theirs.                              *)
CountInv ==
  /\ cpuInfoIndex \in 1 .. Cardinality(Past("store")) + 1
  /\ current \in 1 .. Cardinality(Past("tssStore")) + 1
  /\ \A c \in Enabled :
       /\ pc[c] = "store" => counter[c] \in 1 .. Cardinality(Past("store")) + 1
       /\ pc[c] = "tssStore" => counter[c] \in 1 .. Cardinality(Past("tssStore")) + 1

(* What createNewGDT is given, and what its tables point to, does not get  *)
(* ahead of the cores that have been started.                              *)
ArgsInv ==
  /\ \A s \in Slots : gdt[s] # None => gdt[s] \in 0 .. numberOfCores
  /\ \A c \in Enabled :
       /\ Beyond(c, "tssArg") => args[c].tss \in 1 .. numberOfCores
       /\ Beyond(c, "coreArg") => args[c].core \in 0 .. numberOfCores - 1
       /\ Beyond(c, "gdtWrite") => args[c].core \in Slots /\ gdt[args[c].core] # None

TablesInv == TypeOK /\ OrderInv /\ CountInv /\ ArgsInv

(* The second stacks are private in any case, the first ones if every core *)
(* has read the mailbox in time.                                           *)
StackInv ==
  /\ stacks \in Nat \ {0}
  /\ frame[0] = 0 /\ stack[0] = 0
  /\ mailbox.stack # None => mailbox.stack \in 1 .. stacks - 1
  /\ \A c \in Enabled :
       /\ Beyond(c, "stack") => frame[c] \in 1 .. stacks - 1
       /\ Beyond(c, "alloc") => /\ stack[c] \in 1 .. stacks - 1
                                /\ stack[c] # mailbox.stack
       /\ ~Beyond(c, "alloc") => stack[c] = None
  /\ \A c, d \in Enabled : Beyond(c, "alloc") =>
       /\ c # d => stack[c] # stack[d]
       /\ Beyond(d, "stack") => stack[c] # frame[d]
  /\ InTime("stack") =>
       \A c \in Enabled : Beyond(c, "stack") =>
         /\ boot # "stack" /\ c # i => frame[c] # mailbox.stack
         /\ \A d \in Enabled : c # d /\ Beyond(d, "stack") => frame[c] # frame[d]

(* One core at a time goes through the tables of the cores. *)
NumberInv ==
  InTime("store") =>
    /\ cpuInfoIndex = Rank(i) + IF i \in Past("store") THEN 1 ELSE 0
    /\ \A c \in Enabled :
         /\ Beyond(c, "number") => fs[c] = Rank(c)
         /\ Beyond(c, "coreID") => Rank(c) \in CpuSlots /\ cpuInfo[Rank(c)].coreID = c
         /\ Beyond(c, "currentTask") => cpuInfo[Rank(c)].idle
         /\ pc[c] = "store" => counter[c] = Rank(c)

(* ... and through those of the descriptors. *)
DescriptorInv ==
  InTime("coreArg") =>
    /\ current = Rank(i) + IF i \in Past("tssStore") THEN 1 ELSE 0
    /\ \A c \in Enabled :
         /\ pc[c] = "tssStore" => counter[c] = Rank(c)
         /\ Beyond(c, "tssWrite") => Rank(c) \in Slots /\ tss[Rank(c)] = stack[c]
         /\ Beyond(c, "tssArg") => args[c].tss = Rank(c) + 1
         /\ Beyond(c, "coreArg") => args[c].core = Rank(c)
         /\ Beyond(c, "gdtWrite") => gdt[Rank(c)] = Rank(c) + 1
         /\ pc[c] = "ready" => tr[c] = Rank(c) + 1

-----------------------------------------------------------------------------
(* The way of a core, and the number that belongs to it. *)

Labels == {Path[k] : k \in 1 .. Len(Path)}

LEMMA Stages ==
  /\ Len(Path) = 16
  /\ Stage("off") = 1 /\ Stage("stack") = 2 /\ Stage("number") = 3
  /\ Stage("coreID") = 4 /\ Stage("currentTask") = 5 /\ Stage("load") = 6
  /\ Stage("store") = 7 /\ Stage("alloc") = 8 /\ Stage("tssLoad") = 9
  /\ Stage("tssStore") = 10 /\ Stage("tssWrite") = 11 /\ Stage("tssArg") = 12
  /\ Stage("coreArg") = 13 /\ Stage("gdtWrite") = 14 /\ Stage("ltr") = 15
  /\ Stage("ready") = 16
  <1>1. Len(Path) = 16
    BY DEF Path
  <1>2. \A k, l \in 1 .. 16 : Path[k] = Path[l] => k = l
    BY DEF Path
  <1>3. ASSUME NEW k \in 1 .. 16 PROVE Stage(Path[k]) = k
    BY <1>1, <1>2, <1>3 DEF Stage
  <1> QED
    BY <1>1, <1>3 DEF Path

LEMMA LabelNames ==
  Labels = {"off", "stack", "number", "coreID", "currentTask", "load", "store",
            "alloc", "tssLoad", "tssStore", "tssWrite", "tssArg", "coreArg",
            "gdtWrite", "ltr", "ready"}
  BY DEF Labels, Path

LEMMA StageTypes ==
  \A label \in Labels : Stage(label) \in 1 .. 16
  BY Stages, LabelNames

(* Every step of a core takes it one label on. *)
LEMMA Successors ==
  ASSUME NEW c \in Enabled, pc \in [Enabled -> Labels], KernelMainSMP(c)
  PROVE  /\ pc'[c] \in Labels /\ pc[c] # "off"
         /\ Stage(pc'[c]) = Stage(pc[c]) + 1
         /\ \A d \in Enabled : d # c => pc'[d] = pc[d]
         /\ UNCHANGED bootVars
  BY Stages, LabelNames DEF KernelMainSMP, ReadStack, ReadNumber, WriteCoreID, WriteCurrentTask,
     LoadIndex, StoreIndex, AllocStack, LoadCurrent, StoreCurrent, WriteTSS, EvalTSS,
     EvalCore, WriteGDT, Lgdt, Step

LEMMA CoresFinite ==
  /\ Cores \subseteq 0 .. Entries - 1 /\ IsFiniteSet(Cores)
  /\ IsFiniteSet(Enabled) /\ Cardinality(Enabled) \in Nat
  /\ Cardinality(Cores) = Cardinality(Enabled) + 1
  /\ Cardinality(Enabled) <= Entries - 1
  <1>1. Cores \subseteq 0 .. Entries - 1 /\ Enabled \subseteq 1 .. Entries - 1
    BY EntriesAssumption DEF Cores
  <1>2. IsFiniteSet(1 .. Entries - 1) /\ Cardinality(1 .. Entries - 1) = Entries - 1
    BY EntriesAssumption, FS_Interval
  <1>3. IsFiniteSet(Enabled) /\ Cardinality(Enabled) <= Entries - 1
    BY <1>1, <1>2, FS_Subset
  <1>4. 0 \notin Enabled /\ Cores = Enabled \cup {0}
    BY <1>1 DEF Cores
  <1>5. IsFiniteSet(Cores) /\ Cardinality(Cores) = Cardinality(Enabled) + 1
    BY <1>3, <1>4, FS_AddElement
  <1> QED
    BY <1>1, <1>3, <1>5, FS_CardinalityType

LEMMA RankSteps ==
  /\ Rank(1) = 1
  /\ \A k \in 1 .. Entries - 1 : Rank(k + 1) = Rank(k) + IF k \in Enabled THEN 1 ELSE 0
  <1>1. \A k : IsFiniteSet({d \in Cores : d < k})
    BY CoresFinite, FS_Subset
  <1>2. {d \in Cores : d < 1} = {0}
    BY CoresFinite DEF Cores
  <1>3. Rank(1) = 1
    BY <1>2, FS_Singleton DEF Rank
  <1>4. ASSUME NEW k \in 1 .. Entries - 1
        PROVE  Rank(k + 1) = Rank(k) + IF k \in Enabled THEN 1 ELSE 0
    <2> DEFINE Below == {d \in Cores : d < k}
    <2>1. CASE k \in Enabled
      <3>a. k \in Cores /\ \A d \in Cores : d \in Int
        BY <2>1, CoresFinite DEF Cores
      <3>b. \A d \in Cores : d < k + 1 <=> d < k \/ d = k
        BY <3>a
      <3>c. \A d \in {d \in Cores : d < k + 1} : d \in Below \cup {k}
        BY <3>b
      <3>d. \A d \in Below \cup {k} : d \in {e \in Cores : e < k + 1}
        BY <3>a, <3>b
      <3>e. k \notin Below
        BY <3>a
      <3>1. {d \in Cores : d < k + 1} = Below \cup {k} /\ k \notin Below
        <4> HIDE DEF Below
        <4> QED BY <3>c, <3>d, <3>e
      <3>2. IsFiniteSet(Below)
        BY <1>1
      <3>3. Cardinality(Below \cup {k}) = Cardinality(Below) + 1
        BY <3>1, <3>2, FS_AddElement
      <3> QED
        BY <2>1, <3>1, <3>3 DEF Rank
    <2>2. CASE k \notin Enabled
      <3>1. {d \in Cores : d < k + 1} = Below
        BY <2>2, CoresFinite DEF Cores
      <3>2. Cardinality(Below) \in Nat
        BY <1>1, FS_CardinalityType
      <3>3. Rank(k) \in Nat /\ Rank(k + 1) = Rank(k)
        BY <3>1, <3>2 DEF Rank
      <3> QED
        BY <2>2, <3>3
    <2> QED
      BY <2>1, <2>2
  <1> QED
    BY <1>3, <1>4

LEMMA Ranks ==
  /\ \A k \in 1 .. Entries : Rank(k) \in 1 .. Cardinality(Enabled) + 1
  /\ \A c \in Enabled : Rank(c) \in 1 .. Cardinality(Enabled)
  /\ \A c, d \in Enabled : c # d => Rank(c) # Rank(d)
  <1>1. \A k : {d \in Cores : d < k} \subseteq Cores
    OBVIOUS
  <1>2. \A k : IsFiniteSet({d \in Cores : d < k})
    BY CoresFinite, FS_Subset
  <1>3. ASSUME NEW k \in 1 .. Entries PROVE Rank(k) \in 1 .. Cardinality(Enabled) + 1
    <2>1. {0} \subseteq {d \in Cores : d < k}
      BY DEF Cores
    <2>2. Cardinality({0}) <= Rank(k)
      BY <1>2, <2>1, FS_Subset DEF Rank
    <2>3. Rank(k) <= Cardinality(Cores)
      BY <1>1, CoresFinite, FS_Subset DEF Rank
    <2>4. Rank(k) \in Nat
      BY <1>2, FS_CardinalityType DEF Rank
    <2>5. Cardinality({0}) = 1
      BY FS_Singleton
    <2> QED
      BY <2>2, <2>3, <2>4, <2>5, CoresFinite
  <1>4. ASSUME NEW c \in Enabled, NEW k \in 1 .. Entries, c < k PROVE Rank(c) < Rank(k)
    <2> DEFINE Below == {d \in Cores : d < c}
    <2>1. Below \cup {c} \subseteq {d \in Cores : d < k} /\ c \notin Below
      BY <1>4, CoresFinite DEF Cores
    <2>2. Cardinality(Below \cup {c}) = Cardinality(Below) + 1
      BY <1>2, <2>1, FS_AddElement
    <2>3. Cardinality(Below \cup {c}) <= Rank(k)
      BY <1>2, <2>1, FS_Subset DEF Rank
    <2>4. Cardinality(Below) \in Nat /\ Rank(k) \in Nat
      BY <1>2, FS_CardinalityType DEF Rank
    <2> QED
      BY <2>2, <2>3, <2>4 DEF Rank
  <1>5. \A c \in Enabled : c \in 1 .. Entries /\ c < Entries
    BY EntriesAssumption
  <1>6. \A c \in Enabled : Rank(c) \in 1 .. Cardinality(Enabled)
    BY <1>3, <1>4, <1>5, CoresFinite, EntriesAssumption
  <1>7. \A c, d \in Enabled : c # d => Rank(c) # Rank(d)
    BY <1>3, <1>4, <1>5
  <1> QED
    BY <1>3, <1>6, <1>7

-----------------------------------------------------------------------------
(* What the steps do to the way of the cores. *)

LEMMA BeyondIsPast ==
  ASSUME NEW c \in Enabled, NEW label
  PROVE  /\ Beyond(c, label) <=> Stage(pc[c]) > Stage(label)
         /\ Beyond(c, label) <=> c \in Past(label)
  BY EntriesAssumption DEF Beyond, Past

(* A core that makes a step goes beyond the label it was at. *)
LEMMA CoreGoesOn ==
  ASSUME NEW c \in Enabled, pc \in [Enabled -> Labels], KernelMainSMP(c),
         NEW label \in Labels
  PROVE  /\ \A d \in Enabled : Beyond(d, label)' <=> Beyond(d, label) \/ (d = c /\ pc[c] = label)
         /\ Past(label)' = Past(label) \cup {d \in {c} : pc[c] = label}
         /\ pc[c] = label => ~Beyond(c, label)
  <1>1. \A a, b \in Labels : Stage(a) = Stage(b) => a = b
    BY Stages, LabelNames
  <1>2. pc[c] \in Labels /\ Stage(pc[c]) \in 1 .. 16 /\ Stage(label) \in 1 .. 16
    BY StageTypes
  <1>3. /\ Stage(pc'[c]) = Stage(pc[c]) + 1
        /\ \A d \in Enabled : d # c => pc'[d] = pc[d]
    BY Successors
  <1>4. Stage(pc'[c]) > Stage(label) <=> Stage(pc[c]) > Stage(label) \/ pc[c] = label
    BY <1>1, <1>2, <1>3
  <1>5. \A d \in Enabled : Stage(pc'[d]) > Stage(label)
                             <=> Stage(pc[d]) > Stage(label) \/ (d = c /\ pc[c] = label)
    BY <1>3, <1>4
  <1>6. pc[c] = label => ~(Stage(pc[c]) > Stage(label))
    BY <1>2
  <1>7. \A d \in Enabled : d # 0
    BY EntriesAssumption
  <1>8. \A d \in Enabled : Beyond(d, label)' <=> Beyond(d, label) \/ (d = c /\ pc[c] = label)
    BY <1>5, <1>7 DEF Beyond
  <1>9. Past(label)' = Past(label) \cup {d \in {c} : pc[c] = label}
    BY <1>5 DEF Past
  <1> QED
    BY <1>6, <1>7, <1>8, <1>9 DEF Beyond

(* The boot core only takes a core beyond "off". *)
LEMMA BootLeavesPast ==
  ASSUME TypeOK, OrderInv, InitSMP, NEW label \in Labels \ {"off"}
  PROVE  /\ \A d \in Enabled : Beyond(d, label)' <=> Beyond(d, label)
         /\ Past(label)' = Past(label)
  <1>1. CASE UNCHANGED pc
    BY <1>1 DEF Beyond, Past
  <1>2. CASE SendIPI
    <2>1. i \in Enabled /\ pc[i] = "off" /\ pc' = [pc EXCEPT ![i] = "stack"]
      BY <1>2 DEF SendIPI, OrderInv, Looping
    <2>2. pc'[i] = "stack" /\ \A d \in Enabled : d # i => pc'[d] = pc[d]
      BY <2>1 DEF TypeOK
    <2>3. ~(Stage("off") > Stage(label)) /\ ~(Stage("stack") > Stage(label))
      BY Stages, LabelNames
    <2>4. \A d \in Enabled : Stage(pc'[d]) > Stage(label) <=> Stage(pc[d]) > Stage(label)
      BY <2>1, <2>2, <2>3
    <2> QED
      BY <2>4 DEF Beyond, Past
  <1> QED
    BY <1>1, <1>2 DEF InitSMP, SkipDisabled, PrepStack, PrepNumber, SleepEnds, coreVars

LEMMA PastCounts ==
  ASSUME NEW label
  PROVE  /\ IsFiniteSet(Past(label)) /\ Cardinality(Past(label)) \in 0 .. Cardinality(Enabled)
         /\ \A c \in Enabled : ~Beyond(c, label) => Cardinality(Past(label)) < Cardinality(Enabled)
  <1>1. Past(label) \subseteq Enabled
    BY DEF Past
  <1>2. /\ IsFiniteSet(Past(label)) /\ Cardinality(Past(label)) \in Nat
        /\ Cardinality(Past(label)) <= Cardinality(Enabled)
    BY <1>1, CoresFinite, FS_Subset, FS_CardinalityType
  <1>3. ASSUME NEW c \in Enabled, ~Beyond(c, label)
        PROVE  Cardinality(Past(label)) < Cardinality(Enabled)
    <2>1. c \notin Past(label) /\ Past(label) \cup {c} \subseteq Enabled
      BY <1>1, <1>3, BeyondIsPast
    <2>2. Cardinality(Past(label) \cup {c}) = Cardinality(Past(label)) + 1
      BY <1>2, <2>1, FS_AddElement
    <2>3. Cardinality(Past(label) \cup {c}) <= Cardinality(Enabled)
      BY <2>1, CoresFinite, FS_Subset
    <2> QED
      BY <1>2, <2>2, <2>3, CoresFinite
  <1> QED
    BY <1>2, <1>3, CoresFinite

LEMMA PastGrows ==
  ASSUME NEW c \in Enabled, pc \in [Enabled -> Labels], KernelMainSMP(c),
         NEW label \in Labels
  PROVE  Cardinality(Past(label)') = Cardinality(Past(label)) + IF pc[c] = label THEN 1 ELSE 0
  <1>1. IsFiniteSet(Past(label)) /\ Cardinality(Past(label)) \in Nat
    BY PastCounts, CoresFinite
  <1>2. CASE pc[c] = label
    <2>1. c \notin Past(label) /\ Past(label)' = Past(label) \cup {c}
      BY <1>2, CoreGoesOn, BeyondIsPast
    <2>2. Cardinality(Past(label) \cup {c}) = Cardinality(Past(label)) + 1
      BY <1>1, <2>1, FS_AddElement
    <2> QED
      BY <1>2, <2>1, <2>2
  <1>3. CASE pc[c] # label
    <2>1. Past(label)' = Past(label)
      BY <1>3, CoreGoesOn
    <2> QED
      BY <1>1, <1>3, <2>1
  <1> QED
    BY <1>2, <1>3

-----------------------------------------------------------------------------
(* What the tables have to hold. *)

(* The cores that have come beyond a point have been started; one that has *)
(* been started and is not there yet is one of those that are to come.     *)
LEMMA StartedCount ==
  ASSUME TypeOK, OrderInv, NEW label \in Labels
  PROVE  /\ Cardinality(Past(label)) + 1 <= numberOfCores
         /\ \A c \in Enabled : pc[c] # "off" /\ ~Beyond(c, label)
                             => Cardinality(Past(label)) + 1 < numberOfCores
  <1> DEFINE Up == {c \in Enabled : pc[c] # "off"}
             B == {d \in Cores : d < i}
  <1>1. /\ i \in 1 .. Entries /\ Entries \in Nat /\ pc \in [Enabled -> Labels]
        /\ \A c \in Enabled : c \in 1 .. Entries - 1
    BY EntriesAssumption DEF TypeOK, Labels
  <1>2. Past(label) \subseteq Up
    <2>1. ~(Stage("off") > Stage(label))
      BY Stages, StageTypes
    <2> QED
      BY <2>1 DEF Past
  <1>3. IsFiniteSet(Up) /\ Cardinality(Up) \in Nat /\ 0 \notin Up
    BY <1>1, CoresFinite, FS_Subset, FS_CardinalityType
  <1>4. IsFiniteSet(Past(label)) /\ Cardinality(Past(label)) \in Nat
        /\ Cardinality(Past(label)) <= Cardinality(Up)
    BY <1>2, <1>3, FS_Subset, FS_CardinalityType
  <1>5. Cardinality(Up \cup {0}) = Cardinality(Up) + 1
    BY <1>3, FS_AddElement
  <1>6. Cardinality(Up) + 1 <= numberOfCores /\ numberOfCores \in Nat
    <2>1. IsFiniteSet(B) /\ Cardinality(B) = Rank(i) /\ Rank(i) \in Nat
      BY CoresFinite, FS_Subset, FS_CardinalityType DEF Rank
    <2>2. \A c \in Up : c < i \/ (c = i /\ boot = "sleep")
      BY <1>1 DEF OrderInv
    <2>3. CASE boot = "sleep"
      <3>1. i \in Enabled /\ numberOfCores = Rank(i) + 1
        BY <2>3 DEF OrderInv
      <3>2. i \notin B /\ Up \cup {0} \subseteq B \cup {i}
        BY <1>1, <2>2 DEF Cores
      <3>3. IsFiniteSet(B \cup {i}) /\ Cardinality(B \cup {i}) = Rank(i) + 1
        BY <2>1, <3>2, FS_AddElement
      <3>4. Cardinality(Up \cup {0}) <= Cardinality(B \cup {i})
        BY <3>2, <3>3, FS_Subset
      <3> QED
        BY <1>5, <2>1, <3>1, <3>3, <3>4
    <2>4. CASE boot # "sleep"
      <3>1. numberOfCores = Rank(i) \/ numberOfCores = Rank(i) + 1
        BY <2>1 DEF OrderInv
      <3>2. Up \cup {0} \subseteq B
        BY <1>1, <2>2, <2>4 DEF Cores
      <3>3. Cardinality(Up \cup {0}) <= Cardinality(B)
        BY <2>1, <3>2, FS_Subset
      <3> QED
        BY <1>3, <1>5, <2>1, <3>1, <3>3
    <2> QED
      BY <2>3, <2>4
  <1>7. ASSUME NEW c \in Enabled, pc[c] # "off", ~Beyond(c, label)
        PROVE  Cardinality(Past(label)) + 1 < numberOfCores
    <2>1. c \notin Past(label) /\ Past(label) \cup {c} \subseteq Up
      BY <1>2, <1>7, BeyondIsPast
    <2>2. Cardinality(Past(label) \cup {c}) = Cardinality(Past(label)) + 1
      BY <1>4, <2>1, FS_AddElement
    <2>3. Cardinality(Past(label) \cup {c}) <= Cardinality(Up)
      BY <1>3, <2>1, FS_Subset
    <2> QED
      BY <1>3, <1>4, <1>6, <2>2, <2>3
  <1> QED
    BY <1>3, <1>4, <1>6, <1>7

(* The indices a core makes of the two counters. *)
LEMMA IndexBounds ==
  ASSUME TypeOK, OrderInv, CountInv
  PROVE  /\ numberOfCores \in Nat
         /\ cpuInfoIndex \in 1 .. numberOfCores /\ current \in 1 .. numberOfCores
         /\ \A c \in Enabled : pc[c] \in {"coreID", "currentTask"}
                               => cpuInfoIndex \in 1 .. numberOfCores - 1
  <1> DEFINE P == Cardinality(Past("store"))
             Q == Cardinality(Past("tssStore"))
  <1>1. /\ P + 1 <= numberOfCores /\ Q + 1 <= numberOfCores
        /\ \A c \in Enabled : pc[c] # "off" /\ ~Beyond(c, "store") => P + 1 < numberOfCores
    BY StartedCount, LabelNames
  <1>2. \A c \in Enabled : pc[c] \in {"coreID", "currentTask"}
                          => pc[c] # "off" /\ ~Beyond(c, "store")
    BY Stages, BeyondIsPast
  <1>3. cpuInfoIndex \in 1 .. P + 1 /\ current \in 1 .. Q + 1
    BY DEF CountInv
  <1>4. P \in Nat /\ Q \in Nat
    BY PastCounts, CoresFinite
  <1>5. numberOfCores \in Nat
    BY DEF TypeOK
  <1> HIDE DEF P, Q
  <1> QED
    BY <1>1, <1>2, <1>3, <1>4, <1>5

LEMMA InitTables == Init => TablesInv
  <1> SUFFICES ASSUME Init PROVE TablesInv
    OBVIOUS
  <1>1. pc \in [Enabled -> Labels] /\ \A c \in Enabled : pc[c] = "off"
    BY LabelNames DEF Init
  <1>2. \A label \in Labels : Past(label) = {}
    BY <1>1, Stages, LabelNames DEF Past
  <1>3. \A c \in Enabled, label \in Labels : ~Beyond(c, label)
    BY <1>2, BeyondIsPast
  <1>4. Cardinality(Past("store")) = 0 /\ Cardinality(Past("tssStore")) = 0
    BY <1>2, FS_EmptySet, LabelNames
  <1>5. TypeOK
    <2>1. gdt \in [Slots -> 0 .. Entries \cup {None}] /\ tss \in [Slots -> Nat \cup {None}]
      BY EntriesAssumption DEF Init, None
    <2>2. cpuInfo \in [CpuSlots -> [coreID : Enabled \cup {None}, idle : BOOLEAN]]
      BY DEF Init
    <2>3. mailbox \in [stack : Nat \cup {None}, core : 1 .. Entries - 1 \cup {None}]
      BY DEF Init
    <2>4. args \in [Enabled -> [core : 0 .. Entries - 1 \cup {None}, tss : 1 .. Entries \cup {None}]]
      BY DEF Init
    <2>5. /\ frame \in [Cores -> Nat \cup {None}] /\ stack \in [Cores -> Nat \cup {None}]
          /\ tr \in [Cores -> Slots \cup {None}]
      BY TableAssumption DEF Init, Slots
    <2>6. /\ fs \in [Cores -> 0 .. Entries - 1] /\ counter \in [Enabled -> 0 .. Entries - 1]
          /\ i \in 1 .. Entries /\ numberOfCores \in 1 .. Entries
          /\ cpuInfoIndex \in 1 .. Entries /\ current \in 1 .. Entries
      BY EntriesAssumption DEF Init
    <2>7. boot \in {"stack", "number", "ipi", "sleep"} /\ stacks \in Nat
      BY DEF Init
    <2>8. slack \in 1 .. Len(Path)
      <3>1. slack = Len(Path)
        BY DEF Init
      <3>2. Len(Path) \in 1 .. Len(Path)
        BY Stages
      <3> QED
        BY <3>1, <3>2
    <2> QED
      BY <1>1, <2>1, <2>2, <2>3, <2>4, <2>5, <2>6, <2>7, <2>8 DEF TypeOK, Labels
  <1>6. OrderInv
    <2>1. \A c \in Enabled : c \in Nat \ {0}
      BY EntriesAssumption
    <2>2. boot = "stack" /\ i = 1 /\ numberOfCores = 1
      BY DEF Init
    <2> QED
      BY <1>1, <2>1, <2>2, RankSteps DEF OrderInv
  <1>7. CountInv
    BY <1>1, <1>4 DEF CountInv, Init
  <1>8. ArgsInv
    <2>1. \A s \in Slots : gdt[s] # None => gdt[s] = 0
      BY DEF Init
    <2>2. numberOfCores = 1
      BY DEF Init
    <2> QED
      BY <1>3, <2>1, <2>2, LabelNames DEF ArgsInv
  <1> QED
    BY <1>5, <1>6, <1>7, <1>8 DEF TablesInv

LEMMA BootKeepsOrder ==
  ASSUME TypeOK, OrderInv, InitSMP
  PROVE  OrderInv'
  <1>1. /\ i \in 1 .. Entries /\ boot \in {"stack", "number", "ipi", "sleep"}
        /\ pc \in [Enabled -> Labels] /\ slack \in 1 .. 16 /\ Entries \in Nat
        /\ \A c \in Enabled : c \in 1 .. Entries - 1
    BY Stages, EntriesAssumption DEF TypeOK, Labels
  <1>2. \A k \in 1 .. Entries : Rank(k) \in Nat
    BY Ranks, CoresFinite
  <1>3. CASE SkipDisabled
    <2>1. /\ boot = "stack" /\ boot' = "stack" /\ i < Entries /\ i \notin Enabled
          /\ i' = i + 1 /\ UNCHANGED <<mailbox, numberOfCores, slack, pc>>
      BY <1>3 DEF SkipDisabled, Looping, coreVars
    <2>2. Rank(i + 1) = Rank(i)
      BY <1>1, <1>2, <2>1, RankSteps
    <2>3. \A c \in Enabled : (c < i' <=> c < i) /\ (c > i' => c > i) /\ (c = i' => c > i)
      BY <1>1, <2>1
    <2> QED
      BY <2>1, <2>2, <2>3 DEF OrderInv, Rank
  <1>4. CASE PrepStack
    <2>1. /\ boot = "stack" /\ boot' = "number" /\ i < Entries /\ i \in Enabled
          /\ mailbox'.stack = stacks /\ mailbox'.core = mailbox.core
          /\ UNCHANGED <<i, numberOfCores, slack, pc>> /\ stacks \in Nat
      BY <1>4 DEF PrepStack, Looping, coreVars, TypeOK
    <2> QED
      BY <1>1, <2>1 DEF OrderInv, Rank
  <1>5. CASE PrepNumber
    <2>1. /\ boot = "number" /\ boot' = "ipi" /\ i < Entries /\ i \in Enabled
          /\ mailbox'.stack = mailbox.stack /\ mailbox'.core = numberOfCores
          /\ numberOfCores' = numberOfCores + 1
          /\ UNCHANGED <<i, slack, pc>>
      BY <1>5 DEF PrepNumber, Looping, coreVars, TypeOK, OrderInv
    <2>2. numberOfCores = Rank(i) /\ Rank(i) \in Nat
      BY <1>1, <1>2, <2>1 DEF OrderInv
    <2> QED
      BY <1>1, <2>1, <2>2 DEF OrderInv, Rank
  <1>6. CASE SendIPI
    <2>1. /\ boot = "ipi" /\ boot' = "sleep" /\ i < Entries /\ i \in Enabled
          /\ pc' = [pc EXCEPT ![i] = "stack"] /\ UNCHANGED <<i, mailbox, numberOfCores, slack>>
      BY <1>6 DEF SendIPI, Looping, OrderInv
    <2>2. pc'[i] = "stack" /\ \A c \in Enabled : c # i => pc'[c] = pc[c]
      BY <1>1, <2>1
    <2>3. mailbox.stack \in Nat /\ mailbox.core \in Nat
      BY <1>1, <1>2, <2>1 DEF OrderInv
    <2> QED
      BY <1>1, <2>1, <2>2, <2>3 DEF OrderInv, Rank
  <1>7. CASE SleepEnds
    <2>1. /\ boot = "sleep" /\ boot' = "stack" /\ i < Entries /\ i \in Enabled
          /\ i' = i + 1 /\ UNCHANGED <<mailbox, numberOfCores, pc>>
          /\ slack' = IF Stage(pc[i]) < slack THEN Stage(pc[i]) ELSE slack
      BY <1>7 DEF SleepEnds, Looping, coreVars, OrderInv
    <2>2. Rank(i + 1) = Rank(i) + 1
      BY <1>1, <2>1, RankSteps
    <2>3. Stage(pc[i]) \in 1 .. 16 /\ pc[i] # "off"
      BY <1>1, <2>1, StageTypes DEF OrderInv
    <2>4. slack' <= slack /\ slack' <= Stage(pc[i]) /\ slack' \in 1 .. 16
      BY <1>1, <2>1, <2>3
    <2>5. \A c \in Enabled : /\ (c < i' => c < i \/ c = i) /\ (c > i' => c > i)
                             /\ (c = i' => c > i)
      BY <1>1, <2>1
    <2>6. \A c \in Enabled : Stage(pc[c]) \in 1 .. 16
      BY <1>1, StageTypes
    <2>7. \A c \in Enabled : c < i' => pc'[c] # "off" /\ Stage(pc'[c]) >= slack'
      BY <1>1, <2>1, <2>3, <2>4, <2>5, <2>6 DEF OrderInv
    <2>8. numberOfCores' = Rank(i')
      BY <1>1, <2>1, <2>2 DEF OrderInv
    <2> QED
      BY <1>1, <2>1, <2>5, <2>7, <2>8 DEF OrderInv, Rank
  <1> QED
    BY <1>3, <1>4, <1>5, <1>6, <1>7 DEF InitSMP

LEMMA CoreKeepsOrder ==
  ASSUME TypeOK, OrderInv, NEW c \in Enabled, KernelMainSMP(c)
  PROVE  OrderInv' /\ c <= i /\ mailbox.stack \in Nat /\ mailbox.core \in Nat
  <1>1. /\ i \in 1 .. Entries /\ pc \in [Enabled -> Labels] /\ slack \in 1 .. 16
        /\ \A d \in Enabled : d \in 1 .. Entries - 1
    BY Stages, EntriesAssumption DEF TypeOK, Labels
  <1>2. /\ pc'[c] \in Labels /\ pc[c] # "off"
        /\ Stage(pc'[c]) = Stage(pc[c]) + 1
        /\ \A d \in Enabled : d # c => pc'[d] = pc[d]
        /\ UNCHANGED <<i, boot, mailbox, numberOfCores, slack>>
    BY <1>1, Successors DEF bootVars
  <1>3. Stage(pc[c]) \in 1 .. 16
    BY <1>1, StageTypes
  <1>4. pc'[c] # "off"
    BY <1>2, <1>3, Stages
  <1>5. c <= i /\ mailbox.stack \in Nat /\ mailbox.core \in Nat
    BY <1>1, <1>2, EntriesAssumption DEF OrderInv
  <1>6. \A d \in Enabled :
          /\ d < i => pc'[d] # "off" /\ Stage(pc'[d]) >= slack
          /\ d > i => pc'[d] = "off"
          /\ d = i => (pc'[d] = "off" <=> boot # "sleep")
    BY <1>1, <1>2, <1>3, <1>4, <1>5 DEF OrderInv
  <1> QED
    BY <1>2, <1>5, <1>6 DEF OrderInv, Rank

LEMMA BootKeepsTables ==
  ASSUME TypeOK, OrderInv, CountInv, ArgsInv, InitSMP
  PROVE  TypeOK' /\ CountInv' /\ ArgsInv'
  <1>1. /\ i \in 1 .. Entries /\ boot \in {"stack", "number", "ipi", "sleep"}
        /\ mailbox \in [stack : Nat \cup {None}, core : 1 .. Entries - 1 \cup {None}]
        /\ numberOfCores \in 1 .. Entries /\ stacks \in Nat
        /\ pc \in [Enabled -> Labels] /\ slack \in 1 .. Len(Path)
    BY DEF TypeOK, Labels
  <1>2. Rank(i) \in 1 .. Cardinality(Enabled) + 1 /\ (i \in Enabled => Rank(i) \in 1 .. Cardinality(Enabled))
    BY <1>1, Ranks
  <1>3. UNCHANGED <<cpuInfoIndex, cpuInfo, current, tss, gdt, coreVars>> \/ SendIPI
    BY DEF InitSMP, SkipDisabled, PrepStack, PrepNumber, SleepEnds, tables
  <1>4. UNCHANGED <<cpuInfoIndex, cpuInfo, current, tss, gdt, frame, stack, fs, counter, args, tr>>
    BY <1>3 DEF SendIPI, tables, coreVars
  <1>5. pc' \in [Enabled -> Labels]
    <2>1. CASE UNCHANGED pc
      BY <1>1, <2>1
    <2>2. CASE SendIPI
      BY <1>1, <2>2, LabelNames DEF SendIPI
    <2> QED
      BY <1>3, <2>1, <2>2 DEF coreVars
  <1>6. i' \in 1 .. Entries /\ boot' \in {"stack", "number", "ipi", "sleep"}
    BY <1>1, EntriesAssumption DEF InitSMP, SkipDisabled, PrepStack, PrepNumber, SendIPI,
       SleepEnds, Looping
  <1>7. stacks' \in Nat
    BY <1>1 DEF InitSMP, SkipDisabled, PrepStack, PrepNumber, SendIPI, SleepEnds, tables
  <1>8. slack' \in 1 .. Len(Path)
    <2>1. CASE SleepEnds
      <3>1. i \in Enabled
        BY <2>1 DEF SleepEnds, Looping, OrderInv
      <3>2. Stage(pc[i]) \in 1 .. Len(Path)
        BY <1>1, <3>1, StageTypes, Stages
      <3> QED
        BY <1>1, <2>1, <3>2 DEF SleepEnds
    <2>2. CASE UNCHANGED slack
      BY <1>1, <2>2
    <2> QED
      BY <2>1, <2>2 DEF InitSMP, SkipDisabled, PrepStack, PrepNumber, SendIPI
  <1>9. /\ numberOfCores' \in 1 .. Entries
        /\ mailbox' \in [stack : Nat \cup {None}, core : 1 .. Entries - 1 \cup {None}]
    <2>1. CASE PrepNumber
      <3>1. /\ mailbox' = [mailbox EXCEPT !.core = numberOfCores]
            /\ numberOfCores' = numberOfCores + 1 /\ numberOfCores = Rank(i) /\ i \in Enabled
        BY <1>1, <1>2, <2>1 DEF PrepNumber, Looping, OrderInv
      <3>2. numberOfCores \in 1 .. Entries - 1
        BY <1>2, <3>1, CoresFinite, EntriesAssumption
      <3> QED
        BY <1>1, <3>1, <3>2, EntriesAssumption
    <2>2. CASE PrepStack
      BY <1>1, <2>2 DEF PrepStack
    <2>3. CASE UNCHANGED <<mailbox, numberOfCores>>
      BY <1>1, <2>3
    <2> QED
      BY <2>1, <2>2, <2>3 DEF InitSMP, SkipDisabled, SendIPI, SleepEnds
  <1>10. TypeOK'
    BY <1>4, <1>5, <1>6, <1>7, <1>8, <1>9 DEF TypeOK, Labels
  <1>11. /\ Past("store")' = Past("store") /\ Past("tssStore")' = Past("tssStore")
         /\ \A c \in Enabled : /\ Beyond(c, "tssArg")' <=> Beyond(c, "tssArg")
                               /\ Beyond(c, "coreArg")' <=> Beyond(c, "coreArg")
                               /\ Beyond(c, "gdtWrite")' <=> Beyond(c, "gdtWrite")
    BY BootLeavesPast, LabelNames
  <1>12. \A c \in Enabled : /\ pc'[c] = "store" => pc[c] = "store"
                            /\ pc'[c] = "tssStore" => pc[c] = "tssStore"
    BY <1>1, <1>3 DEF SendIPI, coreVars
  <1>13. CountInv'
    BY <1>4, <1>11, <1>12 DEF CountInv
  <1>14. ArgsInv'
    <2>1. numberOfCores' \in {numberOfCores, numberOfCores + 1} /\ numberOfCores \in Nat
      BY <1>1 DEF InitSMP, SkipDisabled, PrepStack, PrepNumber, SendIPI, SleepEnds
    <2>2. /\ 0 .. numberOfCores \subseteq 0 .. numberOfCores'
          /\ 1 .. numberOfCores \subseteq 1 .. numberOfCores'
          /\ 0 .. numberOfCores - 1 \subseteq 0 .. numberOfCores' - 1
      <3>1. \A m \in Nat : \A n \in {m, m + 1} :
              0 .. m \subseteq 0 .. n /\ 1 .. m \subseteq 1 .. n /\ 0 .. m - 1 \subseteq 0 .. n - 1
        OBVIOUS
      <3> QED
        BY <2>1, <3>1
    <2> QED
      BY <1>4, <1>11, <2>2 DEF ArgsInv
  <1> QED
    BY <1>10, <1>13, <1>14

LEMMA CoreKeepsCount ==
  ASSUME TypeOK, CountInv, NEW c \in Enabled, KernelMainSMP(c)
  PROVE  CountInv'
  <1>1. pc \in [Enabled -> Labels] /\ counter \in [Enabled -> 0 .. Entries - 1]
    BY DEF TypeOK, Labels
  <1> DEFINE P == Cardinality(Past("store"))
             Q == Cardinality(Past("tssStore"))
  <1>2. P \in Nat /\ Q \in Nat
    BY PastCounts, CoresFinite
  <1>3. P' = P + IF pc[c] = "store" THEN 1 ELSE 0
    BY <1>1, PastGrows, LabelNames
  <1>4. Q' = Q + IF pc[c] = "tssStore" THEN 1 ELSE 0
    BY <1>1, PastGrows, LabelNames
  <1>5. /\ cpuInfoIndex \in 1 .. P + 1 /\ current \in 1 .. Q + 1
        /\ \A d \in Enabled : /\ pc[d] = "store" => counter[d] \in 1 .. P + 1
                              /\ pc[d] = "tssStore" => counter[d] \in 1 .. Q + 1
    BY DEF CountInv
  <1>6. \A d \in Enabled : d # c => pc'[d] = pc[d]
    BY <1>1, Successors
  <1> HIDE DEF P, Q
  <1>7. CASE LoadIndex(c)
    <2>1. /\ pc[c] = "load" /\ pc'[c] = "store" /\ UNCHANGED <<cpuInfoIndex, current>>
          /\ counter' = [counter EXCEPT ![c] = cpuInfoIndex]
      BY <1>1, <1>7 DEF LoadIndex, Step, tables
    <2>2. counter'[c] = cpuInfoIndex /\ \A d \in Enabled : d # c => counter'[d] = counter[d]
      BY <1>1, <2>1
    <2>3. P' = P /\ Q' = Q
      BY <1>2, <1>3, <1>4, <2>1
    <2> QED
      BY <1>5, <1>6, <2>1, <2>2, <2>3 DEF CountInv, P, Q
  <1>8. CASE StoreIndex(c)
    <2>1. /\ pc[c] = "store" /\ pc'[c] = "alloc" /\ UNCHANGED <<counter, current>>
          /\ cpuInfoIndex' = counter[c] + 1
      BY <1>1, <1>8 DEF StoreIndex, Step
    <2>2. P' = P + 1 /\ Q' = Q
      BY <1>2, <1>3, <1>4, <2>1
    <2>3. cpuInfoIndex' \in 1 .. P' + 1 /\ 1 .. P + 1 \subseteq 1 .. P' + 1
      BY <1>2, <1>5, <2>1, <2>2
    <2> QED
      BY <1>5, <1>6, <2>1, <2>2, <2>3 DEF CountInv, P, Q
  <1>9. CASE LoadCurrent(c)
    <2>1. /\ pc[c] = "tssLoad" /\ pc'[c] = "tssStore" /\ UNCHANGED <<cpuInfoIndex, current>>
          /\ counter' = [counter EXCEPT ![c] = current]
      BY <1>1, <1>9 DEF LoadCurrent, Step, tables
    <2>2. counter'[c] = current /\ \A d \in Enabled : d # c => counter'[d] = counter[d]
      BY <1>1, <2>1
    <2>3. P' = P /\ Q' = Q
      BY <1>2, <1>3, <1>4, <2>1
    <2> QED
      BY <1>5, <1>6, <2>1, <2>2, <2>3 DEF CountInv, P, Q
  <1>10. CASE StoreCurrent(c)
    <2>1. /\ pc[c] = "tssStore" /\ pc'[c] = "tssWrite" /\ UNCHANGED <<counter, cpuInfoIndex>>
          /\ current' = counter[c] + 1
      BY <1>1, <1>10 DEF StoreCurrent, Step
    <2>2. Q' = Q + 1 /\ P' = P
      BY <1>2, <1>3, <1>4, <2>1
    <2>3. current' \in 1 .. Q' + 1 /\ 1 .. Q + 1 \subseteq 1 .. Q' + 1
      BY <1>2, <1>5, <2>1, <2>2
    <2> QED
      BY <1>5, <1>6, <2>1, <2>2, <2>3 DEF CountInv, P, Q
  <1>11. CASE \/ ReadStack(c) \/ ReadNumber(c) \/ WriteCoreID(c) \/ WriteCurrentTask(c)
              \/ AllocStack(c) \/ WriteTSS(c) \/ EvalTSS(c) \/ EvalCore(c) \/ WriteGDT(c)
              \/ Lgdt(c)
    <2>1. /\ pc[c] \notin {"store", "tssStore"} /\ pc'[c] \notin {"store", "tssStore"}
          /\ UNCHANGED <<counter, cpuInfoIndex, current>>
      BY <1>1, <1>11 DEF ReadStack, ReadNumber, WriteCoreID, WriteCurrentTask, AllocStack,
         WriteTSS, EvalTSS, EvalCore, WriteGDT, Lgdt, Step, tables
    <2>2. P' = P /\ Q' = Q
      BY <1>2, <1>3, <1>4, <2>1
    <2> QED
      BY <1>5, <1>6, <2>1, <2>2 DEF CountInv, P, Q
  <1> QED
    BY <1>7, <1>8, <1>9, <1>10, <1>11 DEF KernelMainSMP

LEMMA CoreKeepsTables ==
  ASSUME TypeOK, OrderInv, CountInv, ArgsInv, NEW c \in Enabled, KernelMainSMP(c)
  PROVE  TypeOK' /\ ArgsInv'
  <1>1. pc \in [Enabled -> Labels]
    BY DEF TypeOK, Labels
  <1>2. /\ pc' \in [Enabled -> Labels] /\ UNCHANGED bootVars
    <2>1. \E from, to \in Labels : Step(c, from, to)
      BY LabelNames DEF KernelMainSMP, ReadStack, ReadNumber, WriteCoreID, WriteCurrentTask,
         LoadIndex, StoreIndex, AllocStack, LoadCurrent, StoreCurrent, WriteTSS, EvalTSS,
         EvalCore, WriteGDT, Lgdt
    <2>2. pc' \in [Enabled -> Labels]
      BY <1>1, <2>1 DEF Step
    <2> QED
      BY <1>1, <2>2, Successors
  <1>3. CountInv'
    BY CoreKeepsCount
  <1> DEFINE P == Cardinality(Past("store"))
             Q == Cardinality(Past("tssStore"))
             N == Cardinality(Enabled)
  <1>4. /\ P \in 0 .. N /\ P' \in 0 .. N /\ Q \in 0 .. N /\ Q' \in 0 .. N
        /\ N \in 0 .. Entries - 1
    <2>1. P \in 0 .. N /\ Q \in 0 .. N
      BY PastCounts
    <2>2. P' = P + IF pc[c] = "store" THEN 1 ELSE 0
      BY <1>1, PastGrows, LabelNames
    <2>3. Q' = Q + IF pc[c] = "tssStore" THEN 1 ELSE 0
      BY <1>1, PastGrows, LabelNames
    <2>4. pc[c] = "store" => P < N
      BY <1>1, CoreGoesOn, PastCounts, LabelNames
    <2>5. pc[c] = "tssStore" => Q < N
      BY <1>1, CoreGoesOn, PastCounts, LabelNames
    <2> QED
      BY <2>1, <2>2, <2>3, <2>4, <2>5, CoresFinite, EntriesAssumption
  <1>5. pc[c] \in {"coreID", "currentTask", "load"} => P < N
    <2>1. pc[c] \in {"coreID", "currentTask", "load"} => ~(Stage(pc[c]) > Stage("store"))
      BY Stages
    <2> QED
      BY <2>1, BeyondIsPast, PastCounts
  <1>6. pc[c] = "tssLoad" => Q < N
    <2>1. pc[c] = "tssLoad" => ~(Stage(pc[c]) > Stage("tssStore"))
      BY Stages
    <2> QED
      BY <2>1, BeyondIsPast, PastCounts
  <1>7. /\ cpuInfoIndex \in 1 .. P + 1 /\ current \in 1 .. Q + 1
        /\ cpuInfoIndex' \in 1 .. P' + 1 /\ current' \in 1 .. Q' + 1
    BY <1>3 DEF CountInv
  <1> HIDE DEF P, Q, N
  <1>8. cpuInfoIndex' \in 1 .. Entries /\ current' \in 1 .. Entries
    <2>1. P' \in 0 .. Entries - 1 /\ Q' \in 0 .. Entries - 1
      BY <1>4, EntriesAssumption
    <2>2. cpuInfoIndex' \in 1 .. P' + 1 /\ current' \in 1 .. Q' + 1
      BY <1>7
    <2>3. \A e \in Nat : \A p \in 0 .. e - 1 : \A x \in 1 .. p + 1 : x \in 1 .. e
      OBVIOUS
    <2>4. Entries \in Nat
      BY EntriesAssumption
    <2> QED
      BY <2>1, <2>2, <2>3, <2>4
  <1>9. /\ cpuInfoIndex \in 1 .. numberOfCores /\ numberOfCores \in 1 .. Entries
        /\ cpuInfoIndex - 1 \in 0 .. numberOfCores - 1
        /\ cpuInfoIndex \in 1 .. Entries /\ cpuInfoIndex - 1 \in 0 .. Entries - 1
        /\ numberOfCores' = numberOfCores
    <2>1. cpuInfoIndex \in 1 .. numberOfCores /\ numberOfCores \in Nat
      BY IndexBounds
    <2>2. numberOfCores \in 1 .. Entries /\ cpuInfoIndex \in 1 .. Entries
      BY DEF TypeOK
    <2>3. numberOfCores' = numberOfCores
      BY <1>2 DEF bootVars
    <2> QED
      BY <2>1, <2>2, <2>3, EntriesAssumption
  <1>10. cpuInfo' \in [CpuSlots -> [coreID : Enabled \cup {None}, idle : BOOLEAN]]
    <2>1. cpuInfo \in [CpuSlots -> [coreID : Enabled \cup {None}, idle : BOOLEAN]]
      BY DEF TypeOK
    <2>3. CASE WriteCoreID(c)
      BY <2>1, <2>3 DEF WriteCoreID
    <2>4. CASE WriteCurrentTask(c)
      BY <2>1, <2>4 DEF WriteCurrentTask
    <2>5. CASE UNCHANGED cpuInfo
      BY <2>1, <2>5
    <2> QED
      BY <2>3, <2>4, <2>5 DEF KernelMainSMP, ReadStack, ReadNumber, LoadIndex, StoreIndex,
         AllocStack, LoadCurrent, StoreCurrent, WriteTSS, EvalTSS, EvalCore, WriteGDT, Lgdt, tables
  <1>11. stacks' \in Nat /\ stack' \in [Cores -> Nat \cup {None}]
    <2>1. stacks \in Nat /\ stack \in [Cores -> Nat \cup {None}] /\ c \in Cores
      BY DEF TypeOK, Cores
    <2>2. CASE AllocStack(c)
      BY <2>1, <2>2 DEF AllocStack
    <2>3. CASE UNCHANGED <<stacks, stack>>
      BY <2>1, <2>3
    <2> QED
      BY <2>2, <2>3 DEF KernelMainSMP, ReadStack, ReadNumber, WriteCoreID, WriteCurrentTask,
         LoadIndex, StoreIndex, LoadCurrent, StoreCurrent, WriteTSS, EvalTSS, EvalCore, WriteGDT,
         Lgdt, tables
  <1>12. tss' \in [Slots -> Nat \cup {None}]
    <2>1. tss \in [Slots -> Nat \cup {None}] /\ stack[c] \in Nat \cup {None}
      BY DEF TypeOK, Cores
    <2>2. CASE WriteTSS(c)
      BY <2>1, <2>2 DEF WriteTSS
    <2>3. CASE UNCHANGED tss
      BY <2>1, <2>3
    <2> QED
      BY <2>2, <2>3 DEF KernelMainSMP, ReadStack, ReadNumber, WriteCoreID, WriteCurrentTask,
         LoadIndex, StoreIndex, AllocStack, LoadCurrent, StoreCurrent, EvalTSS, EvalCore, WriteGDT,
         Lgdt, tables
  <1>13. frame' \in [Cores -> Nat \cup {None}]
    <2>1. /\ frame \in [Cores -> Nat \cup {None}] /\ c \in Cores
          /\ mailbox.stack \in Nat \cup {None}
      BY DEF TypeOK, Cores
    <2>2. CASE ReadStack(c)
      BY <2>1, <2>2 DEF ReadStack
    <2>3. CASE UNCHANGED frame
      BY <2>1, <2>3
    <2> QED
      BY <2>2, <2>3 DEF KernelMainSMP, ReadNumber, WriteCoreID, WriteCurrentTask, LoadIndex,
         StoreIndex, AllocStack, LoadCurrent, StoreCurrent, WriteTSS, EvalTSS, EvalCore, WriteGDT,
         Lgdt
  <1>14. fs' \in [Cores -> 0 .. Entries - 1]
    <2>1. /\ fs \in [Cores -> 0 .. Entries - 1] /\ c \in Cores
          /\ mailbox.core \in 1 .. Entries - 1 \cup {None}
      BY DEF TypeOK, Cores
    <2>2. mailbox.core \in 0 .. Entries - 1
      BY <2>1, CoreKeepsOrder, EntriesAssumption DEF None
    <2>3. CASE ReadNumber(c)
      BY <2>1, <2>2, <2>3 DEF ReadNumber
    <2>4. CASE UNCHANGED fs
      BY <2>1, <2>4
    <2> QED
      BY <2>3, <2>4 DEF KernelMainSMP, ReadStack, WriteCoreID, WriteCurrentTask, LoadIndex,
         StoreIndex, AllocStack, LoadCurrent, StoreCurrent, WriteTSS, EvalTSS, EvalCore, WriteGDT,
         Lgdt
  <1>15. counter' \in [Enabled -> 0 .. Entries - 1]
    <2>1. counter \in [Enabled -> 0 .. Entries - 1]
      BY DEF TypeOK
    <2>2. pc[c] = "load" => cpuInfoIndex \in 0 .. Entries - 1
      BY <1>4, <1>5, <1>7, EntriesAssumption
    <2>3. pc[c] = "tssLoad" => current \in 0 .. Entries - 1
      BY <1>4, <1>6, <1>7, EntriesAssumption
    <2>4. CASE LoadIndex(c)
      BY <2>1, <2>2, <2>4 DEF LoadIndex, Step
    <2>5. CASE LoadCurrent(c)
      BY <2>1, <2>3, <2>5 DEF LoadCurrent, Step
    <2>6. CASE UNCHANGED counter
      BY <2>1, <2>6
    <2> QED
      BY <2>4, <2>5, <2>6 DEF KernelMainSMP, ReadStack, ReadNumber, WriteCoreID, WriteCurrentTask,
         StoreIndex, AllocStack, StoreCurrent, WriteTSS, EvalTSS, EvalCore, WriteGDT, Lgdt
  <1>16. \A d \in Enabled :
           /\ Beyond(d, "tssArg")' <=> Beyond(d, "tssArg") \/ (d = c /\ pc[c] = "tssArg")
           /\ Beyond(d, "coreArg")' <=> Beyond(d, "coreArg") \/ (d = c /\ pc[c] = "coreArg")
           /\ Beyond(d, "gdtWrite")' <=> Beyond(d, "gdtWrite") \/ (d = c /\ pc[c] = "gdtWrite")
    BY <1>1, CoreGoesOn, LabelNames
  <1>17. \A d \in Enabled : pc[d] \in {"tssArg", "coreArg"} => ~Beyond(d, "gdtWrite")
    BY Stages, BeyondIsPast
  <1> DEFINE Args == [Enabled -> [core : 0 .. Entries - 1 \cup {None},
                                  tss : 1 .. Entries \cup {None}]]
  <1>18. args' \in Args
         /\ \A d \in Enabled :
              /\ Beyond(d, "tssArg")' => args'[d].tss \in 1 .. numberOfCores
              /\ Beyond(d, "coreArg")' => args'[d].core \in 0 .. numberOfCores - 1
              /\ Beyond(d, "gdtWrite") => args'[d] = args[d]
    <2>1. args \in Args
          /\ \A d \in Enabled :
               /\ Beyond(d, "tssArg") => args[d].tss \in 1 .. numberOfCores
               /\ Beyond(d, "coreArg") => args[d].core \in 0 .. numberOfCores - 1
      BY DEF TypeOK, ArgsInv
    <2>3. CASE EvalTSS(c)
      <3>1. pc[c] = "tssArg" /\ args' = [args EXCEPT ![c].tss = cpuInfoIndex]
        BY <2>3 DEF EvalTSS, Step
      <3>2. /\ args'[c].tss = cpuInfoIndex /\ args'[c].core = args[c].core
            /\ \A d \in Enabled : d # c => args'[d] = args[d]
        BY <2>1, <3>1
      <3>3. args' \in Args
        BY <1>9, <2>1, <3>1
      <3> QED
        BY <1>9, <1>16, <1>17, <2>1, <3>1, <3>2, <3>3
    <2>4. CASE EvalCore(c)
      <3>1. pc[c] = "coreArg" /\ args' = [args EXCEPT ![c].core = cpuInfoIndex - 1]
        BY <2>4 DEF EvalCore, Step
      <3>2. /\ args'[c].core = cpuInfoIndex - 1 /\ args'[c].tss = args[c].tss
            /\ \A d \in Enabled : d # c => args'[d] = args[d]
        BY <2>1, <3>1
      <3>3. args' \in Args
        BY <1>9, <2>1, <3>1
      <3> QED
        BY <1>9, <1>16, <1>17, <2>1, <3>1, <3>2, <3>3
    <2>5. CASE pc[c] \notin {"tssArg", "coreArg"} /\ UNCHANGED args
      BY <1>16, <2>1, <2>5
    <2> QED
      BY <2>3, <2>4, <2>5 DEF KernelMainSMP, ReadStack, ReadNumber, WriteCoreID, WriteCurrentTask,
         LoadIndex, StoreIndex, AllocStack, LoadCurrent, StoreCurrent, WriteTSS, WriteGDT, Lgdt,
         Step
  <1>19. /\ gdt' \in [Slots -> 0 .. Entries \cup {None}] /\ tr' \in [Cores -> Slots \cup {None}]
         /\ \A s \in Slots : gdt'[s] # None => gdt'[s] \in 0 .. numberOfCores
         /\ \A s \in Slots : gdt[s] # None => gdt'[s] # None
         /\ pc[c] = "gdtWrite" => args[c].core \in Slots /\ gdt'[args[c].core] # None
    <2>1. /\ gdt \in [Slots -> 0 .. Entries \cup {None}] /\ tr \in [Cores -> Slots \cup {None}]
          /\ c \in Cores /\ \A s \in Slots : gdt[s] # None => gdt[s] \in 0 .. numberOfCores
      BY DEF TypeOK, ArgsInv, Cores
    <2>2. CASE WriteGDT(c)
      <3>1. /\ pc[c] = "gdtWrite" /\ args[c].core \in Slots /\ tr' = tr
            /\ gdt' = [gdt EXCEPT ![args[c].core] = args[c].tss]
        BY <2>2 DEF WriteGDT, Step
      <3>2. Beyond(c, "tssArg")
        BY <3>1, Stages, BeyondIsPast
      <3>3. args[c].tss \in 1 .. numberOfCores /\ args[c].tss \in 0 .. Entries
        <4>1. args[c].tss \in 1 .. numberOfCores
          BY <3>2 DEF ArgsInv
        <4> QED
          BY <1>9, <4>1, EntriesAssumption
      <3>4. args[c].tss # None /\ args[c].tss \in 0 .. numberOfCores
        BY <1>9, <3>3 DEF None
      <3> HIDE DEF Args
      <3> QED
        BY <2>1, <3>1, <3>3, <3>4
    <2>3. CASE Lgdt(c)
      <3>1. /\ pc[c] = "ltr" /\ gdt[args[c].core] \in Slots /\ gdt' = gdt
            /\ tr' = [tr EXCEPT ![c] = gdt[args[c].core]]
        BY <2>3 DEF Lgdt, Step, tables
      <3> QED
        BY <2>1, <3>1
    <2>4. CASE pc[c] # "gdtWrite" /\ UNCHANGED <<gdt, tr>>
      BY <2>1, <2>4
    <2> QED
      BY <2>2, <2>3, <2>4 DEF KernelMainSMP, ReadStack, ReadNumber, WriteCoreID, WriteCurrentTask,
         LoadIndex, StoreIndex, AllocStack, LoadCurrent, StoreCurrent, WriteTSS, EvalTSS, EvalCore,
         tables, Step
  <1>20. TypeOK'
    <2>1. /\ i' \in 1 .. Entries /\ boot' \in {"stack", "number", "ipi", "sleep"}
          /\ mailbox' \in [stack : Nat \cup {None}, core : 1 .. Entries - 1 \cup {None}]
          /\ numberOfCores' \in 1 .. Entries /\ slack' \in 1 .. Len(Path)
      BY <1>2 DEF TypeOK, bootVars
    <2> QED
      BY <1>2, <1>8, <1>10, <1>11, <1>12, <1>13, <1>14, <1>15, <1>18, <1>19, <2>1
         DEF TypeOK, Labels
  <1>21. ArgsInv'
    <2>1. \A d \in Enabled : Beyond(d, "gdtWrite")' =>
            args'[d].core \in Slots /\ gdt'[args'[d].core] # None
      <3>1. ASSUME NEW d \in Enabled, Beyond(d, "gdtWrite")
            PROVE  args'[d].core \in Slots /\ gdt'[args'[d].core] # None
        BY <1>18, <1>19, <3>1 DEF ArgsInv
      <3>2. ASSUME pc[c] = "gdtWrite"
            PROVE  args'[c].core \in Slots /\ gdt'[args'[c].core] # None
        <4>1. args' = args
          BY <3>2 DEF KernelMainSMP, ReadStack, ReadNumber, WriteCoreID, WriteCurrentTask,
             LoadIndex, StoreIndex, AllocStack, LoadCurrent, StoreCurrent, WriteTSS, EvalTSS,
             EvalCore, WriteGDT, Lgdt, Step
        <4> QED
          BY <1>19, <3>2, <4>1
      <3> QED
        BY <1>16, <3>1, <3>2
    <2> QED
      BY <1>9, <1>18, <1>19, <2>1 DEF ArgsInv
  <1> QED
    BY <1>20, <1>21

LEMMA NextTables == TablesInv /\ [Next]_vars => TablesInv'
  <1>1. ASSUME TablesInv, InitSMP PROVE TablesInv'
    BY <1>1, BootKeepsOrder, BootKeepsTables DEF TablesInv
  <1>2. ASSUME TablesInv, NEW c \in Enabled, KernelMainSMP(c) PROVE TablesInv'
    BY <1>2, CoreKeepsOrder, CoreKeepsCount, CoreKeepsTables DEF TablesInv
  <1>3. ASSUME TablesInv, UNCHANGED vars PROVE TablesInv'
    BY <1>3 DEF TablesInv, TypeOK, OrderInv, CountInv, ArgsInv, Past, Beyond, Rank, vars,
       bootVars, tables, coreVars
  <1> QED
    BY <1>1, <1>2, <1>3 DEF Next

LEMMA TablesHold == Spec => []TablesInv
  BY InitTables, NextTables, PTL DEF Spec

(* Every variable of SmpBoot keeps its type, for any MADT: the increments  *)
(* cpuInfoIndex++ of kernelMainSMP and ++current of addNewTSS, made        *)
(* without a lock by any number of cores at once, do not take a counter    *)
(* beyond the number of entries of the MADT.  Whether the tables have that *)
(* many entries is another matter: TablesHaveRoom.                         *)
THEOREM TypeCorrect == Spec => []TypeOK
  BY TablesHold, PTL DEF TablesInv

LEMMA RoomFollows == TablesInv => RoomSuffices
  <1> SUFFICES ASSUME TablesInv, numberOfCores <= CpuEntries, numberOfCores < TableEntries,
                      NEW c \in Enabled
               PROVE  ~GoesBeyond(c)
    BY DEF RoomSuffices
  <1>1. TypeOK /\ OrderInv /\ CountInv /\ ArgsInv
    BY DEF TablesInv
  <1>2. /\ numberOfCores \in Nat /\ current \in 1 .. numberOfCores
        /\ pc[c] \in {"coreID", "currentTask"} => cpuInfoIndex \in 1 .. numberOfCores - 1
    BY <1>1, IndexBounds
  <1>3. /\ CpuEntries \in Nat /\ TableEntries \in Nat
        /\ Slots = 0 .. TableEntries - 1 /\ CpuSlots = 0 .. CpuEntries - 1
    BY TableAssumption DEF Slots, CpuSlots
  <1>4. ~BeyondCpuInfo(c)
    BY <1>2, <1>3 DEF BeyondCpuInfo
  <1>5. pc[c] = "ltr" => gdt[args[c].core] \in 0 .. numberOfCores
    <2>1. pc[c] = "ltr" => Beyond(c, "gdtWrite")
      BY Stages, BeyondIsPast
    <2> QED
      BY <1>1, <2>1 DEF ArgsInv
  <1>6. ~BeyondTSS(c)
    BY <1>2, <1>3, <1>5 DEF BeyondTSS
  <1>7. pc[c] = "gdtWrite" => args[c].core \in 0 .. numberOfCores - 1
    <2>1. pc[c] = "gdtWrite" => Beyond(c, "coreArg")
      BY Stages, BeyondIsPast
    <2> QED
      BY <1>1, <2>1 DEF ArgsInv
  <1>8. ~BeyondGDT(c)
    BY <1>2, <1>3, <1>7 DEF BeyondGDT
  <1> QED
    BY <1>4, <1>6, <1>8 DEF GoesBeyond

(* However the cores race for the counters, none goes beyond a table until *)
(* initSMP has started more cores than cpuInfo has entries, or as many as  *)
(* the tables of descriptors have: neither limit is tested (gdt.c:10,      *)
(* tss.c:9 and 24, smp.c:56).                                              *)
THEOREM TablesHaveRoom == Spec => []RoomSuffices
  BY TablesHold, RoomFollows, PTL

-----------------------------------------------------------------------------
(* As long as no core is late, one core at a time is under way. *)

LEMMA BeingInTime ==
  ASSUME TypeOK, OrderInv, InitSMP, NEW label \in Labels, InTime(label)'
  PROVE  InTime(label)
  <1>1. slack \in 1 .. 16 /\ pc \in [Enabled -> Labels]
    BY Stages DEF TypeOK, Labels
  <1>2. CASE SleepEnds
    <2>1. i \in Enabled
      BY <1>2 DEF SleepEnds, Looping, OrderInv
    <2>2. Stage(pc[i]) \in 1 .. 16 /\ Stage(label) \in 1 .. 16
      BY <1>1, <2>1, StageTypes
    <2>3. slack' = IF Stage(pc[i]) < slack THEN Stage(pc[i]) ELSE slack
      BY <1>2 DEF SleepEnds
    <2> QED
      BY <1>1, <2>2, <2>3 DEF InTime
  <1>3. CASE UNCHANGED slack
    BY <1>3 DEF InTime
  <1> QED
    BY <1>2, <1>3 DEF InitSMP, SkipDisabled, PrepStack, PrepNumber, SendIPI

LEMMA OneUnderWay ==
  ASSUME TypeOK, OrderInv, NEW label \in Labels, InTime(label),
         NEW c \in Enabled, pc[c] # "off", ~Beyond(c, label)
  PROVE  c = i /\ boot = "sleep"
  <1>1. /\ i \in 1 .. Entries /\ c \in 1 .. Entries - 1 /\ slack \in 1 .. 16
        /\ Stage(pc[c]) \in 1 .. 16 /\ Stage(label) \in 1 .. 16
    BY Stages, StageTypes, EntriesAssumption DEF TypeOK, Labels
  <1>2. ~(c < i)
    BY <1>1, BeyondIsPast DEF OrderInv, InTime
  <1>3. ~(c > i)
    BY DEF OrderInv
  <1> QED
    BY <1>1, <1>2, <1>3, EntriesAssumption DEF OrderInv

-----------------------------------------------------------------------------
(* The stacks. *)

LEMMA InitStacks == Init => StackInv
  <1> SUFFICES ASSUME Init PROVE StackInv
    OBVIOUS
  <1>1. \A c \in Enabled, label \in Labels : ~Beyond(c, label)
    <2>1. \A c \in Enabled, label \in Labels : ~(Stage(pc[c]) > Stage(label))
      BY Stages, StageTypes DEF Init
    <2> QED
      BY <2>1, BeyondIsPast
  <1>2. frame[0] = 0 /\ stack[0] = 0 /\ \A c \in Enabled : stack[c] = None
    BY EntriesAssumption DEF Init, Cores
  <1> QED
    BY <1>1, <1>2, LabelNames DEF StackInv, Init

LEMMA BootKeepsStacks ==
  ASSUME TablesInv, StackInv, InitSMP
  PROVE  StackInv'
  <1>1. TypeOK /\ OrderInv
    BY DEF TablesInv
  <1>2. InTime("stack")' => InTime("stack")
    BY <1>1, BeingInTime, LabelNames
  <1>3. \A c \in Enabled : /\ Beyond(c, "stack")' <=> Beyond(c, "stack")
                           /\ Beyond(c, "alloc")' <=> Beyond(c, "alloc")
    BY <1>1, BootLeavesPast, LabelNames
  <1>4. UNCHANGED <<frame, stack>>
    BY DEF InitSMP, SkipDisabled, PrepStack, PrepNumber, SendIPI, SleepEnds, coreVars
  <1>5. CASE PrepStack
    <2>1. /\ mailbox'.stack = stacks /\ stacks' = stacks + 1 /\ stacks \in Nat \ {0}
          /\ i' = i /\ 1 .. stacks - 1 \subseteq 1 .. stacks' - 1 /\ stacks \in 1 .. stacks' - 1
          /\ stacks \notin 1 .. stacks - 1
      BY <1>1, <1>5 DEF PrepStack, TypeOK, StackInv
    <2> QED
      BY <1>2, <1>3, <1>4, <2>1 DEF StackInv
  <1>6. CASE PrepNumber \/ SendIPI
    <2>1. /\ mailbox'.stack = mailbox.stack /\ stacks' = stacks /\ i' = i /\ boot # "stack"
      BY <1>1, <1>6 DEF PrepNumber, SendIPI, TypeOK, Looping, tables
    <2> QED
      BY <1>2, <1>3, <1>4, <2>1 DEF StackInv
  <1>7. CASE SkipDisabled \/ SleepEnds
    <2>1. mailbox' = mailbox /\ stacks' = stacks /\ boot' = "stack"
      BY <1>7 DEF SkipDisabled, SleepEnds, Looping, tables
    <2> QED
      BY <1>2, <1>3, <1>4, <2>1 DEF StackInv
  <1> QED
    BY <1>5, <1>6, <1>7 DEF InitSMP

LEMMA CoreKeepsStacks ==
  ASSUME TablesInv, StackInv, NEW c \in Enabled, KernelMainSMP(c)
  PROVE  StackInv'
  <1>1. TypeOK /\ OrderInv
    BY DEF TablesInv
  <1>2. /\ pc \in [Enabled -> Labels] /\ frame \in [Cores -> Nat \cup {None}]
        /\ stack \in [Cores -> Nat \cup {None}] /\ c \in Cores /\ c # 0 /\ Enabled \subseteq Cores
    BY <1>1, EntriesAssumption DEF TypeOK, Labels, Cores
  <1>3. UNCHANGED <<i, boot, mailbox, slack>> /\ pc[c] # "off"
    BY <1>2, Successors DEF bootVars
  <1>4. \A d \in Enabled :
          /\ Beyond(d, "stack")' <=> Beyond(d, "stack") \/ (d = c /\ pc[c] = "stack")
          /\ Beyond(d, "alloc")' <=> Beyond(d, "alloc") \/ (d = c /\ pc[c] = "alloc")
    BY <1>2, CoreGoesOn, LabelNames
  <1>5. InTime("stack")' <=> InTime("stack")
    BY <1>3 DEF InTime
  <1>6. mailbox.stack \in 1 .. stacks - 1
    BY <1>1, CoreKeepsOrder DEF StackInv, None
  <1>7. CASE ReadStack(c)
    <2>1. /\ pc[c] = "stack" /\ frame' = [frame EXCEPT ![c] = mailbox.stack]
          /\ UNCHANGED <<stack, stacks>>
      BY <1>7 DEF ReadStack, Step, tables
    <2>2. /\ frame'[c] = mailbox.stack /\ frame'[0] = frame[0]
          /\ \A d \in Enabled : d # c => frame'[d] = frame[d]
      BY <1>2, <2>1 DEF Cores
    <2>3. ~Beyond(c, "stack")
      BY <1>2, <2>1, CoreGoesOn, LabelNames
    <2>4. InTime("stack") => c = i /\ boot = "sleep"
      BY <1>1, <1>3, <2>3, OneUnderWay, LabelNames
    <2>5. \A d \in Enabled : Beyond(d, "alloc")' <=> Beyond(d, "alloc")
      BY <1>4, <2>1
    <2>6. \A d \in Enabled : /\ Beyond(d, "stack")' => frame'[d] \in 1 .. stacks - 1
                             /\ Beyond(d, "alloc")' => stack[d] # mailbox.stack
      BY <1>4, <1>6, <2>2, <2>5 DEF StackInv
    <2>7. \A a, d \in Enabled : Beyond(a, "alloc")' /\ Beyond(d, "stack")' => stack[a] # frame'[d]
      BY <1>4, <2>2, <2>5 DEF StackInv
    <2>8. ASSUME InTime("stack"), NEW a \in Enabled, Beyond(a, "stack")'
          PROVE  /\ boot # "stack" /\ a # i => frame'[a] # mailbox.stack
                 /\ \A d \in Enabled : a # d /\ Beyond(d, "stack")' => frame'[a] # frame'[d]
      BY <1>4, <2>2, <2>4, <2>8 DEF StackInv
    <2> QED
      BY <1>3, <1>5, <2>1, <2>2, <2>5, <2>6, <2>7, <2>8 DEF StackInv
  <1>8. CASE AllocStack(c)
    <2>1. /\ pc[c] = "alloc" /\ stack' = [stack EXCEPT ![c] = stacks]
          /\ stacks' = stacks + 1 /\ UNCHANGED frame
      BY <1>8 DEF AllocStack, Step
    <2>2. /\ stack'[c] = stacks /\ stack'[0] = stack[0]
          /\ \A d \in Enabled : d # c => stack'[d] = stack[d]
      BY <1>2, <2>1 DEF Cores
    <2>3. /\ stacks' \in Nat \ {0} /\ 1 .. stacks - 1 \subseteq 1 .. stacks' - 1
          /\ stacks \in 1 .. stacks' - 1 /\ stacks \notin 1 .. stacks - 1
      BY <2>1 DEF StackInv
    <2>4. \A d \in Enabled : Beyond(d, "stack")' <=> Beyond(d, "stack")
      BY <1>4, <2>1
    <2>5. \A d \in Enabled : /\ Beyond(d, "alloc")' => stack'[d] \in 1 .. stacks' - 1
                             /\ Beyond(d, "alloc")' => stack'[d] # mailbox.stack
                             /\ ~Beyond(d, "alloc")' => stack'[d] = None
      BY <1>4, <1>6, <2>1, <2>2, <2>3 DEF StackInv
    <2>6. \A a, d \in Enabled : Beyond(a, "alloc")' =>
            /\ a # d => stack'[a] # stack'[d]
            /\ Beyond(d, "stack")' => stack'[a] # frame[d]
      <3>1. \A d \in Enabled : d # c => stack[d] # stacks
        <4>1. \A d \in Enabled : stack[d] \in 1 .. stacks - 1 \/ stack[d] = None
          BY DEF StackInv
        <4>2. stacks # None
          BY DEF StackInv, None
        <4> QED
          BY <2>3, <4>1, <4>2
      <3>2. \A d \in Enabled : Beyond(d, "stack")' => frame[d] # stacks
        BY <2>3, <2>4 DEF StackInv
      <3> QED
        BY <1>4, <2>1, <2>2, <2>4, <3>1, <3>2 DEF StackInv
    <2> QED
      BY <1>3, <1>5, <2>1, <2>2, <2>3, <2>4, <2>5, <2>6 DEF StackInv
  <1>9. CASE pc[c] \notin {"stack", "alloc"} /\ UNCHANGED <<frame, stack, stacks>>
    <2>1. \A d \in Enabled : /\ Beyond(d, "stack")' <=> Beyond(d, "stack")
                             /\ Beyond(d, "alloc")' <=> Beyond(d, "alloc")
      BY <1>4, <1>9
    <2> QED
      BY <1>3, <1>5, <1>9, <2>1 DEF StackInv
  <1> QED
    BY <1>7, <1>8, <1>9 DEF KernelMainSMP, ReadNumber, WriteCoreID, WriteCurrentTask, LoadIndex,
       StoreIndex, LoadCurrent, StoreCurrent, WriteTSS, EvalTSS, EvalCore, WriteGDT, Lgdt, Step,
       tables

LEMMA StacksFollow == TypeOK /\ StackInv => StacksPrivate
  <1> SUFFICES ASSUME TypeOK, StackInv, InTime("stack"),
                      NEW c \in Cores, NEW d \in Cores, c # d,
                      Beyond(c, "alloc"), Beyond(d, "stack")
               PROVE  frame[c] # frame[d] /\ stack[c] # stack[d] /\ stack[c] # frame[d]
    BY DEF StacksPrivate
  <1>1. c \in Enabled => Beyond(c, "stack")
    <2>1. \A a \in Enabled : pc[a] \in Labels
      BY DEF TypeOK, Labels
    <2>2. \A a \in Enabled : Stage(pc[a]) > Stage("alloc") => Stage(pc[a]) > Stage("stack")
      BY <2>1, Stages, StageTypes
    <2> QED
      BY <2>2, BeyondIsPast
  <1>2. \A a \in Enabled : stack[a] # 0 /\ (Beyond(a, "stack") => frame[a] # 0)
    BY DEF StackInv, None
  <1>3. CASE c = 0
    <2>1. d \in Enabled /\ frame[c] = 0 /\ stack[c] = 0
      BY <1>3 DEF Cores, StackInv
    <2> QED
      BY <1>2, <2>1
  <1>4. CASE d = 0
    <2>1. c \in Enabled /\ frame[d] = 0 /\ stack[d] = 0
      BY <1>4 DEF Cores, StackInv
    <2> QED
      BY <1>1, <1>2, <2>1
  <1>5. CASE c \in Enabled /\ d \in Enabled
    BY <1>1, <1>5 DEF StackInv
  <1> QED
    BY <1>3, <1>4, <1>5 DEF Cores

(* No two cores run on one stack: not on the one they came with, if every  *)
(* core reads the mailbox of initSMP before the ten milliseconds are over, *)
(* and not on the one that kernelMainSMP allocates.  The second half needs *)
(* no deadline, as StackInv shows.                                         *)
THEOREM StacksArePrivate == Spec => []StacksPrivate
  <1>1. TablesInv /\ StackInv /\ [Next]_vars => StackInv'
    <2>1. ASSUME StackInv, UNCHANGED <<bootVars, tables, coreVars>> PROVE StackInv'
      BY <2>1 DEF StackInv, Beyond, InTime, bootVars, tables, coreVars
    <2> QED
      BY <2>1, BootKeepsStacks, CoreKeepsStacks DEF Next, vars
  <1>2. TablesInv /\ StackInv => StacksPrivate
    BY StacksFollow DEF TablesInv
  <1> QED
    BY <1>1, <1>2, InitStacks, TablesHold, PTL DEF Spec

-----------------------------------------------------------------------------
(* The numbers. *)

(* What the two counters are: one more than the cores that initSMP has     *)
(* done with, and one more again when the core under way has had its turn. *)
Turn(label) == Rank(i) + IF i \in Past(label) THEN 1 ELSE 0

LEMMA TurnsStay ==
  ASSUME TypeOK, OrderInv, InitSMP, NEW label \in Labels \ {"off"}, InTime(label)'
  PROVE  Turn(label)' = Turn(label)
  <1>1. /\ i \in 1 .. Entries /\ pc \in [Enabled -> Labels] /\ slack \in 1 .. 16
        /\ Rank(i) \in Nat /\ Entries \in Nat
    BY Stages, Ranks, CoresFinite, EntriesAssumption DEF TypeOK, Labels
  <1>2. Past(label)' = Past(label)
    BY BootLeavesPast
  <1>3. i + 1 \notin Past(label)
    <2>1. \A c \in Enabled : c > i => pc[c] = "off"
      BY DEF OrderInv
    <2>2. ~(Stage("off") > Stage(label))
      BY Stages, StageTypes
    <2> QED
      BY <1>1, <2>1, <2>2 DEF Past
  <1>4. CASE UNCHANGED i
    BY <1>2, <1>4 DEF Turn, Rank
  <1>5. CASE SkipDisabled
    <2>1. i' = i + 1 /\ i \in 1 .. Entries - 1 /\ i \notin Enabled
      BY <1>1, <1>5 DEF SkipDisabled, Looping
    <2>2. Rank(i + 1) = Rank(i)
      BY <1>1, <2>1, RankSteps
    <2>3. i \notin Past(label)
      BY <2>1 DEF Past
    <2> QED
      BY <1>1, <1>2, <1>3, <2>1, <2>2, <2>3 DEF Turn, Rank
  <1>6. CASE SleepEnds
    <2>1. i' = i + 1 /\ i \in 1 .. Entries - 1 /\ i \in Enabled
      BY <1>1, <1>6 DEF SleepEnds, Looping, OrderInv
    <2>2. Rank(i + 1) = Rank(i) + 1
      BY <1>1, <2>1, RankSteps
    <2>3. Stage(pc[i]) \in 1 .. 16 /\ Stage(label) \in 1 .. 16
      BY <1>1, <2>1, StageTypes
    <2>4. slack' <= Stage(pc[i])
      BY <1>1, <1>6, <2>3 DEF SleepEnds
    <2>5. slack' > Stage(label) /\ slack' \in 1 .. 16
      BY <1>1, <1>6, <2>3 DEF InTime, SleepEnds
    <2>6. i \in Past(label)
      BY <2>1, <2>3, <2>4, <2>5 DEF Past
    <2> QED
      BY <1>1, <1>2, <1>3, <2>1, <2>2, <2>6 DEF Turn, Rank
  <1> QED
    BY <1>4, <1>5, <1>6 DEF InitSMP, PrepStack, PrepNumber, SendIPI

(* The core that has not had its turn is the one the counter counts next. *)
LEMMA TurnsCome ==
  ASSUME TypeOK, OrderInv, NEW label \in Labels, InTime(label),
         NEW c \in Enabled, pc[c] # "off", ~Beyond(c, label)
  PROVE  Turn(label) = Rank(c) /\ mailbox.core = Rank(c) /\ c = i
  <1>1. c = i /\ boot = "sleep"
    BY OneUnderWay
  <1>2. c \notin Past(label) /\ Rank(c) \in Nat
    BY BeyondIsPast, Ranks, CoresFinite
  <1> QED
    BY <1>1, <1>2 DEF Turn, OrderInv

LEMMA TurnsAreTaken ==
  ASSUME TypeOK, OrderInv, NEW label \in Labels, InTime(label),
         NEW c \in Enabled, KernelMainSMP(c)
  PROVE  Turn(label)' = IF pc[c] = label THEN Rank(c) + 1 ELSE Turn(label)
  <1>1. pc \in [Enabled -> Labels]
    BY DEF TypeOK, Labels
  <1>2. i' = i /\ Past(label)' = Past(label) \cup {d \in {c} : pc[c] = label} /\ pc[c] # "off"
    BY <1>1, Successors, CoreGoesOn DEF bootVars
  <1>3. CASE pc[c] = label
    <2>1. c = i
      BY <1>1, <1>2, <1>3, CoreGoesOn, TurnsCome
    <2> QED
      BY <1>2, <1>3, <2>1 DEF Turn, Rank
  <1>4. CASE pc[c] # label
    BY <1>2, <1>4 DEF Turn, Rank
  <1> QED
    BY <1>3, <1>4

LEMMA RanksDiffer ==
  \A c \in Enabled : /\ Rank(c) \in Nat
                     /\ \A d \in Enabled : c # d => Rank(c) # Rank(d)
  BY Ranks, CoresFinite

LEMMA InitNumbers == Init => NumberInv /\ DescriptorInv
  <1> SUFFICES ASSUME Init PROVE NumberInv /\ DescriptorInv
    OBVIOUS
  <1>1. \A c \in Enabled : pc[c] = "off"
    BY DEF Init
  <1>2. \A c \in Enabled, label \in Labels : ~Beyond(c, label) /\ c \notin Past(label)
    BY <1>1, Stages, StageTypes, BeyondIsPast
  <1>3. 1 \notin Past("store") /\ 1 \notin Past("tssStore")
    BY <1>2, LabelNames DEF Past
  <1>4. cpuInfoIndex = Rank(1) /\ current = Rank(1) /\ i = 1 /\ Rank(1) = 1
    BY RankSteps DEF Init
  <1> QED
    BY <1>1, <1>2, <1>3, <1>4, LabelNames DEF NumberInv, DescriptorInv

LEMMA BootKeepsNumbers ==
  ASSUME TablesInv, NumberInv, DescriptorInv, InitSMP
  PROVE  NumberInv' /\ DescriptorInv'
  <1>1. TypeOK /\ OrderInv
    BY DEF TablesInv
  <1>2. \A label \in Labels \ {"off"}, c \in Enabled : Beyond(c, label)' <=> Beyond(c, label)
    BY <1>1, BootLeavesPast
  <1>3. UNCHANGED <<cpuInfoIndex, cpuInfo, current, tss, gdt, stack, fs, counter, args, tr>>
    BY DEF InitSMP, SkipDisabled, PrepStack, PrepNumber, SendIPI, SleepEnds, tables, coreVars
  <1>4. \A c \in Enabled, label \in {"store", "tssStore", "ready"} : pc'[c] = label => pc[c] = label
    BY <1>1 DEF InitSMP, SkipDisabled, PrepStack, PrepNumber, SendIPI, SleepEnds, coreVars, TypeOK
  <1>5. ASSUME InTime("store")' PROVE InTime("store") /\ Turn("store")' = Turn("store")
    BY <1>1, <1>5, BeingInTime, TurnsStay, LabelNames
  <1>6. ASSUME InTime("coreArg")' PROVE InTime("coreArg") /\ Turn("tssStore")' = Turn("tssStore")
    <2>1. slack' > Stage("coreArg") => slack' > Stage("tssStore")
      <3>1. TypeOK'
        BY BootKeepsTables DEF TablesInv
      <3>2. slack' \in 1 .. Len(Path)
        BY <3>1 DEF TypeOK
      <3> QED
        BY <3>2, Stages
    <2>2. InTime("tssStore")'
      BY <1>6, <2>1 DEF InTime
    <2> QED
      BY <1>1, <1>6, <2>2, BeingInTime, TurnsStay, LabelNames
  <1>7. NumberInv'
    <2>1. SUFFICES ASSUME InTime("store")' PROVE NumberInv'
      BY DEF NumberInv
    <2>2. cpuInfoIndex' = Turn("store")'
      BY <1>3, <1>5, <2>1 DEF NumberInv, Turn
    <2>3. \A c \in Enabled :
            /\ Beyond(c, "number")' => fs'[c] = Rank(c)
            /\ Beyond(c, "coreID")' => Rank(c) \in CpuSlots /\ cpuInfo'[Rank(c)].coreID = c
            /\ Beyond(c, "currentTask")' => cpuInfo'[Rank(c)].idle
            /\ pc'[c] = "store" => counter'[c] = Rank(c)
      BY <1>2, <1>3, <1>4, <1>5, <2>1, LabelNames DEF NumberInv
    <2> QED
      BY <2>2, <2>3 DEF NumberInv, Turn, Rank
  <1>8. DescriptorInv'
    <2>1. SUFFICES ASSUME InTime("coreArg")' PROVE DescriptorInv'
      BY DEF DescriptorInv
    <2>2. current' = Turn("tssStore")'
      BY <1>3, <1>6, <2>1 DEF DescriptorInv, Turn
    <2>3. \A c \in Enabled :
            /\ pc'[c] = "tssStore" => counter'[c] = Rank(c)
            /\ Beyond(c, "tssWrite")' => Rank(c) \in Slots /\ tss'[Rank(c)] = stack'[c]
            /\ Beyond(c, "tssArg")' => args'[c].tss = Rank(c) + 1
            /\ Beyond(c, "coreArg")' => args'[c].core = Rank(c)
            /\ Beyond(c, "gdtWrite")' => gdt'[Rank(c)] = Rank(c) + 1
            /\ pc'[c] = "ready" => tr'[c] = Rank(c) + 1
      BY <1>2, <1>3, <1>4, <1>6, <2>1, LabelNames DEF DescriptorInv
    <2> QED
      BY <2>2, <2>3 DEF DescriptorInv, Turn, Rank
  <1> QED
    BY <1>7, <1>8

LEMMA CoreKeepsNumbers ==
  ASSUME TablesInv, NumberInv, NEW c \in Enabled, KernelMainSMP(c)
  PROVE  NumberInv'
  <1>1. TypeOK /\ OrderInv
    BY DEF TablesInv
  <1>2. /\ pc \in [Enabled -> Labels] /\ fs \in [Cores -> 0 .. Entries - 1]
        /\ cpuInfo \in [CpuSlots -> [coreID : Enabled \cup {None}, idle : BOOLEAN]]
        /\ counter \in [Enabled -> 0 .. Entries - 1] /\ Enabled \subseteq Cores
    BY <1>1 DEF TypeOK, Labels, Cores
  <1>3. UNCHANGED <<i, boot, mailbox, slack>> /\ pc[c] # "off"
    BY <1>2, Successors DEF bootVars
  <1>4. \A d \in Enabled : d # c => pc'[d] = pc[d]
    BY <1>2, Successors
  <1>5. \A d \in Enabled : \A label \in Labels :
          Beyond(d, label)' <=> Beyond(d, label) \/ (d = c /\ pc[c] = label)
    BY <1>2, CoreGoesOn
  <1>6. \A d \in Enabled : d # c => Rank(d) # Rank(c)
    BY RanksDiffer
  <1>7. SUFFICES ASSUME InTime("store") PROVE NumberInv'
    BY <1>3 DEF NumberInv, InTime
  <1>8. Turn("store")' = IF pc[c] = "store" THEN Rank(c) + 1 ELSE Turn("store")
    BY <1>1, <1>7, TurnsAreTaken, LabelNames
  <1>9. pc[c] \in {"stack", "number", "coreID", "currentTask", "load", "store"}
          => cpuInfoIndex = Rank(c) /\ mailbox.core = Rank(c)
    <2>1. pc[c] \in {"stack", "number", "coreID", "currentTask", "load", "store"}
            => ~Beyond(c, "store")
      BY Stages, BeyondIsPast
    <2>2. Turn("store") = cpuInfoIndex
      BY <1>7 DEF Turn, NumberInv
    <2> QED
      BY <1>1, <1>3, <1>7, <2>1, <2>2, TurnsCome, LabelNames
  <1>10. /\ cpuInfoIndex = Turn("store")
         /\ \A d \in Enabled :
              /\ Beyond(d, "number") => fs[d] = Rank(d)
              /\ Beyond(d, "coreID") => Rank(d) \in CpuSlots /\ cpuInfo[Rank(d)].coreID = d
              /\ Beyond(d, "currentTask") => cpuInfo[Rank(d)].idle
              /\ pc[d] = "store" => counter[d] = Rank(d)
    BY <1>7 DEF NumberInv, Turn
  <1>11. SUFFICES /\ cpuInfoIndex' = Turn("store")'
                  /\ \A d \in Enabled :
                       /\ Beyond(d, "number")' => fs'[d] = Rank(d)
                       /\ Beyond(d, "coreID")' => Rank(d) \in CpuSlots /\ cpuInfo'[Rank(d)].coreID = d
                       /\ Beyond(d, "currentTask")' => cpuInfo'[Rank(d)].idle
                       /\ pc'[d] = "store" => counter'[d] = Rank(d)
    BY DEF NumberInv, Turn, Rank
  <1>12. CASE ReadNumber(c)
    <2>1. /\ pc[c] = "number" /\ pc'[c] = "coreID" /\ fs' = [fs EXCEPT ![c] = Rank(c)]
          /\ UNCHANGED <<cpuInfoIndex, cpuInfo, counter>>
      BY <1>2, <1>9, <1>12 DEF ReadNumber, Step, tables
    <2>2. fs'[c] = Rank(c) /\ \A d \in Enabled : d # c => fs'[d] = fs[d]
      BY <1>2, <2>1
    <2> QED
      BY <1>4, <1>5, <1>8, <1>10, <2>1, <2>2, LabelNames
  <1>13. CASE WriteCoreID(c)
    <2>1. /\ pc[c] = "coreID" /\ pc'[c] = "currentTask" /\ Rank(c) \in CpuSlots
          /\ cpuInfo' = [cpuInfo EXCEPT ![Rank(c)].coreID = c]
          /\ UNCHANGED <<cpuInfoIndex, fs, counter>>
      BY <1>2, <1>9, <1>13 DEF WriteCoreID, Step
    <2>2. cpuInfo'[Rank(c)].coreID = c
      BY <1>2, <1>6, <2>1
    <2>3. \A d \in Enabled : Rank(d) \in CpuSlots =>
             /\ cpuInfo'[Rank(d)].idle = cpuInfo[Rank(d)].idle
             /\ d # c => cpuInfo'[Rank(d)].coreID = cpuInfo[Rank(d)].coreID
      BY <1>2, <1>6, <2>1
    <2>4. \A d \in Enabled : Beyond(d, "currentTask") => Beyond(d, "coreID")
      BY <1>2, Stages, StageTypes, BeyondIsPast
    <2> QED
      BY <1>4, <1>5, <1>8, <1>10, <2>1, <2>2, <2>3, <2>4, LabelNames
  <1>14. CASE WriteCurrentTask(c)
    <2>1. /\ pc[c] = "currentTask" /\ pc'[c] = "load" /\ Rank(c) \in CpuSlots
          /\ cpuInfo' = [cpuInfo EXCEPT ![Rank(c)].idle = TRUE]
          /\ UNCHANGED <<cpuInfoIndex, fs, counter>>
      BY <1>2, <1>9, <1>14 DEF WriteCurrentTask, Step
    <2>2. cpuInfo'[Rank(c)].idle
      BY <1>2, <1>6, <2>1
    <2>3. \A d \in Enabled : Rank(d) \in CpuSlots =>
             /\ cpuInfo'[Rank(d)].coreID = cpuInfo[Rank(d)].coreID
             /\ d # c => cpuInfo'[Rank(d)].idle = cpuInfo[Rank(d)].idle
      BY <1>2, <1>6, <2>1
    <2>4. \A d \in Enabled : Beyond(d, "currentTask") => Beyond(d, "coreID")
      BY <1>2, Stages, StageTypes, BeyondIsPast
    <2> QED
      BY <1>4, <1>5, <1>8, <1>10, <2>1, <2>2, <2>3, <2>4, LabelNames
  <1>15. CASE LoadIndex(c)
    <2>1. /\ pc[c] = "load" /\ pc'[c] = "store" /\ counter' = [counter EXCEPT ![c] = Rank(c)]
          /\ UNCHANGED <<cpuInfoIndex, cpuInfo, fs>>
      BY <1>2, <1>9, <1>15 DEF LoadIndex, Step, tables
    <2>2. counter'[c] = Rank(c) /\ \A d \in Enabled : d # c => counter'[d] = counter[d]
      BY <1>2, <2>1
    <2> QED
      BY <1>4, <1>5, <1>8, <1>10, <2>1, <2>2, LabelNames
  <1>16. CASE StoreIndex(c)
    <2>1. /\ pc[c] = "store" /\ pc'[c] = "alloc" /\ cpuInfoIndex' = Rank(c) + 1
          /\ UNCHANGED <<cpuInfo, fs, counter>>
      BY <1>2, <1>10, <1>16 DEF StoreIndex, Step
    <2> QED
      BY <1>4, <1>5, <1>8, <1>10, <2>1, LabelNames
  <1>17. CASE LoadCurrent(c)
    <2>1. /\ pc[c] = "tssLoad" /\ pc'[c] = "tssStore" /\ counter' = [counter EXCEPT ![c] = current]
          /\ UNCHANGED <<cpuInfoIndex, cpuInfo, fs>>
      BY <1>2, <1>17 DEF LoadCurrent, Step, tables
    <2>2. \A d \in Enabled : d # c => counter'[d] = counter[d]
      BY <1>2, <2>1
    <2> QED
      BY <1>4, <1>5, <1>8, <1>10, <2>1, <2>2, LabelNames
  <1>18. CASE \/ ReadStack(c) \/ AllocStack(c) \/ StoreCurrent(c) \/ WriteTSS(c)
              \/ EvalTSS(c) \/ EvalCore(c) \/ WriteGDT(c) \/ Lgdt(c)
    <2>1. /\ pc[c] \notin {"number", "coreID", "currentTask", "store"} /\ pc'[c] # "store"
          /\ UNCHANGED <<cpuInfoIndex, cpuInfo, fs, counter>>
      BY <1>2, <1>18 DEF ReadStack, AllocStack, StoreCurrent, WriteTSS, EvalTSS, EvalCore,
         WriteGDT, Lgdt, Step, tables
    <2> QED
      BY <1>4, <1>5, <1>8, <1>10, <2>1, LabelNames
  <1> QED
    BY <1>12, <1>13, <1>14, <1>15, <1>16, <1>17, <1>18 DEF KernelMainSMP

LEMMA NumbersFollow == TypeOK /\ NumberInv => NumbersAgree
  <1> SUFFICES ASSUME TypeOK, NumberInv, InTime("store"), NEW c \in Enabled, Beyond(c, "store")
               PROVE  fs[c] = Rank(c) /\ cpuInfo[Rank(c)] = [coreID |-> c, idle |-> TRUE]
    BY DEF NumbersAgree
  <1>1. pc[c] \in Labels
    BY DEF TypeOK, Labels
  <1>2. Beyond(c, "number") /\ Beyond(c, "coreID") /\ Beyond(c, "currentTask")
    BY <1>1, Stages, StageTypes, BeyondIsPast
  <1>3. /\ fs[c] = Rank(c) /\ cpuInfo[Rank(c)].coreID = c /\ cpuInfo[Rank(c)].idle
        /\ Rank(c) \in CpuSlots
    BY <1>2 DEF NumberInv
  <1>4. cpuInfo[Rank(c)] \in [coreID : Enabled \cup {None}, idle : BOOLEAN]
    BY <1>3 DEF TypeOK
  <1>5. cpuInfo[Rank(c)].idle = TRUE
    BY <1>3, <1>4
  <1> QED
    BY <1>3, <1>4, <1>5

-----------------------------------------------------------------------------
(* The descriptors. *)

LEMMA CoreKeepsDescriptors ==
  ASSUME TablesInv, NumberInv, DescriptorInv, NEW c \in Enabled, KernelMainSMP(c)
  PROVE  DescriptorInv'
  <1>1. TypeOK /\ OrderInv
    BY DEF TablesInv
  <1>2. /\ pc \in [Enabled -> Labels] /\ counter \in [Enabled -> 0 .. Entries - 1]
        /\ args \in [Enabled -> [core : 0 .. Entries - 1 \cup {None}, tss : 1 .. Entries \cup {None}]]
        /\ tss \in [Slots -> Nat \cup {None}] /\ gdt \in [Slots -> 0 .. Entries \cup {None}]
        /\ stack \in [Cores -> Nat \cup {None}] /\ tr \in [Cores -> Slots \cup {None}]
        /\ Enabled \subseteq Cores
    BY <1>1 DEF TypeOK, Labels, Cores
  <1>3. UNCHANGED <<i, boot, mailbox, slack>> /\ pc[c] # "off"
    BY <1>2, Successors DEF bootVars
  <1>4. \A d \in Enabled : d # c => pc'[d] = pc[d]
    BY <1>2, Successors
  <1>5. \A d \in Enabled : \A label \in Labels :
          Beyond(d, label)' <=> Beyond(d, label) \/ (d = c /\ pc[c] = label)
    BY <1>2, CoreGoesOn
  <1>6. \A d \in Enabled : Rank(d) \in Nat /\ (d # c => Rank(d) # Rank(c))
    BY RanksDiffer
  <1>7. SUFFICES ASSUME InTime("coreArg") PROVE DescriptorInv'
    BY <1>3 DEF DescriptorInv, InTime
  <1>8. InTime("store") /\ InTime("tssStore")
    <2>1. slack \in 1 .. 16
      BY <1>1, Stages DEF TypeOK
    <2> QED
      BY <1>7, <2>1, Stages DEF InTime
  <1>9. Turn("tssStore")' = IF pc[c] = "tssStore" THEN Rank(c) + 1 ELSE Turn("tssStore")
    BY <1>1, <1>8, TurnsAreTaken, LabelNames
  <1>10. /\ cpuInfoIndex = Turn("store") /\ current = Turn("tssStore")
    BY <1>7, <1>8 DEF Turn, NumberInv, DescriptorInv
  <1>11. pc[c] \in {"tssLoad", "tssStore"} => current = Rank(c)
    <2>1. pc[c] \in {"tssLoad", "tssStore"} => ~Beyond(c, "tssStore")
      BY Stages, BeyondIsPast
    <2> QED
      BY <1>1, <1>3, <1>8, <1>10, <2>1, TurnsCome, LabelNames
  <1>12. pc[c] \in {"tssWrite", "tssArg", "coreArg"}
           => current = Rank(c) + 1 /\ cpuInfoIndex = Rank(c) + 1
    <2>1. pc[c] \in {"tssWrite", "tssArg", "coreArg"}
            => ~Beyond(c, "coreArg") /\ Beyond(c, "tssStore") /\ Beyond(c, "store")
      BY Stages, BeyondIsPast
    <2>2. pc[c] \in {"tssWrite", "tssArg", "coreArg"} => c = i
      BY <1>1, <1>3, <1>7, <2>1, OneUnderWay, LabelNames
    <2>3. pc[c] \in {"tssWrite", "tssArg", "coreArg"}
            => c \in Past("tssStore") /\ c \in Past("store")
      BY <2>1, BeyondIsPast
    <2> QED
      BY <1>10, <2>2, <2>3 DEF Turn
  <1>13. \A d \in Enabled :
           /\ pc[d] = "tssStore" => counter[d] = Rank(d)
           /\ Beyond(d, "tssWrite") => Rank(d) \in Slots /\ tss[Rank(d)] = stack[d]
           /\ Beyond(d, "tssArg") => args[d].tss = Rank(d) + 1
           /\ Beyond(d, "coreArg") => args[d].core = Rank(d)
           /\ Beyond(d, "gdtWrite") => gdt[Rank(d)] = Rank(d) + 1
           /\ pc[d] = "ready" => tr[d] = Rank(d) + 1
    BY <1>7 DEF DescriptorInv
  <1>14. SUFFICES /\ current' = Turn("tssStore")'
                  /\ \A d \in Enabled :
                       /\ pc'[d] = "tssStore" => counter'[d] = Rank(d)
                       /\ Beyond(d, "tssWrite")' => Rank(d) \in Slots /\ tss'[Rank(d)] = stack'[d]
                       /\ Beyond(d, "tssArg")' => args'[d].tss = Rank(d) + 1
                       /\ Beyond(d, "coreArg")' => args'[d].core = Rank(d)
                       /\ Beyond(d, "gdtWrite")' => gdt'[Rank(d)] = Rank(d) + 1
                       /\ pc'[d] = "ready" => tr'[d] = Rank(d) + 1
    BY DEF DescriptorInv, Turn, Rank
  <1>15. CASE AllocStack(c)
    <2>1. /\ pc[c] = "alloc" /\ pc'[c] = "tssLoad" /\ stack' = [stack EXCEPT ![c] = stacks]
          /\ UNCHANGED <<current, counter, tss, gdt, args, tr>>
      BY <1>2, <1>15 DEF AllocStack, Step
    <2>2. ~Beyond(c, "tssWrite") /\ \A d \in Enabled : d # c => stack'[d] = stack[d]
      BY <1>2, <2>1, Stages, BeyondIsPast
    <2> QED
      BY <1>4, <1>5, <1>9, <1>10, <1>13, <2>1, <2>2, LabelNames
  <1>16. CASE LoadCurrent(c)
    <2>1. /\ pc[c] = "tssLoad" /\ pc'[c] = "tssStore" /\ counter' = [counter EXCEPT ![c] = Rank(c)]
          /\ UNCHANGED <<current, stack, tss, gdt, args, tr>>
      BY <1>2, <1>11, <1>16 DEF LoadCurrent, Step, tables
    <2>2. counter'[c] = Rank(c) /\ \A d \in Enabled : d # c => counter'[d] = counter[d]
      BY <1>2, <2>1
    <2> QED
      BY <1>4, <1>5, <1>9, <1>10, <1>13, <2>1, <2>2, LabelNames
  <1>17. CASE StoreCurrent(c)
    <2>1. /\ pc[c] = "tssStore" /\ pc'[c] = "tssWrite" /\ current' = Rank(c) + 1
          /\ UNCHANGED <<counter, stack, tss, gdt, args, tr>>
      BY <1>2, <1>13, <1>17 DEF StoreCurrent, Step
    <2> QED
      BY <1>4, <1>5, <1>9, <1>13, <2>1, LabelNames
  <1>18. CASE WriteTSS(c)
    <2>1. /\ pc[c] = "tssWrite" /\ pc'[c] = "tssArg" /\ tss' = [tss EXCEPT ![Rank(c)] = stack[c]]
          /\ Rank(c) \in Slots /\ UNCHANGED <<current, counter, stack, gdt, args, tr>>
      <3>1. current - 1 = Rank(c) /\ cpuInfoIndex - 1 = Rank(c)
        BY <1>6, <1>12, <1>18 DEF WriteTSS, Step
      <3> QED
        BY <1>2, <1>18, <3>1 DEF WriteTSS, Step
    <2>2. /\ tss'[Rank(c)] = stack[c]
          /\ \A d \in Enabled : d # c /\ Rank(d) \in Slots => tss'[Rank(d)] = tss[Rank(d)]
      BY <1>2, <1>6, <2>1
    <2> QED
      BY <1>4, <1>5, <1>9, <1>10, <1>13, <2>1, <2>2, LabelNames
  <1>19. CASE EvalTSS(c)
    <2>1. /\ pc[c] = "tssArg" /\ pc'[c] = "coreArg"
          /\ args' = [args EXCEPT ![c].tss = Rank(c) + 1]
          /\ UNCHANGED <<current, counter, stack, tss, gdt, tr>>
      BY <1>2, <1>12, <1>19 DEF EvalTSS, Step, tables
    <2>2. /\ args'[c].tss = Rank(c) + 1 /\ args'[c].core = args[c].core
          /\ \A d \in Enabled : d # c => args'[d] = args[d]
      BY <1>2, <2>1
    <2> QED
      BY <1>4, <1>5, <1>9, <1>10, <1>13, <2>1, <2>2, LabelNames
  <1>20. CASE EvalCore(c)
    <2>1. /\ pc[c] = "coreArg" /\ pc'[c] = "gdtWrite"
          /\ args' = [args EXCEPT ![c].core = Rank(c)]
          /\ UNCHANGED <<current, counter, stack, tss, gdt, tr>>
      <3>1. current - 1 = Rank(c) /\ cpuInfoIndex - 1 = Rank(c)
        BY <1>6, <1>12, <1>20 DEF EvalCore, Step
      <3> QED
        BY <1>2, <1>20, <3>1 DEF EvalCore, Step, tables
    <2>2. /\ args'[c].core = Rank(c) /\ args'[c].tss = args[c].tss
          /\ \A d \in Enabled : d # c => args'[d] = args[d]
      BY <1>2, <2>1
    <2> QED
      BY <1>4, <1>5, <1>9, <1>10, <1>13, <2>1, <2>2, LabelNames
  <1>21. CASE WriteGDT(c)
    <2>1. /\ pc[c] = "gdtWrite" /\ pc'[c] = "ltr" /\ args[c].core \in Slots
          /\ gdt' = [gdt EXCEPT ![args[c].core] = args[c].tss]
          /\ UNCHANGED <<current, counter, stack, tss, args, tr>>
      BY <1>2, <1>21 DEF WriteGDT, Step
    <2>2. Beyond(c, "tssArg") /\ Beyond(c, "coreArg")
      BY <2>1, Stages, BeyondIsPast
    <2>3. /\ gdt'[Rank(c)] = Rank(c) + 1
          /\ \A d \in Enabled : d # c /\ Rank(d) \in Slots => gdt'[Rank(d)] = gdt[Rank(d)]
      BY <1>2, <1>6, <1>13, <2>1, <2>2
    <2>4. \A d \in Enabled : Beyond(d, "gdtWrite") => Beyond(d, "tssWrite")
      BY <1>2, Stages, StageTypes, BeyondIsPast
    <2> QED
      BY <1>4, <1>5, <1>9, <1>10, <1>13, <2>1, <2>3, <2>4, LabelNames
  <1>22. CASE Lgdt(c)
    <2>1. /\ pc[c] = "ltr" /\ pc'[c] = "ready" /\ tr' = [tr EXCEPT ![c] = gdt[args[c].core]]
          /\ UNCHANGED <<current, counter, stack, tss, gdt, args>>
      BY <1>2, <1>22 DEF Lgdt, Step, tables
    <2>2. Beyond(c, "gdtWrite") /\ Beyond(c, "coreArg")
      BY <2>1, Stages, BeyondIsPast
    <2>3. tr'[c] = Rank(c) + 1 /\ \A d \in Enabled : d # c => tr'[d] = tr[d]
      BY <1>2, <1>13, <2>1, <2>2
    <2> QED
      BY <1>4, <1>5, <1>9, <1>10, <1>13, <2>1, <2>3, LabelNames
  <1>23. CASE LoadIndex(c)
    <2>1. /\ pc[c] = "load" /\ pc'[c] = "store" /\ counter' = [counter EXCEPT ![c] = cpuInfoIndex]
          /\ UNCHANGED <<current, stack, tss, gdt, args, tr>>
      BY <1>2, <1>23 DEF LoadIndex, Step, tables
    <2>2. \A d \in Enabled : d # c => counter'[d] = counter[d]
      BY <1>2, <2>1
    <2> QED
      BY <1>4, <1>5, <1>9, <1>10, <1>13, <2>1, <2>2, LabelNames
  <1>24. CASE ReadStack(c) \/ ReadNumber(c) \/ WriteCoreID(c) \/ WriteCurrentTask(c) \/ StoreIndex(c)
    <2>1. /\ pc[c] \in {"stack", "number", "coreID", "currentTask", "store"}
          /\ pc'[c] \in {"number", "coreID", "currentTask", "load", "alloc"}
          /\ UNCHANGED <<current, counter, stack, tss, gdt, args, tr>>
      BY <1>2, <1>24 DEF ReadStack, ReadNumber, WriteCoreID, WriteCurrentTask, StoreIndex, Step,
         tables
    <2> QED
      BY <1>4, <1>5, <1>9, <1>10, <1>13, <2>1, LabelNames
  <1> QED
    BY <1>15, <1>16, <1>17, <1>18, <1>19, <1>20, <1>21, <1>22, <1>23, <1>24 DEF KernelMainSMP

LEMMA NextNumbers ==
  TablesInv /\ NumberInv /\ DescriptorInv /\ [Next]_vars => NumberInv' /\ DescriptorInv'
  <1>1. ASSUME NumberInv, DescriptorInv, UNCHANGED <<bootVars, tables, coreVars>>
        PROVE  NumberInv' /\ DescriptorInv'
    BY <1>1 DEF NumberInv, DescriptorInv, InTime, Past, Beyond, Rank, bootVars, tables, coreVars
  <1> QED
    BY <1>1, BootKeepsNumbers, CoreKeepsNumbers, CoreKeepsDescriptors DEF Next, vars

LEMMA DescriptorsFollow == TypeOK /\ DescriptorInv => SchedulerCanStart
  <1> SUFFICES ASSUME TypeOK, DescriptorInv, InTime("coreArg"), NEW c \in Enabled, pc[c] = "ready"
               PROVE  gdt[Rank(c)] = tr[c] /\ tr[c] = Rank(c) + 1 /\ tss[Rank(c)] = stack[c]
    BY DEF SchedulerCanStart
  <1>1. Beyond(c, "tssWrite") /\ Beyond(c, "gdtWrite")
    BY Stages, BeyondIsPast
  <1> QED
    BY <1>1 DEF DescriptorInv

LEMMA NumbersHold == Spec => [](NumberInv /\ DescriptorInv)
  BY InitNumbers, NextNumbers, TablesHold, PTL DEF Spec

(* The number that an interrupt will find in fs leads a core to its own    *)
(* cpuInfo, which it has filled in itself, if every core has its index     *)
(* before the ten milliseconds are over: then one core at a time goes      *)
(* through cpuInfoIndex, in the order in which initSMP gave the numbers.   *)
THEOREM NumbersLeadHome == Spec => []NumbersAgree
  BY TypeCorrect, NumbersHold, NumbersFollow, PTL

(* Every core that has started holds descriptors of its own, made of the   *)
(* TSS entries the scheduler will use, if every core has the arguments of  *)
(* createNewGDT before the ten milliseconds are over.  What it does after  *)
(* that, writing the table and loading it, may overlap with the next core. *)
THEOREM DescriptorsArePrivate == Spec => []SchedulerCanStart
  BY TypeCorrect, NumbersHold, DescriptorsFollow, PTL
=============================================================================
