---------------------------- MODULE MemoryProofs ----------------------------
(***************************************************************************)
(* Theorems about Memory for any memory map, any sizes of pages, tables    *)
(* and programs, and any calls that create and free address spaces.        *)
(***************************************************************************)
EXTENDS Memory, FiniteSetTheorems, WellFoundedInduction, TLAPS

-----------------------------------------------------------------------------
(* Numbers and sequences. *)

LEMMA LeastOfNat ==
  ASSUME NEW T, T \subseteq Nat, T # {}
  PROVE  \E x \in T : \A y \in T : x <= y
  <1> DEFINE R == OpToRel(<, Nat)
  <1>1. \E x \in T : \A y \in T : ~ (<<y, x>> \in R)
    BY WFMin, NatLessThanWellFounded
  <1>2. \A x, y \in Nat : y < x => <<y, x>> \in R
    BY DEF OpToRel
  <1> HIDE DEF R
  <1>3. PICK x \in T : \A y \in T : ~ (<<y, x>> \in R)
    BY <1>1
  <1>4. \A y \in T : ~(y < x)
    BY <1>2, <1>3
  <1>5. \A y \in T : x <= y
    BY <1>4
  <1> QED
    BY <1>5

(* What holds of 0, and of a number when it holds of the one before, holds *)
(* up to n.                                                                *)
LEMMA UpTo ==
  ASSUME NEW n \in Nat, NEW Good \in SUBSET (0 .. n), 0 \in Good,
         \A i \in 1 .. n : i - 1 \in Good => i \in Good
  PROVE  Good = 0 .. n
  <1> DEFINE Bad == (0 .. n) \ Good
  <1>1. ASSUME Bad # {} PROVE FALSE
    <2>0. Bad \subseteq Nat
      OBVIOUS
    <2> HIDE DEF Bad
    <2>1. PICK i \in Bad : \A j \in Bad : i <= j
      BY <1>1, <2>0, LeastOfNat
    <2> USE DEF Bad
    <2>2. i \in 1 .. n /\ i - 1 \in 0 .. n /\ i - 1 \notin Bad
      BY <2>1
    <2> QED
      BY <2>1, <2>2
  <1> QED
    BY <1>1

(* A function on 0 .. n may be defined from one argument to the next.      *)
HasChain(n, S, x, F) ==
  \E f \in [0 .. n -> S] : /\ f[0] = x
                           /\ \A i \in 1 .. n : f[i] = F[<<f[i - 1], i>>]

LEMMA ChainExists ==
  ASSUME NEW n \in Nat, NEW S, NEW x \in S, NEW F \in [S \X (1 .. n) -> S]
  PROVE  HasChain(n, S, x, F)
  <1> DEFINE Chain(m, f) == /\ f \in [0 .. m -> S] /\ f[0] = x
                            /\ \A i \in 1 .. m : f[i] = F[<<f[i - 1], i>>]
             Good == {m \in 0 .. n : \E f : Chain(m, f)}
  <1>1. 0 \in Good
    <2> DEFINE first == [i \in 0 .. 0 |-> x]
    <2>1. first \in [0 .. 0 -> S] /\ first[0] = x
      OBVIOUS
    <2> HIDE DEF first
    <2>2. Chain(0, first)
      BY <2>1
    <2> QED
      BY <2>2
  <1>2. ASSUME NEW m \in 1 .. n, m - 1 \in Good PROVE m \in Good
    <2>1. PICK old : Chain(m - 1, old)
      BY <1>2
    <2> DEFINE last == F[<<old[m - 1], m>>]
               new == [i \in 0 .. m |-> IF i = m THEN last ELSE old[i]]
    <2>2. old[m - 1] \in S
      BY <2>1
    <2>3. last \in S
      BY <2>2
    <2>4. new \in [0 .. m -> S]
      BY <2>1, <2>3
    <2>5. new[m] = last /\ \A i \in 0 .. m - 1 : new[i] = old[i]
      OBVIOUS
    <2> HIDE DEF new
    <2>6. new[0] = x
      BY <2>1, <2>5
    <2>7. ASSUME NEW i \in 1 .. m PROVE new[i] = F[<<new[i - 1], i>>]
      <3>1. CASE i = m
        BY <2>5, <3>1
      <3>2. CASE i # m
        <4>1. i \in 1 .. m - 1 /\ i \in 0 .. m - 1 /\ i - 1 \in 0 .. m - 1
          BY <3>2
        <4> QED
          BY <2>1, <2>5, <4>1
      <3> QED
        BY <3>1, <3>2
    <2>8. Chain(m, new)
      BY <2>4, <2>6, <2>7
    <2> QED
      BY <2>8
  <1> HIDE DEF Chain
  <1>3. Good = 0 .. n
    <2>1. Good \in SUBSET (0 .. n)
      OBVIOUS
    <2> HIDE DEF Good
    <2> QED
      BY <1>1, <1>2, <2>1, UpTo
  <1>4. \E f : Chain(n, f)
    BY <1>3
  <1> QED
    BY <1>4 DEF Chain, HasChain

LEMMA SumsAre ==
  ASSUME NEW s \in Seq(Nat)
  PROVE  /\ Sums(s) \in [0 .. Len(s) -> Nat]
         /\ Sums(s)[0] = 0
         /\ \A i \in 1 .. Len(s) : Sums(s)[i] = Sums(s)[i - 1] + s[i]
         /\ \A i \in 0 .. Len(s) : Sums(s)[i] <= Total(s)
  <1> DEFINE n == Len(s)
             F == [p \in Nat \X (1 .. n) |-> p[1] + s[p[2]]]
             Is(sum) == sum = [i \in 0 .. n |-> IF i = 0 THEN 0 ELSE sum[i - 1] + s[i]]
  <1>1. n \in Nat /\ \A i \in 1 .. n : s[i] \in Nat
    OBVIOUS
  <1> HIDE DEF n
  <1>2. F \in [Nat \X (1 .. n) -> Nat]
        /\ \A a \in Nat : \A i \in 1 .. n : F[<<a, i>>] = a + s[i]
    BY <1>1
  <1> HIDE DEF F
  <1>a. HasChain(n, Nat, 0, F)
    <2>1. n \in Nat /\ 0 \in Nat /\ F \in [Nat \X (1 .. n) -> Nat]
      BY <1>1, <1>2
    <2> QED
      BY <2>1, ChainExists
  <1>3. PICK f \in [0 .. n -> Nat] : /\ f[0] = 0
                                     /\ \A i \in 1 .. n : f[i] = F[<<f[i - 1], i>>]
    BY <1>a DEF HasChain
  <1>b. \A i \in 1 .. n : i - 1 \in 0 .. n
    BY <1>1
  <1>4. \A i \in 1 .. n : f[i - 1] \in Nat /\ f[i] = f[i - 1] + s[i]
    BY <1>2, <1>3, <1>b
  <1>5. Is(f)
    <2>1. \A i \in 0 .. n : f[i] = IF i = 0 THEN 0 ELSE f[i - 1] + s[i]
      BY <1>3, <1>4
    <2> QED
      BY <1>3, <2>1
  <1>6. Sums(s) = CHOOSE sum : Is(sum)
    BY DEF Sums, n
  <1>7. Is(Sums(s))
    BY <1>5, <1>6
  <1> DEFINE g == Sums(s)
  <1>8. g[0] = 0 /\ \A i \in 1 .. n : g[i] = g[i - 1] + s[i]
    BY <1>1, <1>7
  <1>9. DOMAIN g = 0 .. n
    BY <1>7
  <1> HIDE DEF g
  <1>10. {i \in 0 .. n : g[i] \in Nat} = 0 .. n
    <2> DEFINE Good == {i \in 0 .. n : g[i] \in Nat}
    <2>1. 0 \in Good
      BY <1>1, <1>8
    <2>2. ASSUME NEW i \in 1 .. n, i - 1 \in Good PROVE i \in Good
      <3>1. g[i - 1] \in Nat /\ g[i] = g[i - 1] + s[i] /\ s[i] \in Nat
        BY <1>1, <1>8, <2>2
      <3> QED
        BY <3>1
    <2>3. Good \in SUBSET (0 .. n)
      OBVIOUS
    <2> HIDE DEF Good
    <2>4. Good = 0 .. n
      BY <1>1, <2>1, <2>2, <2>3, UpTo
    <2> QED
      BY <2>4 DEF Good
  <1>11. g \in [0 .. n -> Nat]
    <2>1. \A i \in 0 .. n : g[i] \in Nat
      BY <1>10
    <2>2. g = [i \in 0 .. n |-> g[i]]
      BY <1>7, <1>9 DEF g
    <2> QED
      BY <2>1, <2>2
  <1>12. {k \in 0 .. n : g[n - k] <= g[n]} = 0 .. n
    <2> DEFINE Good == {k \in 0 .. n : g[n - k] <= g[n]}
    <2>1. 0 \in Good
      <3>1. n - 0 = n /\ g[n] \in Nat
        BY <1>1, <1>11
      <3> QED
        BY <3>1, <1>1
    <2>2. ASSUME NEW k \in 1 .. n, k - 1 \in Good PROVE k \in Good
      <3>1. n - k \in 0 .. n /\ n - (k - 1) \in 1 .. n /\ n - (k - 1) - 1 = n - k
        BY <1>1
      <3>2. g[n - (k - 1)] = g[n - k] + s[n - (k - 1)]
        BY <1>8, <3>1
      <3>3. g[n - k] \in Nat /\ s[n - (k - 1)] \in Nat /\ g[n] \in Nat
        BY <1>1, <1>11, <3>1
      <3>4. g[n - (k - 1)] <= g[n]
        BY <2>2
      <3> QED
        BY <3>2, <3>3, <3>4
    <2>3. Good \in SUBSET (0 .. n)
      OBVIOUS
    <2> HIDE DEF Good
    <2>4. Good = 0 .. n
      BY <1>1, <2>1, <2>2, <2>3, UpTo
    <2> QED
      BY <2>4 DEF Good
  <1>13. \A i \in 0 .. n : g[i] <= g[n]
    <2> SUFFICES ASSUME NEW i \in 0 .. n PROVE g[i] <= g[n]
      OBVIOUS
    <2>1. n - i \in 0 .. n /\ n - (n - i) = i
      BY <1>1
    <2> QED
      BY <1>12, <2>1
  <1> QED
    BY <1>8, <1>11, <1>13 DEF g, n, Total

-----------------------------------------------------------------------------
(* The allocations. *)

LEMMA FirstFitIs ==
  ASSUME NEW marked, NEW count \in Nat \ {0}, total \in Nat
  PROVE  LET p == FirstFit(marked, count)
             ends == total \div PageSize - count
         IN  /\ p = None \/ p \in 0 .. ends
             /\ p # None => Run(p, count) \cap marked = {}
             /\ \A q \in 0 .. ends :
                  Run(q, count) \cap marked = {} => p # None /\ p <= q
  <1> DEFINE fits == {p \in 0 .. total \div PageSize - count : Run(p, count) \cap marked = {}}
  <1>1. FirstFit(marked, count) = IF fits = {} THEN None
                                  ELSE CHOOSE p \in fits : \A q \in fits : p <= q
    BY DEF FirstFit
  <1>2. CASE fits = {}
    BY <1>1, <1>2
  <1>3. CASE fits # {}
    <2>1. fits \subseteq Nat
      OBVIOUS
    <2> HIDE DEF fits
    <2>2. \E p \in fits : \A q \in fits : p <= q
      BY <1>3, <2>1, LeastOfNat
    <2>3. FirstFit(marked, count) \in fits
          /\ \A q \in fits : FirstFit(marked, count) <= q
      BY <1>1, <1>3, <2>2
    <2>4. FirstFit(marked, count) # None
      BY <2>1, <2>3 DEF None
    <2> QED
      BY <2>3, <2>4 DEF fits
  <1> QED
    BY <1>2, <1>3

LEMMA MarksAre ==
  ASSUME NEW counts \in Seq(Nat \ {0}), total \in Nat, bitmap \subseteq Int
  PROVE  /\ Marks(counts)[0] = bitmap
         /\ \A i \in 1 .. Len(counts) :
              Marks(counts)[i] = Taken(Marks(counts)[i - 1], counts[i])
  <1> DEFINE n == Len(counts)
             S == SUBSET Int
             F == [p \in S \X (1 .. n) |-> Taken(p[1], counts[p[2]])]
             Is(marks) == marks = [i \in 0 .. n |-> IF i = 0 THEN bitmap
                                                   ELSE Taken(marks[i - 1], counts[i])]
  <1>1. n \in Nat /\ \A i \in 1 .. n : counts[i] \in Nat \ {0}
    OBVIOUS
  <1> HIDE DEF n
  <1>2. ASSUME NEW marked \in S, NEW i \in 1 .. n PROVE Taken(marked, counts[i]) \in S
    <2>1. counts[i] \in Nat \ {0}
      BY <1>1
    <2>2. FirstFit(marked, counts[i]) \in Int
      BY <2>1, FirstFitIs DEF None
    <2>3. Run(FirstFit(marked, counts[i]), counts[i]) \subseteq Int
      BY <2>1, <2>2 DEF Run
    <2>4. Taken(marked, counts[i]) \subseteq Int
      BY <2>3 DEF Taken
    <2> QED
      BY <2>4
  <1>3. F \in [S \X (1 .. n) -> S]
        /\ \A marked \in S : \A i \in 1 .. n : F[<<marked, i>>] = Taken(marked, counts[i])
    BY <1>2
  <1> HIDE DEF F
  <1>4. HasChain(n, S, bitmap, F)
    <2>1. bitmap \in S
      OBVIOUS
    <2> HIDE DEF S
    <2> QED
      BY <1>1, <1>3, <2>1, ChainExists
  <1> HIDE DEF S
  <1>5. PICK f \in [0 .. n -> S] : /\ f[0] = bitmap
                                   /\ \A i \in 1 .. n : f[i] = F[<<f[i - 1], i>>]
    BY <1>4 DEF HasChain
  <1>6. \A i \in 1 .. n : i - 1 \in 0 .. n
    BY <1>1
  <1>7. \A i \in 1 .. n : f[i - 1] \in S /\ f[i] = Taken(f[i - 1], counts[i])
    BY <1>3, <1>5, <1>6
  <1>8. Is(f)
    <2>1. \A i \in 0 .. n : f[i] = IF i = 0 THEN bitmap ELSE Taken(f[i - 1], counts[i])
      BY <1>5, <1>7
    <2> QED
      BY <1>5, <2>1
  <1>9. Marks(counts) = CHOOSE marks : Is(marks)
    BY DEF Marks, n
  <1>10. Is(Marks(counts))
    BY <1>8, <1>9
  <1> QED
    BY <1>1, <1>10 DEF n

(* Calls in a row get different pages, none of them marked before.         *)
LEMMA FoundAre ==
  ASSUME NEW counts \in Seq(Nat \ {0}), total \in Nat, bitmap \subseteq Int
  PROVE  LET run(i) == Run(Found(counts)[i], counts[i])
         IN  \A i \in 1 .. Len(counts) :
               /\ \/ Found(counts)[i] = None
                  \/ Found(counts)[i] \in 0 .. total \div PageSize - counts[i]
               /\ Found(counts)[i] # None =>
                    /\ run(i) \cap bitmap = {}
                    /\ \A j \in 1 .. Len(counts) :
                         j # i /\ Found(counts)[j] # None => run(i) \cap run(j) = {}
  <1> DEFINE n == Len(counts)
             found == Found(counts)
             run(i) == Run(found[i], counts[i])
             marks == Marks(counts)
  <1>1. n \in Nat /\ \A i \in 1 .. n : counts[i] \in Nat \ {0}
    OBVIOUS
  <1>2. \A i \in 1 .. n : found[i] = FirstFit(marks[i - 1], counts[i])
    BY DEF Found
  <1>3. /\ marks[0] = bitmap
        /\ \A i \in 1 .. n : marks[i] = Taken(marks[i - 1], counts[i])
    BY MarksAre
  <1> HIDE DEF n, found, marks
  <1>4. ASSUME NEW i \in 1 .. n
        PROVE  /\ found[i] = None \/ found[i] \in 0 .. total \div PageSize - counts[i]
               /\ found[i] # None => run(i) \cap marks[i - 1] = {}
               /\ marks[i] = IF found[i] = None THEN marks[i - 1]
                             ELSE marks[i - 1] \cup run(i)
    <2>1. counts[i] \in Nat \ {0} /\ found[i] = FirstFit(marks[i - 1], counts[i])
      BY <1>1, <1>2
    <2>2. marks[i] = Taken(marks[i - 1], counts[i])
      BY <1>3
    <2> QED
      BY <2>1, <2>2, FirstFitIs DEF Taken
  <1> DEFINE Grown(i) == /\ bitmap \subseteq marks[i]
                         /\ \A j \in 1 .. i : found[j] # None => run(j) \subseteq marks[i]
             Good == {i \in 0 .. n : Grown(i)}
  <1> HIDE DEF run
  <1>5. Good = 0 .. n
    <2>1. 0 \in Good
      BY <1>1, <1>3
    <2>2. ASSUME NEW i \in 1 .. n, i - 1 \in Good PROVE i \in Good
      <3>0. marks[i] = IF found[i] = None THEN marks[i - 1] ELSE marks[i - 1] \cup run(i)
        BY <1>4
      <3>1. marks[i - 1] \subseteq marks[i] /\ (found[i] # None => run(i) \subseteq marks[i])
        BY <3>0
      <3>2. Grown(i - 1)
        BY <2>2
      <3>3. \A j \in 1 .. i : j \in 1 .. i - 1 \/ j = i
        OBVIOUS
      <3>4. Grown(i)
        BY <3>1, <3>2, <3>3
      <3> QED
        BY <3>4
    <2>3. Good \in SUBSET (0 .. n)
      OBVIOUS
    <2> HIDE DEF Good
    <2> QED
      BY <1>1, <2>1, <2>2, <2>3, UpTo
  <1>6. \A i \in 1 .. n : i - 1 \in 0 .. n
    BY <1>1
  <1>7. \A i \in 1 .. n : Grown(i - 1)
    BY <1>5, <1>6
  <1>8. ASSUME NEW i \in 1 .. n, NEW j \in 1 .. i - 1, found[i] # None, found[j] # None
        PROVE  run(i) \cap run(j) = {}
    BY <1>4, <1>7, <1>8
  <1>9. ASSUME NEW i \in 1 .. n, NEW j \in 1 .. n, j # i,
               found[i] # None, found[j] # None
        PROVE  run(i) \cap run(j) = {}
    <2>1. j \in 1 .. i - 1 \/ i \in 1 .. j - 1
      BY <1>9
    <2>2. CASE j \in 1 .. i - 1
      BY <1>8, <1>9, <2>2
    <2>3. CASE i \in 1 .. j - 1
      <3>1. run(j) \cap run(i) = {}
        BY <1>8, <1>9, <2>3
      <3> QED
        BY <3>1
    <2> QED
      BY <2>1, <2>2, <2>3
  <1>10. \A i \in 1 .. n : found[i] # None => run(i) \cap bitmap = {}
    BY <1>4, <1>7
  <1> QED
    BY <1>4, <1>9, <1>10 DEF n, found, run


-----------------------------------------------------------------------------
(* Pages and addresses. *)

LEMMA Times ==
  ASSUME NEW d \in Nat \ {0}, NEW x \in Int, NEW y \in Int, x * d < y * d + d
  PROVE  x <= y
  <1>1. ASSUME x >= y + 1 PROVE FALSE
    <2>1. PICK k \in Nat : x = y + 1 + k
      <3>1. x - y - 1 \in Nat /\ x = y + 1 + (x - y - 1)
        BY <1>1
      <3> QED
        BY <3>1
    <2>2. x * d = y * d + d + k * d /\ k * d >= 0
      BY <2>1
    <2> QED
      BY <2>2
  <1> QED
    BY <1>1

LEMMA DivIs ==
  ASSUME NEW a \in Nat, NEW d \in Nat \ {0}
  PROVE  /\ a \div d \in Nat
         /\ (a \div d) * d <= a
         /\ a < (a \div d) * d + d
         /\ a % d = a - (a \div d) * d
  OBVIOUS

LEMMA DivMonotone ==
  ASSUME NEW a \in Nat, NEW b \in Nat, NEW d \in Nat \ {0}, a <= b
  PROVE  a \div d <= b \div d
  <1> DEFINE x == a \div d
             y == b \div d
  <1>1. x \in Nat /\ y \in Nat /\ x * d <= a /\ b < y * d + d
    BY DivIs
  <1> HIDE DEF x, y
  <1>2. x * d < y * d + d
    <2>1. x * d \in Nat /\ y * d \in Nat
      BY <1>1
    <2> QED
      BY <1>1, <2>1
  <1>3. x <= y
    BY <1>1, <1>2, Times
  <1> QED
    BY <1>3 DEF x, y

LEMMA RegionIn ==
  ASSUME NEW b \in Nat, NEW l \in Nat
  PROVE  Region(b, l) \subseteq Nat
  <1>1. b \div PageSize \in Nat /\ l \div PageSize \in Nat
    BY PageSizeAssumption, DivIs
  <1> QED
    BY <1>1 DEF Region

LEMMA FewPages ==
  ASSUME total \in Nat, total <= Limit
  PROVE  total \div PageSize \in 0 .. MaxPage + 1
  <1>1. PageSize \in Nat \ {0} /\ MaxPage \in Nat
    BY PageSizeAssumption
  <1>2. total \div PageSize \in Nat /\ (total \div PageSize) * PageSize <= total
    BY <1>1, DivIs
  <1>3. (total \div PageSize) * PageSize < (MaxPage + 1) * PageSize + PageSize
    <2>1. Limit = (MaxPage + 1) * PageSize /\ Limit \in Nat
      BY <1>1 DEF Limit
    <2>2. (total \div PageSize) * PageSize \in Nat
      BY <1>1, <1>2
    <2> QED
      BY <1>1, <1>2, <2>1, <2>2
  <1>4. total \div PageSize <= MaxPage + 1
    BY <1>1, <1>2, <1>3, Times
  <1> QED
    BY <1>2, <1>4

LEMMA MapIs ==
  ASSUME NEW m \in MemoryMaps
  PROVE  /\ Len(m) \in Nat
         /\ \A i \in 1 .. Len(m) : m[i].base \in Nat /\ m[i].length \in Nat
         /\ Lengths(m) \in Seq(Nat)
         /\ Len(Lengths(m)) = Len(m)
         /\ \A i \in 1 .. Len(m) : Lengths(m)[i] = m[i].length
         /\ Total(Lengths(m)) <= Limit
  <1>1. /\ m \in Seq([base : Nat, length : Nat, type : Nat])
        /\ Total(Lengths(m)) <= Limit
    BY MapsAssumption
  <1>a. \A R : \A q \in Seq(R) : Len(q) \in Nat /\ \A i \in 1 .. Len(q) : q[i] \in R
    OBVIOUS
  <1>2. Len(m) \in Nat /\ \A i \in 1 .. Len(m) : m[i] \in [base : Nat, length : Nat, type : Nat]
    BY <1>1, <1>a
  <1>3. \A i \in 1 .. Len(m) : m[i].length \in Nat
    BY <1>2
  <1>4. Lengths(m) \in Seq(Nat) /\ Len(Lengths(m)) = Len(m)
    BY <1>2, <1>3 DEF Lengths
  <1>5. \A i \in 1 .. Len(m) : Lengths(m)[i] = m[i].length
    BY DEF Lengths
  <1>6. Total(Lengths(m)) <= Limit
    BY <1>1
  <1>7. \A i \in 1 .. Len(m) : m[i].base \in Nat /\ m[i].length \in Nat
    BY <1>2
  <1> QED
    BY <1>2, <1>4, <1>5, <1>6, <1>7

(* Where the allocations end up, for calls that fit the bitmap.            *)
LEMMA RunIn ==
  ASSUME NEW counts \in Seq(Nat \ {0}), total \in Nat, total <= Limit,
         bitmap \subseteq Int, NEW i \in 1 .. Len(counts), Found(counts)[i] # None
  PROVE  /\ Found(counts)[i] \in Pages
         /\ Found(counts)[i] + counts[i] <= MaxPage + 1
         /\ Run(Found(counts)[i], counts[i]) \subseteq Pages
         /\ Run(Found(counts)[i], counts[i]) \subseteq 0 .. total \div PageSize - 1
  <1>1. Found(counts)[i] \in 0 .. total \div PageSize - counts[i]
    BY FoundAre
  <1>2. total \div PageSize \in 0 .. MaxPage + 1
    BY FewPages
  <1>3. counts[i] \in Nat \ {0} /\ MaxPage \in Nat
    BY PageSizeAssumption
  <1>4. Found(counts)[i] \in Nat /\ Found(counts)[i] + counts[i] <= MaxPage + 1
    BY <1>1, <1>2, <1>3
  <1> DEFINE x == Found(counts)[i]
             D == total \div PageSize
  <1>5. x \in 0 .. D - counts[i] /\ D \in Nat /\ counts[i] \in Nat \ {0}
    BY <1>1, <1>2, <1>3
  <1> HIDE DEF x, D
  <1>6. Run(x, counts[i]) \subseteq 0 .. D - 1
    BY <1>5 DEF Run
  <1> QED
    BY <1>3, <1>4, <1>6 DEF Run, Pages, x, D

LEMMA HandTypes ==
  ASSUME NEW counts \in Seq(Nat \ {0}), total \in Nat, total <= Limit,
         bitmap \subseteq Nat, granted \subseteq 0 .. total \div PageSize - 1,
         refused \in BOOLEAN, Hand(Found(counts), counts)
  PROVE  /\ bitmap' \subseteq Nat /\ granted' \subseteq 0 .. total \div PageSize - 1
         /\ refused' \in BOOLEAN
  <1> DEFINE Below0 == 0 .. total \div PageSize - 1
             new == UNION {Run(Found(counts)[i], counts[i]) :
                             i \in {j \in 1 .. Len(counts) : Found(counts)[j] # None}}
  <1>0. bitmap \subseteq Int
    OBVIOUS
  <1>1. \A i \in 1 .. Len(counts) :
          Found(counts)[i] # None => Run(Found(counts)[i], counts[i]) \subseteq Below0
    BY <1>0, RunIn
  <1>2. Below0 \subseteq Nat /\ granted \subseteq Below0
    OBVIOUS
  <1>3. bitmap' = bitmap \cup new /\ granted' = granted \cup new /\ refused' \in BOOLEAN
    BY DEF Hand
  <1> HIDE DEF Below0
  <1>4. new \subseteq Below0
    BY <1>1
  <1> HIDE DEF new
  <1>5. bitmap' \subseteq Nat /\ granted' \subseteq Below0
    BY <1>2, <1>3, <1>4
  <1> QED
    BY <1>3, <1>5 DEF Below0

LEMMA AddressIn ==
  ASSUME NEW counts \in Seq(Nat \ {0}), total \in Nat, total <= Limit,
         bitmap \subseteq Int, NEW i \in 1 .. Len(counts), counts[i] <= MaxPage + 1
  PROVE  /\ Address(Found(counts)[i]) \in Pages
         /\ Address(Found(counts)[i]) + counts[i] <= MaxPage + 1
  <1>1. MaxPage \in Nat /\ 0 \in Pages
    BY PageSizeAssumption DEF Pages
  <1>2. CASE Found(counts)[i] = None
    <2>1. counts[i] \in Nat
      OBVIOUS
    <2> QED
      BY <1>1, <1>2, <2>1 DEF Address
  <1>3. CASE Found(counts)[i] # None
    BY <1>3, RunIn DEF Address
  <1> QED
    BY <1>2, <1>3

-----------------------------------------------------------------------------
(* The entries of page tables.                                             *)
LEMMA SomeIndices ==
  /\ 0 \in Indices /\ KernelEntry \in Indices /\ HighEntry \in Indices
  /\ KernelEntry # 0 /\ HighEntry # 0 /\ KernelEntry # HighEntry
  <1>1. Entries \in Nat /\ Entries > 3
    BY EntriesAssumption
  <1>2. Entries \div 2 \in Nat /\ Entries \div 2 > 0 /\ Entries \div 2 < Entries - 1
    BY <1>1
  <1> QED
    BY <1>1, <1>2 DEF Indices, KernelEntry, HighEntry

LEMMA KernelPages == {Tables, Kpml3, Kpml3HH} \subseteq Pages
  BY BootAssumption, PageSizeAssumption DEF Kpml3, Kpml3HH, Pages

LEMMA Pml4Types ==
  ASSUME NEW old \in Contents, NEW p \in Pages
  PROVE  Pml4(old, p) \in Contents /\ [old EXCEPT ![0] = Entry(p, FALSE)] \in Contents
  <1> DEFINE T == [to : Pages, large : BOOLEAN, present : BOOLEAN]
  <1>1. Entry(p, FALSE) \in T /\ Entry(Kpml3, FALSE) \in T /\ Entry(Kpml3HH, FALSE) \in T
    BY KernelPages DEF Entry
  <1> HIDE DEF T
  <1>2. \A x, y, z \in T : \A j, k \in Indices :
          \A f \in [Indices -> T] : [f EXCEPT ![0] = x] \in [Indices -> T]
            /\ [f EXCEPT ![0] = x, ![j] = y, ![k] = z] \in [Indices -> T]
    OBVIOUS
  <1> QED
    BY <1>1, <1>2, SomeIndices DEF T, Contents, Pml4

LEMMA DataTypes ==
  ASSUME NEW old \in Contents, NEW base \in Pages, NEW size \in Nat, NEW step \in Nat \ {0},
         base + size * step <= MaxPage + 1
  PROVE  DataEntries(old, base, size, step) \in Contents
  <1>1. MaxPage \in Nat /\ base \in Nat
    BY PageSizeAssumption DEF Pages
  <1>2. ASSUME NEW i \in Indices, i < size
        PROVE  Entry(base + i * step, step > 1) \in [to : Pages, large : BOOLEAN, present : BOOLEAN]
    <2>1. i \in Nat
      BY DEF Indices
    <2>2. PICK k \in Nat : size = i + 1 + k
      <3>1. size - i - 1 \in Nat /\ size = i + 1 + (size - i - 1)
        BY <1>2, <2>1
      <3> QED
        BY <3>1
    <2>3. size * step = i * step + step + k * step /\ k * step \in Nat /\ i * step \in Nat
      BY <2>1, <2>2
    <2>4. base + i * step \in Nat /\ base + i * step <= MaxPage
      BY <1>1, <2>3
    <2>5. base + i * step \in Pages
      BY <1>1, <2>4 DEF Pages
    <2>6. (step > 1) \in BOOLEAN
      OBVIOUS
    <2> QED
      BY <2>5, <2>6 DEF Entry
  <1> QED
    BY <1>2 DEF DataEntries, Contents

-----------------------------------------------------------------------------
(* Type correctness needs to know how much memory has been counted: the    *)
(* page manager gives out what lies below totalDetectedMemory.             *)

Seen == IF next <= Len(map) THEN next ELSE Len(map)
MapInv == map \in MemoryMaps /\ total = Sums(Lengths(map))[Seen]

OrderInv == /\ booted > 0 \/ ready => next > Len(map)
            /\ ready => booted = Len(BootAllocs)

TypeInv == TypeOK /\ MapInv /\ OrderInv

LEMMA TotalIs ==
  ASSUME TypeInv
  PROVE  total \in Nat /\ total <= Limit
  <1>1. map \in MemoryMaps /\ next \in 0 .. Len(map) + 1 /\ total = Sums(Lengths(map))[Seen]
    BY DEF TypeInv, TypeOK, MapInv
  <1>2. Len(map) \in Nat /\ Len(Lengths(map)) = Len(map) /\ Lengths(map) \in Seq(Nat)
        /\ Total(Lengths(map)) <= Limit
    BY <1>1, MapIs
  <1>3. Seen \in 0 .. Len(map)
    BY <1>1, <1>2 DEF Seen
  <1>4. total \in Nat /\ total <= Total(Lengths(map))
    BY <1>1, <1>2, <1>3, SumsAre
  <1>5. Total(Lengths(map)) \in Nat
    BY <1>2, SumsAre DEF Total
  <1>6. Limit \in Nat
    BY PageSizeAssumption DEF Limit
  <1> QED
    BY <1>2, <1>4, <1>5, <1>6

LEMMA InitTypes == Init => TypeInv
  <1> SUFFICES ASSUME Init PROVE TypeInv
    OBVIOUS
  <1>0. map \in MemoryMaps /\ next = 0 /\ total = 0 /\ booted = 0 /\ ready = FALSE
    BY DEF Init
  <1>1. Len(map) \in Nat /\ Len(Lengths(map)) = Len(map) /\ Lengths(map) \in Seq(Nat)
    BY <1>0, MapIs
  <1>2. MapInv
    <2>1. Seen = 0
      BY <1>0, <1>1 DEF Seen
    <2> QED
      BY <1>0, <1>1, <2>1, SumsAre DEF MapInv
  <1>3. OrderInv
    BY <1>0 DEF OrderInv
  <1>4. Len(BootAllocs) \in Nat
    BY BootAssumption
  <1>5. MaxPage \in Nat \ {0} /\ 0 \in Pages /\ MaxPage - 1 \in Pages
    BY PageSizeAssumption DEF Pages
  <1>6. EmptySlot \in [pml4 : Pages, pml3 : Pages, pml2 : Pages, pml1 : Pages, large : BOOLEAN]
    BY <1>5 DEF EmptySlot
  <1>7. frame \in [Pages -> Contents] /\ clean \in BOOLEAN
    BY StaleAssumption DEF Init
  <1>8. MaxFrees \in Nat
    BY SpacesAssumption
  <1>9. bitmap \subseteq Nat /\ granted \subseteq 0 .. total \div PageSize - 1
        /\ beyond \in BOOLEAN
    BY StaleAssumption DEF Init
  <1>10. table \in [Slots -> [pml4 : Pages, pml3 : Pages, pml2 : Pages, pml1 : Pages, large : BOOLEAN]]
         /\ own \in [Slots -> SUBSET Pages]
    BY <1>6 DEF Init
  <1>11. refused \in BOOLEAN /\ freedLarge \in BOOLEAN /\ frees \in 0 .. MaxFrees
    <2>1. refused = FALSE /\ freedLarge = FALSE /\ frees = 0
      BY Zenon DEF Init
    <2>2. 0 \in 0 .. MaxFrees
      BY <1>8
    <2>3. refused \in BOOLEAN /\ freedLarge \in BOOLEAN
      BY <2>1, Zenon
    <2> QED
      BY <2>1, <2>2, <2>3
  <1>12. TypeOK
    <2>1. next \in 0 .. Len(map) + 1 /\ total \in Nat /\ booted \in 0 .. Len(BootAllocs)
      BY <1>0, <1>1, <1>4
    <2>2. ready \in BOOLEAN
      BY <1>0
    <2> QED
      BY <1>7, <1>9, <1>10, <1>11, <2>1, <2>2 DEF TypeOK
  <1> QED
    BY <1>2, <1>3, <1>12 DEF TypeInv

(* A step that only looks at what the maps and the boot have left behind.  *)
LEMMA SameMap ==
  ASSUME TypeInv, UNCHANGED <<map, next, total>>
  PROVE  MapInv' /\ next' \in 0 .. Len(map') + 1 /\ total' \in Nat
  BY DEF TypeInv, TypeOK, MapInv, Seen

LEMMA ReadTypes ==
  ASSUME TypeInv, ReadMapEntry
  PROVE  TypeInv'
  <1> DEFINE e == map[next + 1]
  <1>0. map \in MemoryMaps /\ next \in 0 .. Len(map) + 1 /\ total = Sums(Lengths(map))[Seen]
        /\ next < Len(map) /\ map' = map /\ next' = next + 1 /\ total' = total + e.length
        /\ bitmap \subseteq Nat /\ booted \in 0 .. Len(BootAllocs)
    BY DEF TypeInv, TypeOK, MapInv, ReadMapEntry
  <1>1. Len(map) \in Nat /\ Len(Lengths(map)) = Len(map) /\ Lengths(map) \in Seq(Nat)
    BY <1>0, MapIs
  <1>2. next + 1 \in 1 .. Len(map) /\ next \in 0 .. Len(map) /\ (next + 1) - 1 = next
    BY <1>0, <1>1
  <1>3. e.base \in Nat /\ e.length \in Nat
        /\ Lengths(map)[next + 1] = e.length
    BY <1>0, <1>2, MapIs
  <1>4. Sums(Lengths(map))[next + 1] = Sums(Lengths(map))[next] + e.length
    BY <1>1, <1>2, <1>3, SumsAre
  <1>5. Seen = next /\ Seen' = next + 1
    BY <1>0, <1>1, <1>2 DEF Seen
  <1>6. MapInv'
    BY <1>0, <1>4, <1>5 DEF MapInv
  <1>7. total \in Nat
    BY TotalIs
  <1>8. bitmap' \subseteq Nat
    BY <1>0, <1>3, RegionIn DEF ReadMapEntry
  <1>9. OrderInv'
    <2>1. Len(BootAllocs) \in Nat
      BY BootAssumption
    <2> QED
      BY <1>0, <1>1, <2>1 DEF OrderInv, TypeInv, ReadMapEntry
  <1>10. TypeOK'
    <2>1. next' \in 0 .. Len(map') + 1 /\ total' \in Nat
      BY <1>0, <1>1, <1>2, <1>3, <1>7
    <2>2. total \div PageSize <= total' \div PageSize
          /\ total \div PageSize \in Nat /\ total' \div PageSize \in Nat
      <3>1. PageSize \in Nat \ {0} /\ total <= total'
        BY <1>0, <1>3, <1>7, PageSizeAssumption
      <3> QED
        BY <1>7, <2>1, <3>1, DivMonotone, DivIs
    <2>3. granted' \subseteq 0 .. total' \div PageSize - 1
      <3>1. granted \subseteq 0 .. total \div PageSize - 1 /\ granted' = granted
        BY DEF TypeInv, TypeOK, ReadMapEntry
      <3> QED
        BY <2>2, <3>1
    <2> QED
      BY <1>8, <2>1, <2>3 DEF TypeInv, TypeOK, ReadMapEntry, vmVars
  <1> QED
    BY <1>6, <1>9, <1>10 DEF TypeInv

LEMMA ReserveTypes ==
  ASSUME TypeInv, ReserveLowMemory
  PROVE  TypeInv'
  <1>0. map \in MemoryMaps /\ next = Len(map) /\ map' = map /\ next' = next + 1
        /\ total' = total /\ total = Sums(Lengths(map))[Seen] /\ bitmap \subseteq Nat
    BY DEF TypeInv, TypeOK, MapInv, ReserveLowMemory
  <1>1. Len(map) \in Nat
    BY <1>0, MapIs
  <1>2. Seen' = Seen
    BY <1>0, <1>1 DEF Seen
  <1>3. LowLength \in Nat /\ 0 \in Nat
    BY BootAssumption, PageSizeAssumption DEF Limit
  <1>4. bitmap' \subseteq Nat
    BY <1>0, <1>3, RegionIn DEF ReserveLowMemory
  <1>5. MapInv'
    BY <1>0, <1>2 DEF MapInv
  <1>6. OrderInv'
    BY <1>0, <1>1 DEF OrderInv, TypeInv, ReserveLowMemory
  <1>7. next' \in 0 .. Len(map') + 1
    BY <1>0, <1>1
  <1>8. TypeOK'
    BY <1>0, <1>4, <1>7 DEF TypeInv, TypeOK, ReserveLowMemory, vmVars
  <1> QED
    BY <1>5, <1>6, <1>8 DEF TypeInv

LEMMA BootTypes ==
  ASSUME TypeInv, BootAlloc
  PROVE  TypeInv'
  <1> DEFINE counts == <<BootAllocs[booted + 1]>>
  <1>0. booted \in 0 .. Len(BootAllocs) /\ booted < Len(BootAllocs) /\ next > Len(map)
        /\ booted' = booted + 1 /\ Hand(Found(counts), counts)
        /\ bitmap \subseteq Nat /\ granted \subseteq 0 .. total \div PageSize - 1 /\ refused \in BOOLEAN
        /\ UNCHANGED <<map, next, total, ready>>
    BY DEF TypeInv, TypeOK, BootAlloc
  <1>1. booted' \in 0 .. Len(BootAllocs) /\ BootAllocs[booted + 1] \in Nat \ {0}
    <2>1. BootAllocs \in Seq(Nat \ {0})
      BY BootAssumption
    <2>2. Len(BootAllocs) \in Nat /\ booted + 1 \in 1 .. Len(BootAllocs)
      BY <1>0, <2>1
    <2> QED
      BY <1>0, <2>1, <2>2
  <1>2. counts \in Seq(Nat \ {0})
    BY <1>1
  <1>3. total \in Nat /\ total <= Limit
    BY TotalIs
  <1> HIDE DEF counts
  <1>4. bitmap' \subseteq Nat /\ granted' \subseteq 0 .. total \div PageSize - 1 /\ refused' \in BOOLEAN
    BY <1>0, <1>2, <1>3, HandTypes
  <1>5. OrderInv'
    <2>1. Len(BootAllocs) \in Nat
      BY BootAssumption
    <2>2. ready = FALSE
      BY <1>0, <2>1 DEF OrderInv, TypeInv, TypeOK
    <2> QED
      BY <1>0, <2>2 DEF OrderInv
  <1>6. TypeOK'
    BY <1>0, <1>1, <1>4 DEF TypeInv, TypeOK, BootAlloc, vmVars
  <1> QED
    BY <1>0, <1>5, <1>6, SameMap DEF TypeInv

LEMMA KernelTableTypes ==
  [i \in Indices |-> IF i \in {0, KernelEntry} THEN Entry(Kpml3, FALSE)
                     ELSE IF i = HighEntry THEN Entry(Kpml3HH, FALSE)
                     ELSE NotPresent] \in Contents
  <1> DEFINE T == [to : Pages, large : BOOLEAN, present : BOOLEAN]
  <1>0. 0 \in Pages
    BY PageSizeAssumption DEF Pages
  <1>1. Entry(Kpml3, FALSE) \in T /\ Entry(Kpml3HH, FALSE) \in T /\ NotPresent \in T
    BY <1>0, KernelPages DEF Entry, NotPresent
  <1> QED
    BY <1>1 DEF Contents

LEMMA InitVMMTypes ==
  ASSUME TypeInv, InitVMM
  PROVE  TypeInv'
  <1>0. UNCHANGED <<map, next, total, booted>> /\ ready' = TRUE /\ booted = Len(BootAllocs)
    BY DEF InitVMM
  <1>1. OrderInv'
    <2>1. BootAllocs \in Seq(Nat \ {0}) /\ BootAllocs # <<>>
      BY BootAssumption
    <2>2. Len(BootAllocs) > 0
      BY <2>1
    <2> QED
      BY <1>0, <2>2 DEF OrderInv, TypeInv
  <1>2. frame' \in [Pages -> Contents]
    BY KernelTableTypes DEF InitVMM, TypeInv, TypeOK
  <1>3. TypeOK'
    BY <1>0, <1>2 DEF TypeInv, TypeOK, InitVMM, pmVars
  <1> QED
    BY <1>0, <1>1, <1>3, SameMap DEF TypeInv

(* The five pages of a small space, and the four of a large one.           *)
LEMMA CountsAre ==
  ASSUME NEW size \in Sizes
  PROVE  /\ size \in 1 .. Entries /\ size * Entries \in Nat \ {0}
         /\ size <= size * Entries /\ size * Entries <= MaxPage + 1
         /\ SmallCounts(size) \in Seq(Nat \ {0}) /\ Len(SmallCounts(size)) = 5
         /\ LargeCounts(size) \in Seq(Nat \ {0}) /\ Len(LargeCounts(size)) = 4
         /\ \A i \in 1 .. 4 : SmallCounts(size)[i] = 1
         /\ SmallCounts(size)[5] = size
         /\ \A i \in 1 .. 3 : LargeCounts(size)[i] = 1
         /\ LargeCounts(size)[4] = size * Entries
  <1>1. size \in 1 .. Entries /\ size * Entries <= MaxPage + 1 /\ Entries \in Nat /\ Entries > 3
    BY SizesAssumption, EntriesAssumption
  <1>2. PICK k \in Nat : Entries = 1 + k
    <2>1. Entries - 1 \in Nat /\ Entries = 1 + (Entries - 1)
      BY <1>1
    <2> QED
      BY <2>1
  <1>3. size * Entries = size + size * k /\ size * k \in Nat
    BY <1>1, <1>2
  <1>4. size \in Nat \ {0} /\ size * Entries \in Nat \ {0} /\ size <= size * Entries
    BY <1>1, <1>3
  <1>5. SmallCounts(size) \in Seq(Nat \ {0}) /\ Len(SmallCounts(size)) = 5
    BY <1>4 DEF SmallCounts
  <1>6. LargeCounts(size) \in Seq(Nat \ {0}) /\ Len(LargeCounts(size)) = 4
    BY <1>4 DEF LargeCounts
  <1>7. /\ \A i \in 1 .. 4 : SmallCounts(size)[i] = 1
        /\ SmallCounts(size)[5] = size
        /\ \A i \in 1 .. 3 : LargeCounts(size)[i] = 1
        /\ LargeCounts(size)[4] = size * Entries
    BY DEF SmallCounts, LargeCounts
  <1> QED
    BY <1>1, <1>4, <1>5, <1>6, <1>7

LEMMA AddressesAre ==
  ASSUME TypeInv, NEW size \in Sizes
  PROVE  LET small == Addresses(SmallCounts(size))
             large == Addresses(LargeCounts(size))
         IN  /\ \A i \in 1 .. 5 : small[i] \in Pages
             /\ small[5] + size <= MaxPage + 1
             /\ \A i \in 1 .. 4 : large[i] \in Pages
             /\ large[4] + size * Entries <= MaxPage + 1
  <1>0. MaxPage \in Nat \ {0} /\ bitmap \subseteq Int
    BY PageSizeAssumption DEF TypeInv, TypeOK, Pages
  <1>1. total \in Nat /\ total <= Limit
    BY TotalIs
  <1>2. ASSUME NEW i \in 1 .. 5
        PROVE  /\ Addresses(SmallCounts(size))[i] \in Pages
               /\ i = 5 => Addresses(SmallCounts(size))[5] + size <= MaxPage + 1
    <2>1. SmallCounts(size)[i] <= MaxPage + 1 /\ SmallCounts(size)[5] = size
          /\ SmallCounts(size) \in Seq(Nat \ {0}) /\ Len(SmallCounts(size)) = 5
      <3>1. i \in 1 .. 4 \/ i = 5
        OBVIOUS
      <3> QED
        BY <3>1, <1>0, CountsAre
    <2>2. Addresses(SmallCounts(size))[i] = Address(Found(SmallCounts(size))[i])
      BY <2>1 DEF Addresses
    <2> QED
      BY <2>1, <2>2, <1>0, <1>1, AddressIn
  <1>3. ASSUME NEW i \in 1 .. 4
        PROVE  /\ Addresses(LargeCounts(size))[i] \in Pages
               /\ i = 4 => Addresses(LargeCounts(size))[4] + size * Entries <= MaxPage + 1
    <2>1. LargeCounts(size)[i] <= MaxPage + 1 /\ LargeCounts(size)[4] = size * Entries
          /\ LargeCounts(size) \in Seq(Nat \ {0}) /\ Len(LargeCounts(size)) = 4
      <3>1. i \in 1 .. 3 \/ i = 4
        OBVIOUS
      <3> QED
        BY <3>1, <1>0, CountsAre
    <2>2. Addresses(LargeCounts(size))[i] = Address(Found(LargeCounts(size))[i])
      BY <2>1 DEF Addresses
    <2> QED
      BY <2>1, <2>2, <1>0, <1>1, AddressIn
  <1> QED
    BY <1>2, <1>3

LEMMA TableTypes ==
  ASSUME TypeInv, NEW size \in Sizes
  PROVE  /\ SmallTables(Addresses(SmallCounts(size)), size) \in [Pages -> Contents]
         /\ LargeTables(Addresses(LargeCounts(size)), size) \in [Pages -> Contents]
  <1> DEFINE Frames == [Pages -> Contents]
  <1>0. frame \in Frames
    BY DEF TypeInv, TypeOK
  <1>1. ASSUME NEW f \in Frames, NEW p \in Pages, NEW c \in Contents
        PROVE  [f EXCEPT ![p] = c] \in Frames
    OBVIOUS
  <1>2. ASSUME NEW f \in Frames, NEW p \in Pages PROVE f[p] \in Contents
    OBVIOUS
  <1> HIDE DEF Frames
  <1>3. ASSUME NEW b, b[1] \in Pages, b[2] \in Pages, b[3] \in Pages
        PROVE  UpperTables(b) \in Frames
    <2> DEFINE first == [frame EXCEPT ![b[1]] = Pml4(@, b[2])]
    <2>1. first \in Frames
      BY <1>0, <1>1, <1>2, <1>3, Pml4Types
    <2> HIDE DEF first
    <2>2. [first EXCEPT ![b[2]] = [@ EXCEPT ![0] = Entry(b[3], FALSE)]] \in Frames
      BY <2>1, <1>1, <1>2, <1>3, Pml4Types
    <2> QED
      BY <2>2 DEF UpperTables, first
  <1>4. SmallTables(Addresses(SmallCounts(size)), size) \in Frames
    <2> DEFINE b == Addresses(SmallCounts(size))
               upper == [UpperTables(b) EXCEPT ![b[3]] = [@ EXCEPT ![0] = Entry(b[4], FALSE)]]
    <2>1. b[1] \in Pages /\ b[2] \in Pages /\ b[3] \in Pages /\ b[4] \in Pages
          /\ b[5] \in Pages /\ b[5] + size <= MaxPage + 1
      BY AddressesAre
    <2> HIDE DEF b
    <2>2. UpperTables(b) \in Frames
      BY <1>3, <2>1
    <2>3. upper \in Frames
      BY <1>1, <1>2, <2>1, <2>2, Pml4Types
    <2> HIDE DEF upper
    <2>4. size \in Nat /\ size * 1 = size /\ 1 \in Nat \ {0}
      BY CountsAre
    <2>5. DataEntries(upper[b[4]], b[5], size, 1) \in Contents
      BY <1>2, <2>1, <2>3, <2>4, DataTypes
    <2>6. [upper EXCEPT ![b[4]] = DataEntries(@, b[5], size, 1)] \in Frames
      BY <1>1, <2>1, <2>3, <2>5
    <2> QED
      BY <2>6 DEF SmallTables, upper, b
  <1>5. LargeTables(Addresses(LargeCounts(size)), size) \in Frames
    <2> DEFINE b == Addresses(LargeCounts(size))
    <2>1. b[1] \in Pages /\ b[2] \in Pages /\ b[3] \in Pages /\ b[4] \in Pages
          /\ b[4] + size * Entries <= MaxPage + 1
      BY AddressesAre
    <2> HIDE DEF b
    <2>2. UpperTables(b) \in Frames
      BY <1>3, <2>1
    <2>3. size \in Nat /\ Entries \in Nat \ {0}
      BY CountsAre, EntriesAssumption
    <2>4. DataEntries(UpperTables(b)[b[3]], b[4], size, Entries) \in Contents
      BY <1>2, <2>1, <2>2, <2>3, DataTypes
    <2>5. [UpperTables(b) EXCEPT ![b[3]] = DataEntries(@, b[4], size, Entries)] \in Frames
      BY <1>1, <2>1, <2>2, <2>4
    <2> QED
      BY <2>5 DEF LargeTables, b
  <1> QED
    BY <1>4, <1>5 DEF Frames

LEMMA SmallTypes ==
  ASSUME TypeInv, CreateSmall
  PROVE  TypeInv'
  <1>1. PICK s \in Slots, size \in Sizes :
          LET counts == SmallCounts(size)
              b == Addresses(counts)
          IN  /\ Hand(Found(counts), counts)
              /\ table' = [table EXCEPT ![s] = [pml4 |-> b[1], pml3 |-> b[2],
                             pml2 |-> b[3], pml1 |-> b[4], large |-> FALSE]]
              /\ frame' = SmallTables(b, size)
              /\ own' = [own EXCEPT ![s] = Run(b[5], size)]
    BY DEF CreateSmall
  <1> DEFINE b == Addresses(SmallCounts(size))
             Slot == [pml4 : Pages, pml3 : Pages, pml2 : Pages, pml1 : Pages, large : BOOLEAN]
  <1>2. total \in Nat /\ total <= Limit /\ bitmap \subseteq Nat /\ granted \subseteq 0 .. total \div PageSize - 1
        /\ refused \in BOOLEAN /\ SmallCounts(size) \in Seq(Nat \ {0})
    BY TotalIs, CountsAre DEF TypeInv, TypeOK
  <1>3. bitmap' \subseteq Nat /\ granted' \subseteq 0 .. total \div PageSize - 1 /\ refused' \in BOOLEAN
    BY <1>1, <1>2, HandTypes
  <1>4. b[1] \in Pages /\ b[2] \in Pages /\ b[3] \in Pages /\ b[4] \in Pages
        /\ b[5] \in Pages /\ b[5] + size <= MaxPage + 1
    BY AddressesAre
  <1>5. frame' \in [Pages -> Contents]
    BY <1>1, TableTypes
  <1>6. UNCHANGED <<map, next, total, booted, ready, clean, frees, freedLarge, beyond>>
    BY DEF CreateSmall
  <1> HIDE DEF b
  <1>7. Run(b[5], size) \subseteq Pages
    <2>1. size \in Nat /\ MaxPage \in Nat
      BY CountsAre, PageSizeAssumption
    <2> QED
      BY <1>4, <2>1 DEF Run, Pages
  <1>8. table' \in [Slots -> Slot]
    <2>1. table \in [Slots -> Slot]
      BY DEF TypeInv, TypeOK
    <2>2. [pml4 |-> b[1], pml3 |-> b[2], pml2 |-> b[3], pml1 |-> b[4], large |-> FALSE] \in Slot
      BY <1>4
    <2> QED
      BY <1>1, <2>1, <2>2 DEF b
  <1>9. own' \in [Slots -> SUBSET Pages]
    BY <1>1, <1>7 DEF b, TypeInv, TypeOK
  <1>10. TypeOK'
    BY <1>3, <1>5, <1>6, <1>8, <1>9 DEF TypeInv, TypeOK
  <1>11. OrderInv'
    BY <1>6 DEF TypeInv, OrderInv
  <1> QED
    BY <1>6, <1>10, <1>11, SameMap DEF TypeInv

LEMMA LargeTypes ==
  ASSUME TypeInv, CreateLarge
  PROVE  TypeInv'
  <1>1. PICK s \in Slots, size \in Sizes :
          LET counts == LargeCounts(size)
              b == Addresses(counts)
          IN  /\ Hand(Found(counts), counts)
              /\ table' = [table EXCEPT ![s] = [pml4 |-> b[1], pml3 |-> b[2],
                             pml2 |-> b[3], pml1 |-> table[s].pml1, large |-> TRUE]]
              /\ frame' = LargeTables(b, size)
              /\ own' = [own EXCEPT ![s] = Run(b[4], size * Entries)]
    BY DEF CreateLarge
  <1> DEFINE b == Addresses(LargeCounts(size))
             Slot == [pml4 : Pages, pml3 : Pages, pml2 : Pages, pml1 : Pages, large : BOOLEAN]
  <1>2. total \in Nat /\ total <= Limit /\ bitmap \subseteq Nat /\ granted \subseteq 0 .. total \div PageSize - 1
        /\ refused \in BOOLEAN /\ LargeCounts(size) \in Seq(Nat \ {0})
    BY TotalIs, CountsAre DEF TypeInv, TypeOK
  <1>3. bitmap' \subseteq Nat /\ granted' \subseteq 0 .. total \div PageSize - 1 /\ refused' \in BOOLEAN
    BY <1>1, <1>2, HandTypes
  <1>4. b[1] \in Pages /\ b[2] \in Pages /\ b[3] \in Pages /\ b[4] \in Pages
        /\ b[4] + size * Entries <= MaxPage + 1
    BY AddressesAre
  <1>5. frame' \in [Pages -> Contents]
    BY <1>1, TableTypes
  <1>6. UNCHANGED <<map, next, total, booted, ready, clean, frees, freedLarge, beyond>>
    BY DEF CreateLarge
  <1> HIDE DEF b
  <1>7. Run(b[4], size * Entries) \subseteq Pages
    <2>1. size * Entries \in Nat /\ MaxPage \in Nat
      BY CountsAre, PageSizeAssumption
    <2> QED
      BY <1>4, <2>1 DEF Run, Pages
  <1>8. table' \in [Slots -> Slot]
    <2>1. table \in [Slots -> Slot]
      BY DEF TypeInv, TypeOK
    <2>2. [pml4 |-> b[1], pml3 |-> b[2], pml2 |-> b[3], pml1 |-> table[s].pml1,
           large |-> TRUE] \in Slot
      BY <1>4, <2>1
    <2> QED
      BY <1>1, <2>1, <2>2 DEF b
  <1>9. own' \in [Slots -> SUBSET Pages]
    BY <1>1, <1>7 DEF b, TypeInv, TypeOK
  <1>10. TypeOK'
    BY <1>3, <1>5, <1>6, <1>8, <1>9 DEF TypeInv, TypeOK
  <1>11. OrderInv'
    BY <1>6 DEF TypeInv, OrderInv
  <1> QED
    BY <1>6, <1>10, <1>11, SameMap DEF TypeInv

LEMMA BeyondTypes ==
  ASSUME TypeInv, CreateBeyond
  PROVE  TypeInv'
  <1>1. UNCHANGED <<map, next, total, booted, ready, pmVars, table, frame, clean,
                    frees, freedLarge, own>> /\ beyond' = TRUE
    BY DEF CreateBeyond
  <1>2. TypeOK' /\ OrderInv'
    BY <1>1 DEF TypeInv, TypeOK, OrderInv, pmVars
  <1> QED
    BY <1>1, <1>2, SameMap DEF TypeInv

LEMMA FreeTypes ==
  ASSUME TypeInv, FreeAddressSpace
  PROVE  TypeInv'
  <1> DEFINE Slot == [pml4 : Pages, pml3 : Pages, pml2 : Pages, pml1 : Pages, large : BOOLEAN]
  <1>0. UNCHANGED <<map, next, total, booted, ready, granted, refused, frame, beyond>>
        /\ frees' = frees + 1 /\ frees < MaxFrees /\ clean' = FALSE
    BY DEF FreeAddressSpace
  <1>1. PICK s \in Slots :
          /\ bitmap' = bitmap \ TablePages(s)
          /\ table' = [table EXCEPT ![s] = EmptySlot]
          /\ own' = [own EXCEPT ![s] = {}]
          /\ freedLarge' = (freedLarge \/ table[s].large)
    BY DEF FreeAddressSpace
  <1>2. table \in [Slots -> Slot] /\ own \in [Slots -> SUBSET Pages] /\ frees \in 0 .. MaxFrees
        /\ freedLarge \in BOOLEAN /\ bitmap \subseteq Nat
    BY DEF TypeInv, TypeOK
  <1>3. EmptySlot \in Slot
    <2>1. 0 \in Pages
      BY PageSizeAssumption DEF Pages
    <2> QED
      BY <2>1 DEF EmptySlot
  <1>4. table' \in [Slots -> Slot]
    BY <1>1, <1>2, <1>3
  <1>5. own' \in [Slots -> SUBSET Pages]
    BY <1>1, <1>2
  <1>6. bitmap' \subseteq Nat
    BY <1>1, <1>2
  <1>7. frees' \in 0 .. MaxFrees
    BY <1>0, <1>2, SpacesAssumption
  <1>8. freedLarge' \in BOOLEAN
    <2>1. table[s].large \in BOOLEAN
      BY <1>2
    <2> QED
      BY <1>1, <1>2, <2>1
  <1>9. TypeOK'
    BY <1>0, <1>4, <1>5, <1>6, <1>7, <1>8 DEF TypeInv, TypeOK
  <1>10. OrderInv'
    BY <1>0 DEF TypeInv, OrderInv
  <1> QED
    BY <1>0, <1>9, <1>10, SameMap DEF TypeInv

LEMMA NextTypes == TypeInv /\ [Next]_vars => TypeInv'
  <1> SUFFICES ASSUME TypeInv, [Next]_vars PROVE TypeInv'
    OBVIOUS
  <1>1. CASE Next
    BY <1>1, ReadTypes, ReserveTypes, BootTypes, InitVMMTypes, SmallTypes, LargeTypes,
       BeyondTypes, FreeTypes DEF Next
  <1>2. CASE UNCHANGED vars
    <2>1. MapInv'
      BY <1>2, SameMap DEF vars
    <2> QED
      BY <1>2, <2>1 DEF vars, pmVars, vmVars, TypeInv, TypeOK, OrderInv
  <1> QED
    BY <1>1, <1>2

(* Every variable keeps its type: no page is handed out above the end of   *)
(* the memory that was detected, whatever regions the map reserves,        *)
(* wherever they lie, whatever bits were set before, and whatever calls    *)
(* follow and fail (physicalPageManager.c:16-57,65-69,                     *)
(* virtualPageManager.c:24-75).                                            *)
THEOREM TypeCorrect == Spec => []TypeOK
  <1>1. TypeInv => TypeOK
    BY DEF TypeInv
  <1> QED
    BY InitTypes, NextTypes, <1>1, PTL DEF Spec

-----------------------------------------------------------------------------
(* What allocations that succeed give.                                     *)
NewRun(counts, i) == Run(Addresses(counts)[i], counts[i])
NewPages(counts) == UNION {NewRun(counts, i) : i \in 1 .. Len(counts)}

LEMMA HandIs ==
  ASSUME NEW counts \in Seq(Nat \ {0}), total \in Nat, bitmap \subseteq Int,
         refused \in BOOLEAN, Hand(Found(counts), counts), ~refused'
  PROVE  /\ ~refused
         /\ bitmap' = bitmap \cup NewPages(counts)
         /\ granted' = granted \cup NewPages(counts)
         /\ NewPages(counts) \cap bitmap = {}
         /\ \A p \in NewPages(counts) : p \in Nat /\ p < total \div PageSize
         /\ \A i \in 1 .. Len(counts) :
              /\ Addresses(counts)[i] = Found(counts)[i]
              /\ Addresses(counts)[i] \in 0 .. total \div PageSize - counts[i]
              /\ \A j \in 1 .. Len(counts) :
                   i # j => NewRun(counts, i) \cap NewRun(counts, j) = {}
  <1> DEFINE found == Found(counts)
             n == Len(counts)
             D == total \div PageSize
  <1>0. D \in Nat
    BY PageSizeAssumption, DivIs
  <1>1. ~refused /\ \A i \in 1 .. n : found[i] # None
    BY DEF Hand
  <1>2. \A i \in 1 .. n : Addresses(counts)[i] = found[i]
    BY <1>1 DEF Addresses, Address
  <1>3. \A i \in 1 .. n :
          /\ found[i] \in 0 .. D - counts[i]
          /\ Run(found[i], counts[i]) \cap bitmap = {}
          /\ \A j \in 1 .. n : i # j => Run(found[i], counts[i]) \cap Run(found[j], counts[j]) = {}
    BY <1>1, FoundAre
  <1>4. {j \in 1 .. n : found[j] # None} = 1 .. n
    BY <1>1
  <1>5. /\ bitmap' = bitmap \cup UNION {Run(found[i], counts[i]) :
                        i \in {j \in 1 .. n : found[j] # None}}
        /\ granted' = granted \cup UNION {Run(found[i], counts[i]) :
                        i \in {j \in 1 .. n : found[j] # None}}
    BY DEF Hand
  <1> HIDE DEF found
  <1>6. NewPages(counts) = UNION {Run(found[i], counts[i]) : i \in 1 .. n}
    BY <1>2 DEF NewPages, NewRun
  <1>7. \A p \in NewPages(counts) : p \in Nat /\ p < D
    <2> SUFFICES ASSUME NEW p \in NewPages(counts) PROVE p \in Nat /\ p < D
      OBVIOUS
    <2>1. PICK i \in 1 .. n : p \in Run(found[i], counts[i])
      BY <1>6
    <2>2. found[i] \in 0 .. D - counts[i] /\ counts[i] \in Nat
      BY <1>3
    <2> HIDE DEF D
    <2> QED
      BY <1>0, <2>1, <2>2 DEF Run
  <1>8. NewPages(counts) \cap bitmap = {}
    BY <1>3, <1>6
  <1>9. bitmap' = bitmap \cup NewPages(counts) /\ granted' = granted \cup NewPages(counts)
    BY <1>4, <1>5, <1>6
  <1> QED
    BY <1>1, <1>2, <1>3, <1>7, <1>8, <1>9 DEF found, NewRun

-----------------------------------------------------------------------------
(* The invariant behind isolation, as long as no allocation failed and no  *)
(* space of large pages was freed: what was handed out is not low memory,  *)
(* and every space holds different pages, marked and never page 0.         *)
Low == Region(0, LowLength)

LowInv == /\ next > Len(map) => Low \subseteq bitmap
          /\ granted \cap Low = {}
          /\ next <= Len(map) => granted = {}

SlotOK(s) ==
  /\ table[s].pml4 # 0 /\ table[s].pml3 # 0 /\ table[s].pml2 # 0
  /\ table[s].pml1 = 0 <=> table[s].large
  /\ table[s].pml4 # table[s].pml3 /\ table[s].pml4 # table[s].pml2
  /\ table[s].pml4 # table[s].pml1 /\ table[s].pml3 # table[s].pml2
  /\ table[s].pml3 # table[s].pml1 /\ table[s].pml2 # table[s].pml1
  /\ own[s] \cap TablePages(s) = {}
  /\ Held(s) \subseteq granted \cap bitmap

SpacesOK == /\ \A s \in Slots \ Live : table[s] = EmptySlot
            /\ \A s \in Live : SlotOK(s)
            /\ \A r, s \in Live : r # s => Held(r) \cap Held(s) = {}

SpaceInv == ~refused /\ ~freedLarge => LowInv /\ SpacesOK

LEMMA LowIs == 0 \in Low
  <1>1. LowLength \div PageSize \in Nat /\ LowLength \div PageSize >= 1
    <2>1. PageSize \in Nat \ {0} /\ LowLength \in Nat /\ LowLength >= PageSize
      BY PageSizeAssumption, BootAssumption DEF Limit
    <2>2. LowLength < (LowLength \div PageSize) * PageSize + PageSize
          /\ LowLength \div PageSize \in Nat
      BY <2>1, DivIs
    <2>3. CASE LowLength \div PageSize = 0
      BY <2>1, <2>2, <2>3
    <2> QED
      BY <2>2, <2>3
  <1>2. 0 \div PageSize = 0
    BY PageSizeAssumption
  <1> QED
    BY <1>1, <1>2 DEF Low, Region

(* A space that was just created, in slot s.                               *)
NewSpace(s) ==
  /\ s \notin Live
  /\ table' = [table EXCEPT ![s] = table'[s]]
  /\ own' = [own EXCEPT ![s] = own'[s]]
  /\ own'[s] # {}
  /\ LET t == table'[s]
     IN  /\ t.pml4 # 0 /\ t.pml3 # 0 /\ t.pml2 # 0
         /\ t.pml1 = 0 <=> t.large
         /\ t.pml4 # t.pml3 /\ t.pml4 # t.pml2 /\ t.pml4 # t.pml1
         /\ t.pml3 # t.pml2 /\ t.pml3 # t.pml1 /\ t.pml2 # t.pml1
         /\ own'[s] \cap {t.pml4, t.pml3, t.pml2, t.pml1} = {}
  /\ Held(s)' \cap (bitmap \cup Low) = {}
  /\ bitmap' = bitmap \cup Held(s)'
  /\ granted' = granted \cup Held(s)'

(* What it writes to the pages it takes for its tables.                    *)
NewTables(s) ==
  LET t == table'[s]
  IN  /\ frame'[t.pml4] = Pml4(frame[t.pml4], t.pml3)
      /\ frame'[t.pml3] = [frame[t.pml3] EXCEPT ![0] = Entry(t.pml2, FALSE)]
      /\ t.large =>
           \E base \in Pages, size \in Sizes :
             /\ own'[s] = Run(base, size * Entries)
             /\ frame'[t.pml2] = DataEntries(frame[t.pml2], base, size, Entries)
      /\ ~t.large =>
           /\ frame'[t.pml2] = [frame[t.pml2] EXCEPT ![0] = Entry(t.pml1, FALSE)]
           /\ \E base \in Pages, size \in Sizes :
                /\ own'[s] = Run(base, size)
                /\ frame'[t.pml1] = DataEntries(frame[t.pml1], base, size, 1)
      /\ \A p \in Pages \ Held(s)' : frame'[p] = frame[p]

LEMMA UpperFrames ==
  ASSUME TypeInv, NEW b, b[1] \in Pages, b[2] \in Pages, b[1] # b[2]
  PROVE  /\ UpperTables(b)[b[1]] = Pml4(frame[b[1]], b[2])
         /\ UpperTables(b)[b[2]] = [frame[b[2]] EXCEPT ![0] = Entry(b[3], FALSE)]
         /\ \A p \in Pages \ {b[1], b[2]} : UpperTables(b)[p] = frame[p]
         /\ DOMAIN UpperTables(b) = Pages
  <1>0. DOMAIN frame = Pages
    BY DEF TypeInv, TypeOK
  <1> DEFINE first == [frame EXCEPT ![b[1]] = Pml4(@, b[2])]
             upper == [first EXCEPT ![b[2]] = [@ EXCEPT ![0] = Entry(b[3], FALSE)]]
  <1>1. /\ DOMAIN first = Pages /\ first[b[1]] = Pml4(frame[b[1]], b[2])
        /\ \A p \in Pages \ {b[1]} : first[p] = frame[p]
    BY <1>0
  <1> HIDE DEF first
  <1>2. /\ DOMAIN upper = Pages /\ upper[b[2]] = [first[b[2]] EXCEPT ![0] = Entry(b[3], FALSE)]
        /\ \A p \in Pages \ {b[2]} : upper[p] = first[p]
    BY <1>1
  <1>3. UpperTables(b) = upper
    BY DEF UpperTables, first
  <1> HIDE DEF upper
  <1> QED
    BY <1>1, <1>2, <1>3

SmallWrites(f, b, size) ==
  /\ f[b[1]] = Pml4(frame[b[1]], b[2])
  /\ f[b[2]] = [frame[b[2]] EXCEPT ![0] = Entry(b[3], FALSE)]
  /\ f[b[3]] = [frame[b[3]] EXCEPT ![0] = Entry(b[4], FALSE)]
  /\ f[b[4]] = DataEntries(frame[b[4]], b[5], size, 1)
  /\ \A p \in Pages \ {b[1], b[2], b[3], b[4]} : f[p] = frame[p]

LargeWrites(f, b, size) ==
  /\ f[b[1]] = Pml4(frame[b[1]], b[2])
  /\ f[b[2]] = [frame[b[2]] EXCEPT ![0] = Entry(b[3], FALSE)]
  /\ f[b[3]] = DataEntries(frame[b[3]], b[4], size, Entries)
  /\ \A p \in Pages \ {b[1], b[2], b[3]} : f[p] = frame[p]

LEMMA SmallFrames ==
  ASSUME TypeInv, NEW b, NEW size,
         b[1] \in Pages, b[2] \in Pages, b[3] \in Pages, b[4] \in Pages,
         b[1] # b[2], b[1] # b[3], b[1] # b[4], b[2] # b[3], b[2] # b[4], b[3] # b[4]
  PROVE  SmallWrites(SmallTables(b, size), b, size)
  <1> DEFINE u == UpperTables(b)
             v == [u EXCEPT ![b[3]] = [@ EXCEPT ![0] = Entry(b[4], FALSE)]]
             w == [v EXCEPT ![b[4]] = DataEntries(@, b[5], size, 1)]
  <1>1. /\ u[b[1]] = Pml4(frame[b[1]], b[2])
        /\ u[b[2]] = [frame[b[2]] EXCEPT ![0] = Entry(b[3], FALSE)]
        /\ \A p \in Pages \ {b[1], b[2]} : u[p] = frame[p]
        /\ DOMAIN u = Pages
    BY UpperFrames
  <1> HIDE DEF u
  <1>2. /\ DOMAIN v = Pages /\ v[b[3]] = [u[b[3]] EXCEPT ![0] = Entry(b[4], FALSE)]
        /\ \A p \in Pages \ {b[3]} : v[p] = u[p]
    BY <1>1
  <1> HIDE DEF v
  <1>3. /\ w[b[4]] = DataEntries(v[b[4]], b[5], size, 1)
        /\ \A p \in Pages \ {b[4]} : w[p] = v[p]
    BY <1>2
  <1>4. SmallTables(b, size) = w
    BY DEF SmallTables, u, v
  <1> HIDE DEF w
  <1> QED
    BY <1>1, <1>2, <1>3, <1>4 DEF SmallWrites

LEMMA LargeFrames ==
  ASSUME TypeInv, NEW b, NEW size, b[1] \in Pages, b[2] \in Pages, b[3] \in Pages,
         b[1] # b[2], b[1] # b[3], b[2] # b[3]
  PROVE  LargeWrites(LargeTables(b, size), b, size)
  <1> DEFINE u == UpperTables(b)
             w == [u EXCEPT ![b[3]] = DataEntries(@, b[4], size, Entries)]
  <1>1. /\ u[b[1]] = Pml4(frame[b[1]], b[2])
        /\ u[b[2]] = [frame[b[2]] EXCEPT ![0] = Entry(b[3], FALSE)]
        /\ \A p \in Pages \ {b[1], b[2]} : u[p] = frame[p]
        /\ DOMAIN u = Pages
    BY UpperFrames
  <1> HIDE DEF u
  <1>2. /\ w[b[3]] = DataEntries(u[b[3]], b[4], size, Entries)
        /\ \A p \in Pages \ {b[3]} : w[p] = u[p]
    BY <1>1
  <1>3. LargeTables(b, size) = w
    BY DEF LargeTables, u
  <1> HIDE DEF w
  <1> QED
    BY <1>1, <1>2, <1>3 DEF LargeWrites

LEMMA SmallSpace ==
  ASSUME TypeInv, LowInv, SpacesOK, CreateSmall, ~refused'
  PROVE  \E s \in Slots : NewSpace(s) /\ NewTables(s)
  <1>1. PICK s \in Slots, size \in Sizes :
          /\ IsFirstFree(s)
          /\ LET counts == SmallCounts(size)
                 b == Addresses(counts)
             IN  /\ Hand(Found(counts), counts)
                 /\ table' = [table EXCEPT ![s] = [pml4 |-> b[1], pml3 |-> b[2],
                                pml2 |-> b[3], pml1 |-> b[4], large |-> FALSE]]
                 /\ frame' = SmallTables(b, size)
                 /\ own' = [own EXCEPT ![s] = Run(b[5], size)]
    BY DEF CreateSmall
  <1> DEFINE counts == SmallCounts(size)
             b == Addresses(counts)
  <1>2. /\ size \in Nat \ {0} /\ counts \in Seq(Nat \ {0}) /\ Len(counts) = 5
        /\ counts[1] = 1 /\ counts[2] = 1 /\ counts[3] = 1 /\ counts[4] = 1 /\ counts[5] = size
    BY CountsAre
  <1>3. /\ Hand(Found(counts), counts)
        /\ table' = [table EXCEPT ![s] = [pml4 |-> b[1], pml3 |-> b[2],
                                          pml2 |-> b[3], pml1 |-> b[4], large |-> FALSE]]
        /\ own' = [own EXCEPT ![s] = Run(b[5], size)]
    BY <1>1
  <1> HIDE DEF counts
  <1>4. total \in Nat /\ bitmap \subseteq Int /\ refused \in BOOLEAN
        /\ s \in DOMAIN table /\ s \in DOMAIN own
    BY TotalIs DEF TypeInv, TypeOK, Pages
  <1>5. /\ bitmap' = bitmap \cup NewPages(counts)
        /\ granted' = granted \cup NewPages(counts)
        /\ NewPages(counts) \cap bitmap = {}
        /\ \A i, j \in 1 .. 5 : i # j => NewRun(counts, i) \cap NewRun(counts, j) = {}
        /\ \A i \in 1 .. 5 : b[i] \in Int
    <2>1. /\ bitmap' = bitmap \cup NewPages(counts)
          /\ granted' = granted \cup NewPages(counts)
          /\ NewPages(counts) \cap bitmap = {}
      BY <1>2, <1>3, <1>4, HandIs
    <2>2. \A i \in 1 .. Len(counts) :
            /\ b[i] \in 0 .. total \div PageSize - counts[i]
            /\ \A j \in 1 .. Len(counts) :
                 i # j => NewRun(counts, i) \cap NewRun(counts, j) = {}
      BY <1>2, <1>3, <1>4, HandIs
    <2>3. \A x : \A y \in 0 .. x : y \in Int
      OBVIOUS
    <2> HIDE DEF b
    <2> QED
      BY <1>2, <2>1, <2>2, <2>3
  <1> HIDE DEF b
  <1>6. /\ NewRun(counts, 1) = {b[1]} /\ NewRun(counts, 2) = {b[2]}
        /\ NewRun(counts, 3) = {b[3]} /\ NewRun(counts, 4) = {b[4]}
        /\ NewRun(counts, 5) = Run(b[5], size)
    <2>1. \A p \in Int : Run(p, 1) = {p}
      BY DEF Run
    <2> QED
      BY <1>2, <1>5, <2>1 DEF NewRun, b
  <1>7. NewPages(counts) = {b[1], b[2], b[3], b[4]} \cup Run(b[5], size)
    <2>1. 1 .. 5 = {1, 2, 3, 4, 5}
      OBVIOUS
    <2>2. NewPages(counts) = NewRun(counts, 1) \cup NewRun(counts, 2) \cup NewRun(counts, 3)
                             \cup NewRun(counts, 4) \cup NewRun(counts, 5)
      BY <1>2, <2>1 DEF NewPages
    <2> QED
      BY <1>6, <2>2
  <1>8. ready /\ Low \subseteq bitmap /\ 0 \in bitmap
    BY LowIs DEF CreateSmall, LowInv, TypeInv, OrderInv
  <1>9. /\ b[1] # b[2] /\ b[1] # b[3] /\ b[1] # b[4] /\ b[2] # b[3] /\ b[2] # b[4] /\ b[3] # b[4]
        /\ Run(b[5], size) \cap {b[1], b[2], b[3], b[4]} = {}
    <2>1. \A i, j \in 1 .. 4 : i # j => NewRun(counts, i) \cap NewRun(counts, j) = {}
      BY <1>5
    <2>2. \A i \in 1 .. 4 : NewRun(counts, i) \cap Run(b[5], size) = {}
      BY <1>5, <1>6
    <2>3. 1 \in 1 .. 4 /\ 2 \in 1 .. 4 /\ 3 \in 1 .. 4 /\ 4 \in 1 .. 4
      OBVIOUS
    <2>4. /\ {b[1]} \cap {b[2]} = {} /\ {b[1]} \cap {b[3]} = {} /\ {b[1]} \cap {b[4]} = {}
          /\ {b[2]} \cap {b[3]} = {} /\ {b[2]} \cap {b[4]} = {} /\ {b[3]} \cap {b[4]} = {}
      BY <1>6, <2>1, <2>3
    <2>5. /\ {b[1]} \cap Run(b[5], size) = {} /\ {b[2]} \cap Run(b[5], size) = {}
          /\ {b[3]} \cap Run(b[5], size) = {} /\ {b[4]} \cap Run(b[5], size) = {}
      BY <1>6, <2>2, <2>3
    <2> QED
      BY <2>4, <2>5
  <1>10. /\ b[1] \notin bitmap /\ b[2] \notin bitmap /\ b[3] \notin bitmap /\ b[4] \notin bitmap
         /\ b[1] # 0 /\ b[2] # 0 /\ b[3] # 0 /\ b[4] # 0
    BY <1>5, <1>7, <1>8
  <1>11. /\ table'[s] = [pml4 |-> b[1], pml3 |-> b[2], pml2 |-> b[3], pml1 |-> b[4], large |-> FALSE]
         /\ own'[s] = Run(b[5], size)
    BY <1>3, <1>4 DEF b
  <1>12. Held(s)' = NewPages(counts)
    BY <1>7, <1>10, <1>11 DEF Held, TablePages
  <1>13. b[5] \in Run(b[5], size)
    BY <1>2, <1>5 DEF Run
  <1>14. s \notin Live
    BY <1>1 DEF SpacesOK, SlotOK, IsFirstFree
  <1>15. table' = [table EXCEPT ![s] = table'[s]] /\ own' = [own EXCEPT ![s] = own'[s]]
    BY <1>3, <1>11 DEF b
  <1> HIDE DEF NewRun
  <1>16. NewSpace(s)
    BY <1>5, <1>8, <1>9, <1>10, <1>11, <1>12, <1>13, <1>14, <1>15 DEF NewSpace
  <1>17. b[1] \in Pages /\ b[2] \in Pages /\ b[3] \in Pages /\ b[4] \in Pages /\ b[5] \in Pages
    BY AddressesAre DEF b, counts
  <1>18. frame' = SmallTables(b, size)
    BY <1>1 DEF b, counts
  <1>19. /\ frame'[b[1]] = Pml4(frame[b[1]], b[2])
         /\ frame'[b[2]] = [frame[b[2]] EXCEPT ![0] = Entry(b[3], FALSE)]
         /\ frame'[b[3]] = [frame[b[3]] EXCEPT ![0] = Entry(b[4], FALSE)]
         /\ frame'[b[4]] = DataEntries(frame[b[4]], b[5], size, 1)
         /\ \A p \in Pages \ {b[1], b[2], b[3], b[4]} : frame'[p] = frame[p]
    <2>1. /\ b[1] # b[2] /\ b[1] # b[3] /\ b[1] # b[4]
          /\ b[2] # b[3] /\ b[2] # b[4] /\ b[3] # b[4]
      BY <1>9
    <2>2. SmallWrites(SmallTables(b, size), b, size)
      BY <1>17, <2>1, SmallFrames
    <2>3. SmallWrites(frame', b, size)
      BY <1>18, <2>2
    <2> QED
      BY <2>3 DEF SmallWrites
  <1>20. \A p \in Pages \ Held(s)' : frame'[p] = frame[p]
    BY <1>7, <1>12, <1>19
  <1>21. NewTables(s)
    BY <1>11, <1>17, <1>19, <1>20 DEF NewTables
  <1> QED
    BY <1>16, <1>21

LEMMA LargeSpace ==
  ASSUME TypeInv, LowInv, SpacesOK, CreateLarge, ~refused'
  PROVE  \E s \in Slots : NewSpace(s) /\ NewTables(s)
  <1>1. PICK s \in Slots, size \in Sizes :
          /\ IsFirstFree(s)
          /\ LET counts == LargeCounts(size)
                 b == Addresses(counts)
             IN  /\ Hand(Found(counts), counts)
                 /\ table' = [table EXCEPT ![s] = [pml4 |-> b[1], pml3 |-> b[2],
                                pml2 |-> b[3], pml1 |-> table[s].pml1, large |-> TRUE]]
                 /\ frame' = LargeTables(b, size)
                 /\ own' = [own EXCEPT ![s] = Run(b[4], size * Entries)]
    BY DEF CreateLarge
  <1> DEFINE counts == LargeCounts(size)
             b == Addresses(counts)
             many == size * Entries
  <1>2. /\ many \in Nat \ {0} /\ counts \in Seq(Nat \ {0}) /\ Len(counts) = 4
        /\ counts[1] = 1 /\ counts[2] = 1 /\ counts[3] = 1 /\ counts[4] = many
    BY CountsAre
  <1>3. /\ Hand(Found(counts), counts)
        /\ table' = [table EXCEPT ![s] = [pml4 |-> b[1], pml3 |-> b[2],
                                pml2 |-> b[3], pml1 |-> table[s].pml1, large |-> TRUE]]
        /\ own' = [own EXCEPT ![s] = Run(b[4], many)]
    BY <1>1
  <1> HIDE DEF counts, many
  <1>4. total \in Nat /\ bitmap \subseteq Int /\ refused \in BOOLEAN
        /\ s \in DOMAIN table /\ s \in DOMAIN own
    BY TotalIs DEF TypeInv, TypeOK, Pages
  <1>5. /\ bitmap' = bitmap \cup NewPages(counts)
        /\ granted' = granted \cup NewPages(counts)
        /\ NewPages(counts) \cap bitmap = {}
        /\ \A i, j \in 1 .. 4 : i # j => NewRun(counts, i) \cap NewRun(counts, j) = {}
        /\ \A i \in 1 .. 4 : b[i] \in Int
    <2>1. /\ bitmap' = bitmap \cup NewPages(counts)
          /\ granted' = granted \cup NewPages(counts)
          /\ NewPages(counts) \cap bitmap = {}
      BY <1>2, <1>3, <1>4, HandIs
    <2>2. \A i \in 1 .. Len(counts) :
            /\ b[i] \in 0 .. total \div PageSize - counts[i]
            /\ \A j \in 1 .. Len(counts) :
                 i # j => NewRun(counts, i) \cap NewRun(counts, j) = {}
      BY <1>2, <1>3, <1>4, HandIs
    <2>3. \A x : \A y \in 0 .. x : y \in Int
      OBVIOUS
    <2> HIDE DEF b
    <2> QED
      BY <1>2, <2>1, <2>2, <2>3
  <1> HIDE DEF b
  <1>6. /\ NewRun(counts, 1) = {b[1]} /\ NewRun(counts, 2) = {b[2]}
        /\ NewRun(counts, 3) = {b[3]} /\ NewRun(counts, 4) = Run(b[4], many)
    <2>1. \A p \in Int : Run(p, 1) = {p}
      BY DEF Run
    <2> QED
      BY <1>2, <1>5, <2>1 DEF NewRun, b
  <1>7. NewPages(counts) = {b[1], b[2], b[3]} \cup Run(b[4], many)
    <2>1. 1 .. 4 = {1, 2, 3, 4}
      OBVIOUS
    <2>2. NewPages(counts) = NewRun(counts, 1) \cup NewRun(counts, 2) \cup NewRun(counts, 3)
                             \cup NewRun(counts, 4)
      BY <1>2, <2>1 DEF NewPages
    <2> QED
      BY <1>6, <2>2
  <1>8. ready /\ Low \subseteq bitmap /\ 0 \in bitmap
    BY LowIs DEF CreateLarge, LowInv, TypeInv, OrderInv
  <1>9. /\ b[1] # b[2] /\ b[1] # b[3] /\ b[2] # b[3]
        /\ Run(b[4], many) \cap {b[1], b[2], b[3]} = {}
    <2>1. \A i, j \in 1 .. 3 : i # j => NewRun(counts, i) \cap NewRun(counts, j) = {}
      BY <1>5
    <2>2. \A i \in 1 .. 3 : NewRun(counts, i) \cap Run(b[4], many) = {}
      BY <1>5, <1>6
    <2>3. 1 \in 1 .. 3 /\ 2 \in 1 .. 3 /\ 3 \in 1 .. 3
      OBVIOUS
    <2>4. {b[1]} \cap {b[2]} = {} /\ {b[1]} \cap {b[3]} = {} /\ {b[2]} \cap {b[3]} = {}
      BY <1>6, <2>1, <2>3
    <2>5. /\ {b[1]} \cap Run(b[4], many) = {} /\ {b[2]} \cap Run(b[4], many) = {}
          /\ {b[3]} \cap Run(b[4], many) = {}
      BY <1>6, <2>2, <2>3
    <2> QED
      BY <2>4, <2>5
  <1>10. /\ b[1] \notin bitmap /\ b[2] \notin bitmap /\ b[3] \notin bitmap
         /\ b[1] # 0 /\ b[2] # 0 /\ b[3] # 0 /\ 0 \notin Run(b[4], many)
    BY <1>5, <1>7, <1>8
  <1>14. s \notin Live
    BY <1>1 DEF SpacesOK, SlotOK, IsFirstFree
  <1>a. table[s].pml1 = 0
    BY <1>14 DEF SpacesOK, EmptySlot
  <1>11. /\ table'[s] = [pml4 |-> b[1], pml3 |-> b[2], pml2 |-> b[3], pml1 |-> 0, large |-> TRUE]
         /\ own'[s] = Run(b[4], many)
    BY <1>3, <1>4, <1>a DEF b
  <1>12. Held(s)' = NewPages(counts)
    BY <1>7, <1>10, <1>11 DEF Held, TablePages
  <1>13. b[4] \in Run(b[4], many)
    BY <1>2, <1>5 DEF Run
  <1>15. table' = [table EXCEPT ![s] = table'[s]] /\ own' = [own EXCEPT ![s] = own'[s]]
    BY <1>3, <1>11 DEF b
  <1>16. NewSpace(s)
    BY <1>5, <1>8, <1>9, <1>10, <1>11, <1>12, <1>13, <1>14, <1>15 DEF NewSpace
  <1>17. b[1] \in Pages /\ b[2] \in Pages /\ b[3] \in Pages /\ b[4] \in Pages
    BY AddressesAre DEF b, counts
  <1>18. frame' = LargeTables(b, size)
    BY <1>1 DEF b, counts
  <1>19. /\ frame'[b[1]] = Pml4(frame[b[1]], b[2])
         /\ frame'[b[2]] = [frame[b[2]] EXCEPT ![0] = Entry(b[3], FALSE)]
         /\ frame'[b[3]] = DataEntries(frame[b[3]], b[4], size, Entries)
         /\ \A p \in Pages \ {b[1], b[2], b[3]} : frame'[p] = frame[p]
    <2>1. b[1] # b[2] /\ b[1] # b[3] /\ b[2] # b[3]
      BY <1>9
    <2>2. LargeWrites(LargeTables(b, size), b, size)
      BY <1>17, <2>1, LargeFrames
    <2>3. LargeWrites(frame', b, size)
      BY <1>18, <2>2
    <2> QED
      BY <2>3 DEF LargeWrites
  <1>20. \A p \in Pages \ Held(s)' : frame'[p] = frame[p]
    BY <1>7, <1>12, <1>19
  <1>21. NewTables(s)
    BY <1>11, <1>17, <1>19, <1>20 DEF NewTables, many
  <1> QED
    BY <1>16, <1>21

LEMMA NewSpaceOK ==
  ASSUME TypeInv, LowInv, SpacesOK, NEW s \in Slots, NewSpace(s),
         UNCHANGED <<next, map>>, next > Len(map)
  PROVE  LowInv' /\ SpacesOK'
  <1>0. DOMAIN table = Slots /\ DOMAIN own = Slots
    BY DEF TypeInv, TypeOK
  <1>1. bitmap \subseteq bitmap' /\ granted \subseteq granted'
    BY DEF NewSpace
  <1>2. LowInv'
    <2>1. Low' = Low
      BY DEF Low
    <2>2. Low \subseteq bitmap'
      BY <1>1 DEF LowInv
    <2>3. granted' \cap Low = {}
      BY DEF LowInv, NewSpace
    <2>4. next' > Len(map')
      OBVIOUS
    <2>5. ~ (next' <= Len(map'))
      <3>1. next \in Int /\ Len(map) \in Int
        BY MapIs DEF TypeInv, TypeOK, MapInv
      <3> QED
        BY <3>1
    <2> QED
      BY <2>1, <2>2, <2>3, <2>5 DEF LowInv
  <1>3. \A r \in Slots : r # s => table'[r] = table[r] /\ own'[r] = own[r]
    BY <1>0 DEF NewSpace
  <1>4. Live' = Live \cup {s}
    BY <1>3 DEF NewSpace, Live
  <1>5. \A r \in Slots : r # s => Held(r)' = Held(r) /\ TablePages(r)' = TablePages(r)
    BY <1>3 DEF Held, TablePages
  <1>6. ASSUME NEW r \in Live PROVE SlotOK(r)' /\ Held(r)' \cap Held(s)' = {}
    <2>1. SlotOK(r) /\ r # s /\ r \in Slots
      BY <1>6 DEF SpacesOK, NewSpace, Live
    <2>2. Held(r)' = Held(r) /\ TablePages(r)' = TablePages(r)
          /\ table'[r] = table[r] /\ own'[r] = own[r]
      BY <1>3, <1>5, <2>1
    <2>3. Held(r) \subseteq granted' \cap bitmap'
      BY <1>1, <2>1 DEF SlotOK
    <2>4. SlotOK(r)'
      BY <2>1, <2>2, <2>3 DEF SlotOK
    <2>5. Held(s)' \cap bitmap = {} /\ Held(r) \subseteq bitmap
      BY <2>1 DEF NewSpace, SlotOK
    <2> QED
      BY <2>2, <2>4, <2>5
  <1>7. SlotOK(s)'
    <2>1. Held(s)' \subseteq granted' \cap bitmap'
      BY DEF NewSpace
    <2> QED
      BY <2>1 DEF NewSpace, SlotOK, TablePages
  <1>8. \A r \in Slots \ Live' : table'[r] = EmptySlot
    BY <1>3, <1>4 DEF SpacesOK
  <1>9. ASSUME NEW q \in Live', NEW r \in Live', q # r PROVE Held(q)' \cap Held(r)' = {}
    <2>1. CASE q = s
      BY <1>4, <1>6, <1>9, <2>1
    <2>2. CASE r = s
      BY <1>4, <1>6, <1>9, <2>2
    <2>3. CASE q # s /\ r # s
      <3>1. q \in Live /\ r \in Live /\ q \in Slots /\ r \in Slots
        BY <1>4, <2>3 DEF Live
      <3> QED
        BY <1>5, <1>9, <2>3, <3>1 DEF SpacesOK
    <2> QED
      BY <2>1, <2>2, <2>3
  <1>10. \A r \in Live' : SlotOK(r)'
    BY <1>4, <1>6, <1>7
  <1> QED
    BY <1>2, <1>8, <1>9, <1>10 DEF SpacesOK

LEMMA FreedOK ==
  ASSUME TypeInv, LowInv, SpacesOK, FreeAddressSpace, ~freedLarge'
  PROVE  LowInv' /\ SpacesOK'
  <1>0. PICK s \in Slots :
          /\ own[s] # {}
          /\ bitmap' = bitmap \ TablePages(s)
          /\ table' = [table EXCEPT ![s] = EmptySlot]
          /\ own' = [own EXCEPT ![s] = {}]
          /\ freedLarge' = (freedLarge \/ table[s].large)
    BY DEF FreeAddressSpace
  <1>1. UNCHANGED <<next, map, granted>>
    BY DEF FreeAddressSpace
  <1>2. s \in Live /\ SlotOK(s) /\ ~table[s].large
    BY <1>0 DEF Live, SpacesOK
  <1>3. 0 \notin TablePages(s)
    BY <1>2 DEF SlotOK, TablePages
  <1>4. TablePages(s) \subseteq Held(s) /\ Held(s) \subseteq granted
    BY <1>2, <1>3 DEF Held, SlotOK
  <1>5. LowInv'
    BY <1>0, <1>1, <1>4 DEF LowInv, Low
  <1>6. /\ \A r \in Slots : r # s => table'[r] = table[r] /\ own'[r] = own[r]
        /\ table'[s] = EmptySlot /\ own'[s] = {}
    BY <1>0 DEF TypeInv, TypeOK
  <1>7. Live' = Live \ {s}
    BY <1>6 DEF Live
  <1>8. \A r \in Slots : r # s => Held(r)' = Held(r) /\ TablePages(r)' = TablePages(r)
    BY <1>6 DEF Held, TablePages
  <1>9. ASSUME NEW r \in Live' PROVE SlotOK(r)'
    <2>1. r \in Live /\ r # s /\ SlotOK(r) /\ r \in Slots
      BY <1>7 DEF SpacesOK, Live
    <2>2. Held(r)' = Held(r) /\ TablePages(r)' = TablePages(r)
          /\ table'[r] = table[r] /\ own'[r] = own[r]
      BY <1>6, <1>8, <2>1
    <2>3. Held(r) \cap TablePages(s) = {}
      BY <1>2, <1>4, <2>1 DEF SpacesOK
    <2>4. Held(r) \subseteq granted' \cap bitmap'
      BY <1>0, <1>1, <2>1, <2>3 DEF SlotOK
    <2> QED
      BY <2>1, <2>2, <2>4 DEF SlotOK
  <1>10. \A r \in Slots \ Live' : table'[r] = EmptySlot
    BY <1>6, <1>7 DEF SpacesOK
  <1>11. \A q, r \in Live' : q # r => Held(q)' \cap Held(r)' = {}
    <2> SUFFICES ASSUME NEW q \in Live', NEW r \in Live', q # r
                 PROVE  Held(q)' \cap Held(r)' = {}
      OBVIOUS
    <2>1. q \in Live /\ r \in Live /\ q # s /\ r # s /\ q \in Slots /\ r \in Slots
      BY <1>7 DEF Live
    <2> QED
      BY <1>8, <2>1 DEF SpacesOK
  <1> QED
    BY <1>5, <1>9, <1>10, <1>11 DEF SpacesOK

LEMMA CreateSteps ==
  ASSUME CreateSmall \/ CreateLarge
  PROVE  UNCHANGED <<map, next, total, booted, ready, clean, frees, freedLarge>> /\ ready
  BY DEF CreateSmall, CreateLarge

(* The pages of the boot. *)
LEMMA BootPages ==
  ASSUME TypeInv, BootAlloc, ~refused'
  PROVE  LET counts == <<BootAllocs[booted + 1]>>
         IN  /\ booted \in 0 .. Len(BootAllocs) - 1 /\ BootAllocs[booted + 1] \in Nat \ {0}
             /\ ~refused /\ bitmap' = bitmap \cup NewPages(counts)
             /\ granted' = granted \cup NewPages(counts)
             /\ NewPages(counts) \cap bitmap = {}
             /\ \A p \in NewPages(counts) : p \in Nat /\ p < total \div PageSize
  <1> DEFINE counts == <<BootAllocs[booted + 1]>>
  <1>1. BootAllocs \in Seq(Nat \ {0}) /\ booted \in 0 .. Len(BootAllocs)
        /\ booted < Len(BootAllocs)
    BY BootAssumption DEF TypeInv, TypeOK, BootAlloc
  <1>2. booted \in 0 .. Len(BootAllocs) - 1 /\ booted + 1 \in 1 .. Len(BootAllocs)
    BY <1>1
  <1>3. BootAllocs[booted + 1] \in Nat \ {0}
    BY <1>1, <1>2
  <1>4. counts \in Seq(Nat \ {0})
    BY <1>3
  <1>5. Hand(Found(counts), counts)
    BY DEF BootAlloc
  <1>6. total \in Nat /\ bitmap \subseteq Int /\ refused \in BOOLEAN
    BY TotalIs DEF TypeInv, TypeOK, Pages
  <1> HIDE DEF counts
  <1>7. /\ ~refused /\ bitmap' = bitmap \cup NewPages(counts)
        /\ granted' = granted \cup NewPages(counts)
        /\ NewPages(counts) \cap bitmap = {}
        /\ \A p \in NewPages(counts) : p \in Nat /\ p < total \div PageSize
    BY <1>4, <1>5, <1>6, HandIs
  <1> QED
    BY <1>2, <1>3, <1>7 DEF counts

(* Steps that leave the spaces alone. *)
LEMMA SameSpaces ==
  ASSUME SpacesOK, UNCHANGED <<table, own>>, bitmap \subseteq bitmap',
         granted \subseteq granted'
  PROVE  SpacesOK'
  BY DEF SpacesOK, SlotOK, Held, TablePages, Live

LEMMA NextSpaces == TypeInv /\ SpaceInv /\ [Next]_vars => SpaceInv'
  <1> SUFFICES ASSUME TypeInv, SpaceInv, [Next]_vars, ~refused', ~freedLarge'
               PROVE  LowInv' /\ SpacesOK'
    BY DEF SpaceInv
  <1>0. next \in Int /\ Len(map) \in Int
    BY MapIs DEF TypeInv, TypeOK, MapInv
  <1>a. Low' = Low
    BY DEF Low
  <1>1. CASE ReadMapEntry
    <2>1. LowInv /\ SpacesOK
      BY <1>1 DEF SpaceInv, ReadMapEntry, vmVars
    <2>2. SpacesOK'
      BY <1>1, <2>1, SameSpaces DEF ReadMapEntry, vmVars
    <2>3. next' = next + 1 /\ map' = map /\ next < Len(map) /\ granted' = granted
      BY <1>1 DEF ReadMapEntry
    <2>4. granted = {} /\ ~(next' > Len(map'))
      BY <1>0, <2>1, <2>3 DEF LowInv
    <2>5. LowInv'
      BY <2>3, <2>4 DEF LowInv
    <2> QED
      BY <2>2, <2>5
  <1>2. CASE ReserveLowMemory
    <2>1. LowInv /\ SpacesOK
      BY <1>2 DEF SpaceInv, ReserveLowMemory, vmVars
    <2>2. SpacesOK'
      BY <1>2, <2>1, SameSpaces DEF ReserveLowMemory, vmVars
    <2>3. next' = next + 1 /\ map' = map /\ next = Len(map) /\ granted' = granted
          /\ Low \subseteq bitmap'
      BY <1>2 DEF ReserveLowMemory, Low
    <2>4. granted = {}
      BY <1>0, <2>1, <2>3 DEF LowInv
    <2>5. LowInv'
      BY <1>a, <2>3, <2>4 DEF LowInv
    <2> QED
      BY <2>2, <2>5
  <1>3. CASE BootAlloc
    <2> DEFINE new == NewPages(<<BootAllocs[booted + 1]>>)
    <2>1. UNCHANGED <<map, next, total, ready, vmVars>> /\ next > Len(map)
      BY <1>3 DEF BootAlloc
    <2>2. ~refused /\ bitmap' = bitmap \cup new /\ granted' = granted \cup new
          /\ new \cap bitmap = {}
      BY <1>3, BootPages
    <2> HIDE DEF new
    <2>3. LowInv /\ SpacesOK
      BY <2>1, <2>2 DEF SpaceInv, vmVars
    <2>4. SpacesOK'
      BY <2>1, <2>2, <2>3, SameSpaces DEF vmVars
    <2>5. Low \subseteq bitmap /\ granted \cap Low = {}
      BY <2>1, <2>3 DEF LowInv
    <2>6. Low \subseteq bitmap' /\ granted' \cap Low = {}
      BY <2>2, <2>5
    <2>7. LowInv'
      BY <1>0, <1>a, <2>1, <2>6 DEF LowInv
    <2> QED
      BY <2>4, <2>7
  <1>4. CASE InitVMM
    <2>1. UNCHANGED <<map, next, pmVars, table, own, freedLarge>>
      BY <1>4 DEF InitVMM
    <2>2. LowInv /\ SpacesOK
      BY <2>1 DEF SpaceInv, pmVars
    <2>3. LowInv'
      BY <1>a, <2>1, <2>2 DEF LowInv, pmVars
    <2> QED
      BY <2>1, <2>2, <2>3, SameSpaces DEF pmVars
  <1>5. CASE CreateSmall \/ CreateLarge
    <2>1. UNCHANGED <<map, next, freedLarge>> /\ ready
      BY <1>5, CreateSteps
    <2>2. ~refused
      <3>1. CASE CreateSmall
        BY <3>1 DEF CreateSmall, Hand
      <3>2. CASE CreateLarge
        BY <3>2 DEF CreateLarge, Hand
      <3> QED
        BY <1>5, <3>1, <3>2
    <2>3. LowInv /\ SpacesOK
      BY <2>1, <2>2 DEF SpaceInv
    <2>4. \E s \in Slots : NewSpace(s)
      BY <1>5, <2>3, SmallSpace, LargeSpace
    <2>5. next > Len(map)
      BY <2>1 DEF TypeInv, OrderInv
    <2> QED
      BY <2>1, <2>3, <2>4, <2>5, NewSpaceOK
  <1>6. CASE FreeAddressSpace
    <2>1. ~refused /\ ~freedLarge
      BY <1>6 DEF FreeAddressSpace
    <2>2. LowInv /\ SpacesOK
      BY <2>1 DEF SpaceInv
    <2> QED
      BY <1>6, <2>2, FreedOK
  <1>7. CASE CreateBeyond \/ UNCHANGED vars
    <2>0. UNCHANGED <<map, next, pmVars, table, own, freedLarge>>
      BY <1>7 DEF CreateBeyond, vars, vmVars
    <2>1. LowInv /\ SpacesOK
      BY <2>0 DEF SpaceInv, pmVars
    <2>2. LowInv'
      BY <2>0, <1>a, <2>1 DEF LowInv, pmVars
    <2> QED
      BY <2>0, <2>1, <2>2, SameSpaces DEF pmVars
  <1> QED
    BY <1>1, <1>2, <1>3, <1>4, <1>5, <1>6, <1>7 DEF Next

LEMMA InitSpaces == Init => SpaceInv
  <1> SUFFICES ASSUME Init PROVE LowInv /\ SpacesOK
    BY DEF SpaceInv
  <1>0. granted = {} /\ next = 0 /\ table = [s \in Slots |-> EmptySlot]
        /\ own = [s \in Slots |-> {}] /\ map \in MemoryMaps
    BY DEF Init
  <1>1. Len(map) \in Nat
    BY <1>0, MapIs
  <1>2. LowInv
    BY <1>0, <1>1 DEF LowInv
  <1>3. Live = {}
    BY <1>0 DEF Live
  <1> QED
    BY <1>0, <1>2, <1>3 DEF SpacesOK

(* The pages of live spaces are apart, marked, and no slot is given away   *)
(* while a space uses it, after any calls that create and free spaces      *)
(* (virtualPageManager.c:29-52,68-75,126).                                 *)
THEOREM SpacesApart == Spec => []SpacesDisjoint
  <1>1. SpaceInv => SpacesDisjoint
    <2> SUFFICES ASSUME SpaceInv, ~refused, ~freedLarge
                 PROVE  /\ \A s \in Live : /\ table[s].pml4 # 0 /\ Held(s) \subseteq bitmap
                                           /\ Cardinality(TablePages(s)) = 4
                                           /\ own[s] \cap TablePages(s) = {}
                        /\ \A r, s \in Live : r # s => Held(r) \cap Held(s) = {}
      BY DEF SpacesDisjoint
    <2>1. SpacesOK
      BY DEF SpaceInv
    <2>2. ASSUME NEW s \in Live PROVE Cardinality(TablePages(s)) = 4
      <3> DEFINE a == table[s].pml4
                 b == table[s].pml3
                 c == table[s].pml2
                 d == table[s].pml1
      <3>1. a # b /\ a # c /\ a # d /\ b # c /\ b # d /\ c # d
        BY <2>1 DEF SpacesOK, SlotOK
      <3>2. TablePages(s) = {a, b, c, d}
        BY DEF TablePages
      <3> HIDE DEF a, b, c, d
      <3>3. IsFiniteSet({d}) /\ Cardinality({d}) = 1
        BY FS_Singleton
      <3>4. IsFiniteSet({d} \cup {c}) /\ Cardinality({d} \cup {c}) = 2
        BY <3>1, <3>3, FS_AddElement
      <3>5. IsFiniteSet(({d} \cup {c}) \cup {b}) /\ Cardinality(({d} \cup {c}) \cup {b}) = 3
        BY <3>1, <3>4, FS_AddElement
      <3>6. Cardinality((({d} \cup {c}) \cup {b}) \cup {a}) = 4
        BY <3>1, <3>5, FS_AddElement
      <3>7. {a, b, c, d} = (({d} \cup {c}) \cup {b}) \cup {a}
        OBVIOUS
      <3> QED
        BY <3>2, <3>6, <3>7
    <2> QED
      BY <2>1, <2>2 DEF SpacesOK, SlotOK
  <1> QED
    BY InitTypes, NextTypes, InitSpaces, NextSpaces, <1>1, PTL DEF Spec

-----------------------------------------------------------------------------
(* What is handed out is usable: below the memory counted so far, a page   *)
(* that is not usable is marked.  Counted is where the entries seen end.   *)
Counted == IF Seen = 0 THEN 0 ELSE map[Seen].base + map[Seen].length

RamOK == /\ total = Counted
         /\ \A p \in Pages : p < total \div PageSize => p \in Usable \cup bitmap
         /\ granted \subseteq Usable

RamInv == Regular /\ ~refused /\ ~freedLarge => RamOK

LEMMA TimesLe ==
  ASSUME NEW d \in Nat, NEW x \in Nat, NEW y \in Nat, x <= y
  PROVE  x * d <= y * d
  <1>1. PICK k \in Nat : y = x + k
    <2>1. y - x \in Nat /\ y = x + (y - x)
      OBVIOUS
    <2> QED
      BY <2>1
  <1>2. y * d = x * d + k * d /\ k * d \in Nat /\ x * d \in Nat
    BY <1>1
  <1> QED
    BY <1>2

LEMMA DivOfProduct ==
  ASSUME NEW d \in Nat \ {0}, NEW x \in Nat
  PROVE  (x * d) \div d = x
  <1> DEFINE q == (x * d) \div d
  <1>0. x * d \in Nat
    OBVIOUS
  <1>1. q \in Nat /\ q * d <= x * d /\ x * d < q * d + d
    BY <1>0, DivIs
  <1> HIDE DEF q
  <1>2. q * d \in Nat
    BY <1>1
  <1>3. x <= q
    BY <1>1, Times
  <1>4. q * d < x * d + d
    BY <1>0, <1>1, <1>2
  <1>5. q <= x
    BY <1>1, <1>4, Times
  <1> QED
    BY <1>1, <1>3, <1>5 DEF q

LEMMA Whole ==
  ASSUME NEW d \in Nat \ {0}, NEW a \in Nat, a % d = 0
  PROVE  a \div d \in Nat /\ a = (a \div d) * d
  <1>1. a \div d \in Nat /\ a % d = a - (a \div d) * d
    BY DivIs
  <1>2. (a \div d) * d \in Nat
    BY <1>1
  <1> QED
    BY <1>1, <1>2

LEMMA ReadRam ==
  ASSUME TypeInv, Regular, RamOK, ReadMapEntry
  PROVE  RamOK'
  <1> DEFINE e == map[next + 1]
             a == e.base \div PageSize
             l == e.length \div PageSize
  <1>0. /\ map \in MemoryMaps /\ next \in 0 .. Len(map) + 1 /\ next < Len(map) /\ map' = map
        /\ next' = next + 1 /\ total' = total + e.length /\ granted' = granted
        /\ bitmap' = IF e.type = 1 THEN bitmap ELSE bitmap \cup Region(e.base, e.length)
    BY DEF ReadMapEntry, TypeInv, TypeOK, MapInv
  <1>1. Len(map) \in Nat /\ next \in Nat /\ next + 1 \in 1 .. Len(map)
    BY <1>0, MapIs
  <1>2. e.base \in Nat /\ e.length \in Nat
    BY <1>0, <1>1, MapIs
  <1>3. /\ e.base % PageSize = 0 /\ e.length % PageSize = 0
        /\ e.base = (IF next + 1 = 1 THEN 0 ELSE map[next + 1 - 1].base + map[next + 1 - 1].length)
    BY <1>1 DEF Regular
  <1>4. Seen = next /\ Seen' = next + 1
    BY <1>0, <1>1 DEF Seen
  <1>5. total = e.base
    <2>1. next + 1 - 1 = next /\ (next + 1 = 1 <=> next = 0)
      BY <1>1
    <2> QED
      BY <1>3, <1>4, <2>1 DEF RamOK, Counted
  <1>6. total' = Counted'
    <2>1. next + 1 # 0
      BY <1>1
    <2>2. Counted' = e.base + e.length
      BY <1>0, <1>4, <2>1 DEF Counted
    <2> QED
      BY <1>0, <1>5, <2>2
  <1>7. PageSize \in Nat \ {0} /\ MaxPage \in Nat
    BY PageSizeAssumption
  <1>8. a \in Nat /\ l \in Nat /\ e.base = a * PageSize /\ e.length = l * PageSize
    BY <1>2, <1>3, <1>7, Whole
  <1>9. total \div PageSize = a
    BY <1>5
  <1> HIDE DEF a, l
  <1>10. total' \div PageSize = a + l
    <2>1. total' = (a + l) * PageSize
      BY <1>0, <1>5, <1>7, <1>8
    <2> QED
      BY <1>7, <1>8, <2>1, DivOfProduct
  <1>11. Usable' = Usable
    BY <1>0 DEF Usable
  <1>12. ASSUME NEW p \in Pages, p < total' \div PageSize PROVE p \in Usable \cup bitmap'
    <2>0. p \in Nat
      BY DEF Pages
    <2>1. CASE p < a
      BY <1>0, <1>9, <2>1 DEF RamOK
    <2>2. CASE a <= p /\ e.type = 1
      <3>1. a * PageSize <= p * PageSize
        BY <1>7, <1>8, <2>0, <2>2, TimesLe
      <3>2. (p + 1) * PageSize <= (a + l) * PageSize
        <4>1. p + 1 <= a + l /\ p + 1 \in Nat /\ a + l \in Nat
          BY <1>8, <1>10, <1>12, <2>0
        <4> QED
          BY <1>7, <4>1, TimesLe
      <3>3. (a + l) * PageSize = a * PageSize + l * PageSize
        BY <1>7, <1>8
      <3>4. e.base <= p * PageSize /\ (p + 1) * PageSize <= e.base + e.length
        BY <1>8, <3>1, <3>2, <3>3
      <3>5. p \in Usable
        BY <1>1, <2>2, <3>4 DEF Usable
      <3> QED
        BY <3>5
    <2>3. CASE a <= p /\ e.type # 1
      <3>1. p \in a .. a + l - 1
        BY <1>8, <1>10, <1>12, <2>0, <2>3
      <3>2. p \in Region(e.base, e.length)
        BY <3>1 DEF Region, a, l
      <3> QED
        BY <1>0, <2>3, <3>2
    <2> QED
      BY <1>8, <2>0, <2>1, <2>2, <2>3
  <1>13. granted' \subseteq Usable
    BY <1>0 DEF RamOK
  <1>14. \A p \in Pages : p < total' \div PageSize => p \in Usable' \cup bitmap'
    BY <1>11, <1>12
  <1> QED
    BY <1>6, <1>11, <1>13, <1>14 DEF RamOK

(* New pages were not marked and below the end: they are usable.           *)
LEMMA NewRam ==
  ASSUME TypeInv, RamOK, UNCHANGED <<map, next, total>>, NEW new,
         new \cap bitmap = {}, \A p \in new : p \in Nat /\ p < total \div PageSize,
         bitmap' = bitmap \cup new, granted' = granted \cup new
  PROVE  RamOK'
  <1>1. new \subseteq Pages
    <2>1. total \div PageSize \in 0 .. MaxPage + 1 /\ MaxPage \in Nat
      BY TotalIs, FewPages, PageSizeAssumption
    <2>2. \A p \in Nat : p < total \div PageSize => p \in Pages
      BY <2>1 DEF Pages
    <2> QED
      BY <2>2
  <1>2. new \subseteq Usable
    BY <1>1 DEF RamOK
  <1>3. Usable' = Usable /\ Counted' = Counted
    BY DEF Usable, Counted, Seen
  <1> QED
    BY <1>2, <1>3 DEF RamOK

LEMMA CreatePages ==
  ASSUME TypeInv, CreateSmall \/ CreateLarge, ~refused'
  PROVE  /\ ~refused
         /\ \E new : /\ new \cap bitmap = {}
                     /\ \A p \in new : p \in Nat /\ p < total \div PageSize
                     /\ bitmap' = bitmap \cup new /\ granted' = granted \cup new
  <1>1. \E counts \in Seq(Nat \ {0}) : Hand(Found(counts), counts)
    <2>1. CASE CreateSmall
      BY <2>1, CountsAre DEF CreateSmall
    <2>2. CASE CreateLarge
      BY <2>2, CountsAre DEF CreateLarge
    <2> QED
      BY <2>1, <2>2
  <1>2. PICK counts \in Seq(Nat \ {0}) : Hand(Found(counts), counts)
    BY <1>1
  <1>3. total \in Nat /\ bitmap \subseteq Int /\ refused \in BOOLEAN
    BY TotalIs DEF TypeInv, TypeOK, Pages
  <1>4. /\ ~refused /\ NewPages(counts) \cap bitmap = {}
        /\ \A p \in NewPages(counts) : p \in Nat /\ p < total \div PageSize
        /\ bitmap' = bitmap \cup NewPages(counts) /\ granted' = granted \cup NewPages(counts)
    BY <1>2, <1>3, HandIs
  <1> QED
    BY <1>4

LEMMA NextRam == TypeInv /\ SpaceInv /\ RamInv /\ [Next]_vars => RamInv'
  <1> SUFFICES ASSUME TypeInv, SpaceInv, RamInv, [Next]_vars,
                      Regular', ~refused', ~freedLarge'
               PROVE  RamOK'
    BY DEF RamInv
  <1>0. map' = map /\ Regular
    <2>1. map' = map
      BY DEF Next, ReadMapEntry, ReserveLowMemory, BootAlloc, InitVMM, CreateSmall,
         CreateLarge, CreateBeyond, FreeAddressSpace, vars
    <2> QED
      BY <2>1 DEF Regular
  <1>a. Usable' = Usable
    BY <1>0 DEF Usable
  <1>1. CASE ReadMapEntry
    <2>1. RamOK
      BY <1>0, <1>1 DEF RamInv, ReadMapEntry, vmVars
    <2> QED
      BY <1>0, <1>1, <2>1, ReadRam
  <1>2. CASE ReserveLowMemory
    <2>1. RamOK
      BY <1>0, <1>2 DEF RamInv, ReserveLowMemory, vmVars
    <2>2. Counted' = Counted
      <3>1. Len(map) \in Nat /\ next \in Nat
        BY MapIs DEF TypeInv, TypeOK, MapInv
      <3>2. Seen' = Seen
        BY <1>2, <3>1 DEF Seen, ReserveLowMemory
      <3> QED
        BY <1>0, <3>2 DEF Counted
    <2>3. total' = total /\ granted' = granted /\ bitmap \subseteq bitmap'
      BY <1>2 DEF ReserveLowMemory
    <2> QED
      BY <1>a, <2>1, <2>2, <2>3 DEF RamOK
  <1>3. CASE BootAlloc
    <2> DEFINE new == NewPages(<<BootAllocs[booted + 1]>>)
    <2>1. UNCHANGED <<map, next, total>> /\ freedLarge' = freedLarge
      BY <1>3 DEF BootAlloc, vmVars
    <2>2. /\ ~refused /\ bitmap' = bitmap \cup new /\ granted' = granted \cup new
          /\ new \cap bitmap = {}
          /\ \A p \in new : p \in Nat /\ p < total \div PageSize
      BY <1>3, BootPages
    <2> HIDE DEF new
    <2>3. RamOK
      BY <1>0, <2>1, <2>2 DEF RamInv
    <2> QED
      BY <2>1, <2>2, <2>3, NewRam
  <1>4. CASE InitVMM
    <2>1. UNCHANGED <<map, next, total, bitmap, granted, refused, freedLarge>>
      BY <1>4 DEF InitVMM, pmVars
    <2>2. RamOK
      BY <1>0, <2>1 DEF RamInv
    <2> QED
      BY <1>a, <2>1, <2>2 DEF RamOK, Counted, Seen
  <1>5. CASE CreateSmall \/ CreateLarge
    <2>1. UNCHANGED <<map, next, total>> /\ freedLarge' = freedLarge
      BY <1>5, CreateSteps
    <2>2. /\ ~refused
          /\ \E new : /\ new \cap bitmap = {}
                      /\ \A p \in new : p \in Nat /\ p < total \div PageSize
                      /\ bitmap' = bitmap \cup new /\ granted' = granted \cup new
      BY <1>5, CreatePages
    <2>3. RamOK
      BY <1>0, <2>1, <2>2 DEF RamInv
    <2> QED
      BY <2>1, <2>2, <2>3, NewRam
  <1>6. CASE FreeAddressSpace
    <2>1. PICK s \in Slots : /\ own[s] # {} /\ bitmap' = bitmap \ TablePages(s)
                             /\ freedLarge' = (freedLarge \/ table[s].large)
      BY <1>6 DEF FreeAddressSpace
    <2>2. UNCHANGED <<map, next, total, granted, refused>>
      BY <1>6 DEF FreeAddressSpace
    <2>3. RamOK /\ SpacesOK /\ ~table[s].large
      BY <1>0, <2>1, <2>2 DEF RamInv, SpaceInv
    <2>4. s \in Live /\ SlotOK(s)
      BY <2>1, <2>3 DEF Live, SpacesOK
    <2>5. TablePages(s) \subseteq granted
      BY <2>3, <2>4 DEF SlotOK, Held, TablePages
    <2>6. TablePages(s) \subseteq Usable
      BY <2>3, <2>5 DEF RamOK
    <2> QED
      BY <1>a, <2>1, <2>2, <2>3, <2>6 DEF RamOK, Counted, Seen
  <1>7. CASE CreateBeyond \/ UNCHANGED vars
    <2>1. UNCHANGED <<map, next, total, bitmap, granted, refused, freedLarge>>
      BY <1>7 DEF CreateBeyond, vars, pmVars, vmVars
    <2>2. RamOK
      BY <1>0, <2>1 DEF RamInv
    <2> QED
      BY <1>a, <2>1, <2>2 DEF RamOK, Counted, Seen
  <1> QED
    BY <1>1, <1>2, <1>3, <1>4, <1>5, <1>6, <1>7 DEF Next

LEMMA InitRam == Init => RamInv
  <1> SUFFICES ASSUME Init PROVE RamOK
    BY DEF RamInv
  <1>0. granted = {} /\ next = 0 /\ total = 0 /\ map \in MemoryMaps
    BY DEF Init
  <1>1. Len(map) \in Nat
    BY <1>0, MapIs
  <1>2. Seen = 0 /\ Counted = 0
    BY <1>0, <1>1 DEF Seen, Counted
  <1>3. 0 \div PageSize = 0
    BY PageSizeAssumption
  <1>4. \A p \in Pages : ~(p < 0)
    BY DEF Pages
  <1> QED
    BY <1>0, <1>2, <1>3, <1>4 DEF RamOK

(* Only memory the firmware calls usable is handed out, and none of the    *)
(* low memory (physicalPageManager.c:16-32,65-69).                         *)
THEOREM RamOnly == Spec => []HandsOutRam
  <1>1. RamInv /\ SpaceInv => HandsOutRam
    BY DEF RamInv, SpaceInv, RamOK, LowInv, HandsOutRam, Low
  <1> QED
    BY InitTypes, NextTypes, InitSpaces, NextSpaces, InitRam, NextRam, <1>1, PTL DEF Spec

-----------------------------------------------------------------------------
(* The boot fills the memory above the low memory from below: that is why  *)
(* nobody is given the fixed pages in which initVMM builds its tables.     *)
Filled == LowPages + Sums(BootAllocs)[booted]

FillOK == /\ next > Len(map) => 0 .. Filled - 1 \subseteq bitmap
          /\ \A p \in bitmap : ~(Filled <= p /\ p < BootEnd)

FillInv == BootInPlace /\ ~refused /\ ~ready => FillOK

LEMMA BootNumbers ==
  ASSUME TypeInv
  PROVE  /\ LowPages \in Nat \ {0} /\ BootEnd \in Nat /\ Filled \in Nat
         /\ Filled <= BootEnd
         /\ booted = 0 => Filled = LowPages
         /\ booted = Len(BootAllocs) => Filled = BootEnd
         /\ booted < Len(BootAllocs) =>
              /\ Filled + BootAllocs[booted + 1] = LowPages + Sums(BootAllocs)[booted + 1]
              /\ Filled + BootAllocs[booted + 1] <= BootEnd
              /\ BootAllocs[booted + 1] \in Nat \ {0}
  <1> DEFINE n == Len(BootAllocs)
             g == Sums(BootAllocs)
  <1>1. BootAllocs \in Seq(Nat \ {0}) /\ booted \in 0 .. n
    BY BootAssumption DEF TypeInv, TypeOK
  <1>2. BootAllocs \in Seq(Nat) /\ n \in Nat
    BY <1>1
  <1>3. /\ g \in [0 .. n -> Nat] /\ g[0] = 0
        /\ \A i \in 1 .. n : g[i] = g[i - 1] + BootAllocs[i]
        /\ \A i \in 0 .. n : g[i] <= Total(BootAllocs)
    BY <1>2, SumsAre
  <1>4. Total(BootAllocs) = g[n]
    BY DEF Total
  <1>5. LowPages \in Nat \ {0}
    <2>1. PageSize \in Nat \ {0} /\ LowLength \in Nat /\ LowLength >= PageSize
      BY PageSizeAssumption, BootAssumption DEF Limit
    <2>2. LowLength < (LowLength \div PageSize) * PageSize + PageSize
          /\ LowLength \div PageSize \in Nat
      BY <2>1, DivIs
    <2>3. CASE LowLength \div PageSize = 0
      BY <2>1, <2>2, <2>3
    <2> QED
      BY <2>2, <2>3 DEF LowPages
  <1>6. BootEnd = LowPages + g[n] /\ Filled = LowPages + g[booted]
    BY <1>4 DEF BootEnd, Filled
  <1>a. \A i \in 1 .. n : BootAllocs[i] \in Nat \ {0}
    BY <1>1
  <1>b. booted < n => booted + 1 \in 1 .. n /\ booted + 1 \in 0 .. n /\ booted + 1 - 1 = booted
    BY <1>1, <1>2
  <1>c. n \in 0 .. n /\ booted \in 0 .. n
    BY <1>1, <1>2
  <1> HIDE DEF g, n
  <1>7. g[n] \in Nat /\ g[booted] \in Nat /\ g[booted] <= g[n]
    BY <1>3, <1>4, <1>c
  <1>8. ASSUME booted < n
        PROVE  /\ BootAllocs[booted + 1] \in Nat \ {0}
               /\ g[booted + 1] = g[booted] + BootAllocs[booted + 1]
               /\ g[booted + 1] <= g[n]
    <2>1. booted + 1 \in 1 .. n /\ booted + 1 \in 0 .. n /\ booted + 1 - 1 = booted
      BY <1>8, <1>b
    <2>a. \A i \in 1 .. n : g[i] = g[i - 1] + BootAllocs[i]
      BY <1>3
    <2>2. g[booted + 1] = g[booted + 1 - 1] + BootAllocs[booted + 1]
      BY <1>1, <1>2, <1>c, <2>1, <2>a
    <2>3. g[booted + 1] <= g[n]
      BY <1>3, <1>4, <2>1
    <2> QED
      BY <1>a, <2>1, <2>2, <2>3
  <1>9. LowPages \in Nat /\ BootEnd \in Nat /\ Filled \in Nat /\ Filled <= BootEnd
    BY <1>5, <1>6, <1>7
  <1>10. booted = 0 => Filled = LowPages
    BY <1>3, <1>5, <1>6
  <1>11. booted = n => Filled = BootEnd
    BY <1>6
  <1>12. ASSUME booted < n
         PROVE  /\ Filled + BootAllocs[booted + 1] = LowPages + g[booted + 1]
                /\ Filled + BootAllocs[booted + 1] <= BootEnd
    BY <1>5, <1>6, <1>7, <1>8, <1>12
  <1> QED
    BY <1>5, <1>8, <1>9, <1>10, <1>11, <1>12 DEF g, n

(* A region covers pages that it contains. *)
LEMMA RegionBounds ==
  ASSUME NEW b \in Nat, NEW l \in Nat, NEW p \in Region(b, l), NEW x \in Nat
  PROVE  /\ p \in Nat
         /\ b + l <= x * PageSize => p < x
         /\ x * PageSize <= b => x <= p
  <1> DEFINE y == b \div PageSize
             z == l \div PageSize
  <1>1. PageSize \in Nat \ {0}
    BY PageSizeAssumption
  <1>2. /\ y \in Nat /\ z \in Nat /\ y * PageSize <= b /\ z * PageSize <= l
        /\ b < y * PageSize + PageSize
    BY <1>1, DivIs
  <1>3. p \in y .. y + z - 1
    BY DEF Region
  <1> HIDE DEF y, z
  <1>4. p \in Nat /\ y <= p /\ p < y + z
    BY <1>2, <1>3
  <1>5. ASSUME b + l <= x * PageSize PROVE p < x
    <2>1. (y + z) * PageSize = y * PageSize + z * PageSize
      BY <1>1, <1>2
    <2>2. y * PageSize \in Nat /\ z * PageSize \in Nat /\ x * PageSize \in Nat
      BY <1>1, <1>2
    <2>3. (y + z) * PageSize < x * PageSize + PageSize
      BY <1>1, <1>2, <1>5, <2>1, <2>2
    <2>4. y + z <= x
      BY <1>1, <1>2, <2>3, Times
    <2> QED
      BY <1>2, <1>4, <2>4
  <1>6. ASSUME x * PageSize <= b PROVE x <= p
    <2>1. y * PageSize \in Nat /\ x * PageSize \in Nat
      BY <1>1, <1>2
    <2>2. x * PageSize < y * PageSize + PageSize
      BY <1>1, <1>2, <1>6, <2>1
    <2>3. x <= y
      BY <1>1, <1>2, <2>2, Times
    <2> QED
      BY <1>2, <1>4, <2>3
  <1> QED
    BY <1>4, <1>5, <1>6

LEMMA LowRun == Low = 0 .. LowPages - 1
  <1>1. 0 \div PageSize = 0
    BY PageSizeAssumption
  <1>2. LowLength \div PageSize \in Int
    BY PageSizeAssumption, BootAssumption, DivIs DEF Limit
  <1> QED
    BY <1>1, <1>2 DEF Low, Region, LowPages

LEMMA BootFill ==
  ASSUME TypeInv, FillOK, BootAlloc, ~refused'
  PROVE  FillOK'
  <1> DEFINE c == BootAllocs[booted + 1]
             counts == <<c>>
             p == Addresses(counts)[1]
  <1>0. /\ booted < Len(BootAllocs) /\ next > Len(map) /\ Hand(Found(counts), counts)
        /\ booted' = booted + 1 /\ next' = next /\ map' = map
    BY DEF BootAlloc
  <1>1. /\ Filled \in Nat /\ Filled + c = LowPages + Sums(BootAllocs)[booted + 1]
        /\ Filled + c <= BootEnd /\ c \in Nat \ {0} /\ BootEnd \in Nat
    BY <1>0, BootNumbers
  <1> HIDE DEF c
  <1>2. counts \in Seq(Nat \ {0}) /\ Len(counts) = 1 /\ counts[1] = c
    BY <1>1
  <1>3. total \in Nat /\ bitmap \subseteq Int /\ refused \in BOOLEAN
    BY TotalIs DEF TypeInv, TypeOK, Pages
  <1> HIDE DEF counts
  <1>4. /\ bitmap' = bitmap \cup NewPages(counts)
        /\ NewPages(counts) \cap bitmap = {}
        /\ p = Found(counts)[1] /\ p \in 0 .. total \div PageSize - c
    <2>1. 1 \in 1 .. Len(counts)
      BY <1>2
    <2> QED
      BY <1>0, <1>2, <1>3, <2>1, HandIs
  <1>5. p = FirstFit(bitmap, c)
    <2>1. 1 \in 1 .. Len(counts) /\ 1 - 1 = 0
      BY <1>2
    <2>2. Found(counts)[1] = FirstFit(Marks(counts)[0], counts[1])
      BY <2>1 DEF Found
    <2>3. Marks(counts)[0] = bitmap
      BY <1>2, <1>3, MarksAre
    <2> QED
      BY <1>2, <1>4, <2>2, <2>3
  <1>6. NewPages(counts) = Run(p, c)
    <2>1. 1 .. 1 = {1}
      OBVIOUS
    <2> QED
      BY <1>2, <2>1 DEF NewPages, NewRun
  <1> DEFINE D == total \div PageSize
  <1>7. D \in Nat
    BY <1>3, PageSizeAssumption, DivIs
  <1> HIDE DEF p, D
  <1>8. p \in Nat /\ p <= D - c
    BY <1>1, <1>4, <1>7 DEF D
  <1>9. p \notin bitmap
    <2>1. p \in Run(p, c)
      BY <1>1, <1>8 DEF Run
    <2> QED
      BY <1>4, <1>6, <2>1
  <1>10. 0 .. Filled - 1 \subseteq bitmap /\ \A q \in bitmap : ~(Filled <= q /\ q < BootEnd)
    BY <1>0 DEF FillOK
  <1>11. Filled <= p
    BY <1>1, <1>8, <1>9, <1>10
  <1>12. Filled \in 0 .. D - c
    BY <1>1, <1>7, <1>8, <1>11
  <1>13. Run(Filled, c) \cap bitmap = {}
    <2> SUFFICES ASSUME NEW q \in Run(Filled, c) PROVE q \notin bitmap
      OBVIOUS
    <2>1. q \in Int /\ Filled <= q /\ q < Filled + c
      BY <1>1 DEF Run
    <2> QED
      BY <1>1, <1>10, <2>1
  <1>14. p <= Filled
    BY <1>1, <1>3, <1>5, <1>12, <1>13, FirstFitIs DEF D
  <1>15. p = Filled
    BY <1>1, <1>8, <1>11, <1>14
  <1>16. Filled' = Filled + c
    BY <1>0, <1>1 DEF Filled
  <1>17. bitmap' = bitmap \cup Run(Filled, c)
    BY <1>4, <1>6, <1>15
  <1>18. 0 .. Filled' - 1 \subseteq bitmap'
    <2>1. \A q \in 0 .. Filled + c - 1 : q \in 0 .. Filled - 1 \/ q \in Run(Filled, c)
      BY <1>1 DEF Run
    <2>2. 0 .. Filled' - 1 = 0 .. Filled + c - 1
      BY <1>1, <1>16
    <2>3. 0 .. Filled + c - 1 \subseteq bitmap \cup Run(Filled, c)
      BY <1>10, <2>1
    <2> QED
      BY <1>17, <2>2, <2>3
  <1>19. \A q \in bitmap' : ~(Filled' <= q /\ q < BootEnd)
    <2>1. \A q \in Run(Filled, c) : ~(Filled + c <= q)
      BY <1>1 DEF Run
    <2>2. \A q \in bitmap : Filled + c <= q => Filled <= q
      BY <1>1, <1>3
    <2> QED
      BY <1>10, <1>16, <1>17, <2>1, <2>2
  <1>20. BootEnd' = BootEnd
    OBVIOUS
  <1> QED
    BY <1>18, <1>19, <1>20 DEF FillOK

LEMMA SameBits ==
  ASSUME [Next]_vars
  PROVE  stale' = stale /\ BootInPlace' = BootInPlace
  <1>1. stale' = stale
    BY DEF Next, ReadMapEntry, ReserveLowMemory, BootAlloc, InitVMM, CreateSmall,
       CreateLarge, CreateBeyond, FreeAddressSpace, vars
  <1> QED
    BY <1>1 DEF BootInPlace

LEMMA NextFill == TypeInv /\ FillInv /\ [Next]_vars => FillInv'
  <1> SUFFICES ASSUME TypeInv, FillInv, [Next]_vars, BootInPlace, ~refused', ~ready'
               PROVE  FillOK'
    BY SameBits DEF FillInv
  <1>0. Len(map) \in Nat /\ next \in Nat /\ map \in MemoryMaps /\ booted \in Nat
    BY MapIs DEF TypeInv, TypeOK, MapInv
  <1>a. LowPages \in Nat \ {0} /\ BootEnd \in Nat /\ (booted = 0 => Filled = LowPages)
    BY BootNumbers
  <1>b. next <= Len(map) => booted = 0
    BY <1>0 DEF TypeInv, OrderInv
  <1>1. CASE ReadMapEntry
    <2> DEFINE e == map[next + 1]
    <2>1. /\ next < Len(map) /\ next' = next + 1 /\ map' = map /\ booted' = booted
          /\ bitmap' = IF e.type = 1 THEN bitmap ELSE bitmap \cup Region(e.base, e.length)
          /\ ~refused /\ ~ready
      BY <1>1 DEF ReadMapEntry
    <2>2. FillOK /\ booted = 0 /\ Filled' = Filled /\ Filled = LowPages
      BY <1>0, <1>a, <1>b, <2>1 DEF FillInv, Filled
    <2>3. next + 1 \in 1 .. Len(map)
      BY <1>0, <2>1
    <2>4. e.base \in Nat /\ e.length \in Nat
      BY <1>0, <2>3, MapIs
    <2>5. e.type # 1 => \/ e.base + e.length <= LowPages * PageSize
                        \/ BootEnd * PageSize <= e.base
      BY <1>0, <2>3, KernelTablesAssumption
    <2>6. ASSUME NEW q \in bitmap' PROVE ~(Filled' <= q /\ q < BootEnd)
      <3>1. CASE q \in bitmap
        BY <2>2, <3>1 DEF FillOK
      <3>2. CASE q \notin bitmap
        <4>1. e.type # 1 /\ q \in Region(e.base, e.length)
          BY <2>1, <2>6, <3>2
        <4>2. CASE e.base + e.length <= LowPages * PageSize
          <5>1. q < LowPages /\ q \in Nat
            BY <1>a, <2>4, <4>1, <4>2, RegionBounds
          <5> QED
            BY <1>a, <2>2, <5>1
        <4>3. CASE BootEnd * PageSize <= e.base
          <5>1. BootEnd <= q /\ q \in Nat
            BY <1>a, <2>4, <4>1, <4>3, RegionBounds
          <5> QED
            BY <1>a, <5>1
        <4> QED
          BY <2>5, <4>1, <4>2, <4>3
      <3> QED
        BY <3>1, <3>2
    <2>7. ~(next' > Len(map'))
      BY <1>0, <2>1
    <2> QED
      BY <2>6, <2>7 DEF FillOK
  <1>2. CASE ReserveLowMemory
    <2>1. /\ next = Len(map) /\ next' = next + 1 /\ map' = map /\ booted' = booted
          /\ bitmap' = bitmap \cup Low /\ ~refused /\ ~ready
      BY <1>2 DEF ReserveLowMemory, Low
    <2>2. FillOK /\ booted = 0 /\ Filled' = Filled /\ Filled = LowPages
      BY <1>0, <1>a, <1>b, <2>1 DEF FillInv, Filled
    <2>3. \A q \in Low : ~(LowPages <= q)
      BY <1>a, LowRun
    <2> QED
      BY <2>1, <2>2, <2>3, LowRun DEF FillOK
  <1>3. CASE BootAlloc
    <2>1. ~refused /\ ~ready
      BY <1>3, BootPages DEF BootAlloc
    <2>2. FillOK
      BY <2>1 DEF FillInv
    <2> QED
      BY <1>3, <2>2, BootFill
  <1>4. CASE InitVMM \/ CreateSmall \/ CreateLarge \/ FreeAddressSpace
    <2>1. ready'
      <3>1. CASE InitVMM
        BY <3>1 DEF InitVMM
      <3>2. CASE CreateSmall \/ CreateLarge
        <4>1. ready /\ ready' = ready
          BY <3>2, CreateSteps
        <4> QED
          BY <4>1
      <3>3. CASE FreeAddressSpace
        <4>1. ready /\ ready' = ready
          BY <3>3 DEF FreeAddressSpace
        <4> QED
          BY <4>1
      <3> QED
        BY <1>4, <3>1, <3>2, <3>3
    <2> QED
      BY <2>1
  <1>5. CASE CreateBeyond \/ UNCHANGED vars
    <2>1. UNCHANGED <<next, map, booted, bitmap, refused, ready>>
      BY <1>5 DEF CreateBeyond, vars, pmVars
    <2> QED
      BY <2>1 DEF FillInv, FillOK, Filled
  <1> QED
    BY <1>1, <1>2, <1>3, <1>4, <1>5 DEF Next

LEMMA InitFill == Init => FillInv
  <1> SUFFICES ASSUME Init, BootInPlace PROVE FillOK
    BY DEF FillInv
  <1>0. next = 0 /\ booted = 0 /\ bitmap = stale /\ map \in MemoryMaps
        /\ stale \in StaleBits
    BY DEF Init
  <1>1. TypeInv
    BY InitTypes
  <1>2. Len(map) \in Nat
    BY <1>0, MapIs
  <1>3. BootEnd \in Nat /\ LowPages \in Nat
    BY <1>1, BootNumbers
  <1>4. Filled = LowPages
    <2>1. Sums(BootAllocs)[0] = 0
      BY BootAssumption, SumsAre
    <2> QED
      BY <1>0, <1>3, <2>1 DEF Filled
  <1>5. bitmap \subseteq Nat
    BY <1>0, StaleAssumption
  <1>6. ASSUME NEW p \in bitmap PROVE ~(LowPages <= p /\ p < BootEnd)
    BY <1>0, <1>3, <1>5, <1>6 DEF BootInPlace
  <1>7. ~(next > Len(map))
    BY <1>0, <1>2
  <1> QED
    BY <1>4, <1>6, <1>7 DEF FillOK

-----------------------------------------------------------------------------
(* What the tables say, as long as they were zero when they were taken: a  *)
(* page nobody holds maps nothing, and the tables of a space lead to its   *)
(* own pages and to the kernel's tables only.                              *)
KernelTable == [i \in Indices |->
                  IF i \in {0, KernelEntry} THEN Entry(Kpml3, FALSE)
                  ELSE IF i = HighEntry THEN Entry(Kpml3HH, FALSE)
                  ELSE NotPresent]

Absent(c) == \A i \in Indices : ~c[i].present
Top(c, q) == /\ c[0] = Entry(q, FALSE)
             /\ c[KernelEntry] = Entry(Kpml3, FALSE)
             /\ c[HighEntry] = Entry(Kpml3HH, FALSE)
             /\ \A i \in Indices \ {0, KernelEntry, HighEntry} : ~c[i].present
Link(c, q) == c[0] = Entry(q, FALSE) /\ \A i \in Indices \ {0} : ~c[i].present
Leaf(c, base, size, step) ==
  \A i \in Indices : /\ i < size => c[i] = Entry(base + i * step, step > 1)
                     /\ ~(i < size) => ~c[i].present

SmallLeaf(c, pages) == \E base \in Pages, size \in Sizes :
                         pages = Run(base, size) /\ Leaf(c, base, size, 1)
LargeLeaf(c, pages) == \E base \in Pages, size \in Sizes :
                         pages = Run(base, size * Entries) /\ Leaf(c, base, size, Entries)

Shape(s) ==
  /\ Top(frame[table[s].pml4], table[s].pml3)
  /\ Link(frame[table[s].pml3], table[s].pml2)
  /\ table[s].large => LargeLeaf(frame[table[s].pml2], own[s])
  /\ ~table[s].large => /\ Link(frame[table[s].pml2], table[s].pml1)
                        /\ SmallLeaf(frame[table[s].pml1], own[s])

TablesOK == /\ \A p \in Pages \ bitmap : Absent(frame[p])
            /\ ready => Tables \in bitmap /\ frame[Tables] = KernelTable
            /\ ~ready => Live = {}
            /\ \A s \in Live : Shape(s)

TablesInv == /\ clean => ~freedLarge
             /\ clean /\ ~refused /\ BootInPlace => TablesOK

LEMMA TopMade ==
  ASSUME NEW c \in Contents, NEW q, Absent(c)
  PROVE  Top(Pml4(c, q), q)
  <1>0. DOMAIN c = Indices
    BY DEF Contents
  <1>1. /\ Pml4(c, q)[0] = Entry(q, FALSE)
        /\ Pml4(c, q)[KernelEntry] = Entry(Kpml3, FALSE)
        /\ Pml4(c, q)[HighEntry] = Entry(Kpml3HH, FALSE)
        /\ \A i \in Indices \ {0, KernelEntry, HighEntry} : Pml4(c, q)[i] = c[i]
    BY <1>0, SomeIndices DEF Pml4
  <1> QED
    BY <1>1 DEF Top, Absent

LEMMA LinkMade ==
  ASSUME NEW c \in Contents, NEW q, Absent(c)
  PROVE  Link([c EXCEPT ![0] = Entry(q, FALSE)], q)
  <1>0. DOMAIN c = Indices /\ 0 \in Indices
    BY SomeIndices DEF Contents
  <1> DEFINE d == [c EXCEPT ![0] = Entry(q, FALSE)]
  <1>1. d[0] = Entry(q, FALSE) /\ \A i \in Indices \ {0} : d[i] = c[i]
    BY <1>0
  <1> HIDE DEF d
  <1>2. Link(d, q)
    BY <1>1 DEF Link, Absent
  <1> QED
    BY <1>2 DEF d

LEMMA LeafMade ==
  ASSUME NEW c \in Contents, Absent(c), NEW base, NEW size, NEW step
  PROVE  Leaf(DataEntries(c, base, size, step), base, size, step)
  BY DEF Leaf, DataEntries, Absent

LEMMA NewShape ==
  ASSUME TypeInv, TypeOK', TablesOK, NEW s \in Slots, NewSpace(s), NewTables(s)
  PROVE  Shape(s)'
  <1> DEFINE t == table'[s]
  <1>1. t \in [pml4 : Pages, pml3 : Pages, pml2 : Pages, pml1 : Pages, large : BOOLEAN]
    BY DEF TypeOK
  <1>2. t.pml4 \in Pages /\ t.pml3 \in Pages /\ t.pml2 \in Pages /\ t.pml1 \in Pages
        /\ t.large \in BOOLEAN
    BY <1>1
  <1>3. /\ t.pml4 # 0 /\ t.pml3 # 0 /\ t.pml2 # 0 /\ (~t.large => t.pml1 # 0)
        /\ Held(s)' \cap bitmap = {}
    BY <1>2 DEF NewSpace
  <1>4. TablePages(s)' = {t.pml4, t.pml3, t.pml2, t.pml1}
    BY DEF TablePages
  <1>5. TablePages(s)' \ {0} \subseteq Held(s)'
    BY DEF Held
  <1> HIDE DEF t
  <1>6. t.pml4 \notin bitmap /\ t.pml3 \notin bitmap /\ t.pml2 \notin bitmap
        /\ (~t.large => t.pml1 \notin bitmap)
    BY <1>3, <1>4, <1>5
  <1>7. \A p \in Pages : p \notin bitmap => Absent(frame[p]) /\ frame[p] \in Contents
    BY DEF TablesOK, TypeInv, TypeOK
  <1>8. /\ Absent(frame[t.pml4]) /\ frame[t.pml4] \in Contents
        /\ Absent(frame[t.pml3]) /\ frame[t.pml3] \in Contents
        /\ Absent(frame[t.pml2]) /\ frame[t.pml2] \in Contents
        /\ ~t.large => Absent(frame[t.pml1]) /\ frame[t.pml1] \in Contents
    BY <1>2, <1>6, <1>7
  <1>9. /\ frame'[t.pml4] = Pml4(frame[t.pml4], t.pml3)
        /\ frame'[t.pml3] = [frame[t.pml3] EXCEPT ![0] = Entry(t.pml2, FALSE)]
    BY DEF NewTables, t
  <1>10. Top(frame'[t.pml4], t.pml3) /\ Link(frame'[t.pml3], t.pml2)
    BY <1>8, <1>9, TopMade, LinkMade
  <1>11. ASSUME t.large PROVE LargeLeaf(frame'[t.pml2], own'[s])
    <2>1. PICK base \in Pages, size \in Sizes :
            /\ own'[s] = Run(base, size * Entries)
            /\ frame'[t.pml2] = DataEntries(frame[t.pml2], base, size, Entries)
      BY <1>11 DEF NewTables, t
    <2>2. Leaf(frame'[t.pml2], base, size, Entries)
      BY <1>8, <2>1, LeafMade
    <2> QED
      BY <2>1, <2>2 DEF LargeLeaf
  <1>12. ASSUME ~t.large
         PROVE  Link(frame'[t.pml2], t.pml1) /\ SmallLeaf(frame'[t.pml1], own'[s])
    <2>1. /\ frame'[t.pml2] = [frame[t.pml2] EXCEPT ![0] = Entry(t.pml1, FALSE)]
          /\ \E base \in Pages, size \in Sizes :
               /\ own'[s] = Run(base, size)
               /\ frame'[t.pml1] = DataEntries(frame[t.pml1], base, size, 1)
      BY <1>12 DEF NewTables, t
    <2>2. PICK base \in Pages, size \in Sizes :
               /\ own'[s] = Run(base, size)
               /\ frame'[t.pml1] = DataEntries(frame[t.pml1], base, size, 1)
      BY <2>1
    <2>3. Leaf(frame'[t.pml1], base, size, 1)
      BY <1>8, <1>12, <2>2, LeafMade
    <2>4. SmallLeaf(frame'[t.pml1], own'[s])
      BY <2>2, <2>3 DEF SmallLeaf
    <2>5. Link(frame'[t.pml2], t.pml1)
      BY <1>8, <2>1, LinkMade
    <2> QED
      BY <2>4, <2>5
  <1> QED
    BY <1>10, <1>11, <1>12 DEF Shape, t

(* Tables whose pages nobody wrote to are what they were.                  *)
LEMMA SameShape ==
  ASSUME NEW s \in Slots, TypeInv, SlotOK(s), Shape(s),
         table'[s] = table[s], own'[s] = own[s],
         \A p \in Held(s) : frame'[p] = frame[p]
  PROVE  Shape(s)'
  <1> DEFINE t == table[s]
  <1>1. t.large \in BOOLEAN
    BY DEF TypeInv, TypeOK
  <1>2. t.pml4 # 0 /\ t.pml3 # 0 /\ t.pml2 # 0 /\ (~t.large => t.pml1 # 0)
    BY <1>1 DEF SlotOK
  <1>3. {t.pml4, t.pml3, t.pml2, t.pml1} \ {0} \subseteq Held(s)
    BY DEF Held, TablePages
  <1> HIDE DEF t
  <1>4. /\ frame'[t.pml4] = frame[t.pml4] /\ frame'[t.pml3] = frame[t.pml3]
        /\ frame'[t.pml2] = frame[t.pml2] /\ (~t.large => frame'[t.pml1] = frame[t.pml1])
    BY <1>2, <1>3
  <1>5. /\ Top(frame[t.pml4], t.pml3) /\ Link(frame[t.pml3], t.pml2)
        /\ t.large => LargeLeaf(frame[t.pml2], own[s])
        /\ ~t.large => Link(frame[t.pml2], t.pml1) /\ SmallLeaf(frame[t.pml1], own[s])
    BY DEF Shape, t
  <1>6. table'[s] = t
    BY DEF t
  <1>7. /\ Top(frame'[t.pml4], t.pml3) /\ Link(frame'[t.pml3], t.pml2)
        /\ t.large => LargeLeaf(frame'[t.pml2], own'[s])
        /\ ~t.large => Link(frame'[t.pml2], t.pml1) /\ SmallLeaf(frame'[t.pml1], own'[s])
    BY <1>4, <1>5
  <1> QED
    BY <1>6, <1>7 DEF Shape

LEMMA CreatedTables ==
  ASSUME TypeInv, TypeOK', LowInv, SpacesOK, TablesOK, CreateSmall \/ CreateLarge, ~refused'
  PROVE  TablesOK'
  <1>0. ready /\ ready' = ready
    BY CreateSteps
  <1>1. PICK s \in Slots : NewSpace(s) /\ NewTables(s)
    BY SmallSpace, LargeSpace
  <1>2. /\ Held(s)' \cap bitmap = {} /\ bitmap' = bitmap \cup Held(s)'
        /\ \A p \in Pages \ Held(s)' : frame'[p] = frame[p]
    BY <1>1 DEF NewSpace, NewTables
  <1>3. ASSUME NEW p \in Pages \ bitmap' PROVE Absent(frame'[p])
    BY <1>2 DEF TablesOK
  <1>4. Tables \in bitmap' /\ frame'[Tables] = KernelTable
    <2>1. Tables \in bitmap /\ frame[Tables] = KernelTable /\ Tables \in Pages
      BY <1>0, KernelPages DEF TablesOK
    <2> QED
      BY <1>2, <2>1
  <1>5. \A r \in Slots : r # s => table'[r] = table[r] /\ own'[r] = own[r]
    <2>1. DOMAIN table = Slots /\ DOMAIN own = Slots
      BY DEF TypeInv, TypeOK
    <2> QED
      BY <1>1, <2>1 DEF NewSpace
  <1>6. Live' \subseteq Live \cup {s}
    BY <1>5 DEF Live
  <1>7. ASSUME NEW r \in Live' PROVE Shape(r)'
    <2>1. CASE r = s
      BY <1>1, <2>1, NewShape
    <2>2. CASE r # s
      <3>1. r \in Live /\ r \in Slots /\ SlotOK(r) /\ Shape(r)
        BY <1>6, <2>2 DEF TablesOK, SpacesOK, Live
      <3>a. Held(r) \subseteq Pages
        BY <3>1 DEF Held, TablePages, TypeInv, TypeOK
      <3>2. Held(r) \subseteq bitmap /\ Held(r) \subseteq Pages
        BY <3>1, <3>a DEF SlotOK
      <3>3. \A p \in Held(r) : frame'[p] = frame[p]
        BY <1>2, <3>2
      <3> QED
        BY <1>5, <2>2, <3>1, <3>3, SameShape
    <2> QED
      BY <2>1, <2>2
  <1>8. KernelTable' = KernelTable
    OBVIOUS
  <1> QED
    BY <1>0, <1>3, <1>4, <1>7 DEF TablesOK

LEMMA InitVMMTables ==
  ASSUME TypeInv, FillOK, TablesOK, InitVMM
  PROVE  TablesOK'
  <1>0. /\ booted = Len(BootAllocs) /\ ~ready /\ ready' = TRUE /\ bitmap' = bitmap /\ own' = own
        /\ frame' = [frame EXCEPT ![Tables] = KernelTable]
    BY DEF InitVMM, pmVars, KernelTable
  <1>1. Len(BootAllocs) \in Nat \ {0}
    <2>1. BootAllocs \in Seq(Nat \ {0}) /\ BootAllocs # <<>>
      BY BootAssumption
    <2> QED
      BY <2>1
  <1>2. next > Len(map)
    BY <1>0, <1>1 DEF TypeInv, OrderInv
  <1>3. Filled = BootEnd /\ BootEnd \in Nat
    BY <1>0, BootNumbers
  <1>4. Tables \in 0 .. BootEnd - 1
    BY <1>3, KernelTablesAssumption, BootAssumption
  <1>5. Tables \in bitmap
    BY <1>2, <1>3, <1>4 DEF FillOK
  <1>6. DOMAIN frame = Pages /\ Tables \in Pages
    BY KernelPages DEF TypeInv, TypeOK
  <1>7. frame'[Tables] = KernelTable /\ \A p \in Pages \ {Tables} : frame'[p] = frame[p]
    BY <1>0, <1>6
  <1>8. \A p \in Pages \ bitmap' : Absent(frame'[p])
    BY <1>0, <1>5, <1>7 DEF TablesOK
  <1>9. Live' = {}
    <2>1. Live = {}
      BY <1>0 DEF TablesOK
    <2> QED
      BY <1>0, <2>1 DEF Live
  <1> QED
    BY <1>0, <1>5, <1>7, <1>8, <1>9 DEF TablesOK

(* Steps that only mark more pages. *)
LEMMA MarkedTables ==
  ASSUME TablesOK, UNCHANGED <<table, own, frame, ready>>, bitmap \subseteq bitmap'
  PROVE  TablesOK'
  BY DEF TablesOK, Shape, Live

LEMMA NextTables ==
  TypeInv /\ TypeInv' /\ SpaceInv /\ FillInv /\ TablesInv /\ [Next]_vars => TablesInv'
  <1> SUFFICES ASSUME TypeInv, TypeInv', SpaceInv, FillInv, TablesInv, [Next]_vars
               PROVE  TablesInv'
    OBVIOUS
  <1>0. ASSUME UNCHANGED <<clean, freedLarge>>, ~refused' => ~refused,
               clean /\ ~refused' /\ BootInPlace /\ TablesOK => TablesOK'
        PROVE  TablesInv'
    BY <1>0, SameBits DEF TablesInv
  <1>1. CASE ReadMapEntry \/ ReserveLowMemory
    <2>1. UNCHANGED <<clean, freedLarge, refused, table, own, frame, ready>>
          /\ bitmap \subseteq bitmap'
      BY <1>1 DEF ReadMapEntry, ReserveLowMemory, vmVars
    <2> QED
      BY <1>0, <2>1, MarkedTables
  <1>2. CASE BootAlloc
    <2>1. UNCHANGED <<clean, freedLarge, table, own, frame, ready>>
      BY <1>2 DEF BootAlloc, vmVars
    <2>2. bitmap \subseteq bitmap' /\ (~refused' => ~refused)
      BY <1>2 DEF BootAlloc, Hand
    <2> QED
      BY <1>0, <2>1, <2>2, MarkedTables
  <1>3. CASE InitVMM
    <2>1. UNCHANGED <<clean, freedLarge, refused>> /\ ~ready
      BY <1>3 DEF InitVMM, pmVars
    <2>2. BootInPlace /\ ~refused => FillOK
      BY <2>1 DEF FillInv
    <2> QED
      BY <1>0, <1>3, <2>1, <2>2, InitVMMTables
  <1>4. CASE CreateSmall \/ CreateLarge
    <2>1. UNCHANGED <<clean, freedLarge>>
      BY <1>4, CreateSteps
    <2>2. ~refused' => ~refused
      BY <1>4, CreatePages
    <2>3. clean /\ ~refused' => LowInv /\ SpacesOK
      BY <2>2 DEF SpaceInv, TablesInv
    <2>4. TypeOK'
      BY DEF TypeInv
    <2> QED
      BY <1>0, <1>4, <2>1, <2>2, <2>3, <2>4, CreatedTables
  <1>5. CASE FreeAddressSpace
    <2>1. clean' = FALSE
      BY <1>5 DEF FreeAddressSpace
    <2> QED
      BY <2>1 DEF TablesInv
  <1>6. CASE CreateBeyond \/ UNCHANGED vars
    <2>1. UNCHANGED <<clean, freedLarge, refused, table, own, frame, ready, bitmap>>
      BY <1>6 DEF CreateBeyond, vars, pmVars, vmVars
    <2> QED
      BY <1>0, <2>1, MarkedTables
  <1> QED
    BY <1>1, <1>2, <1>3, <1>4, <1>5, <1>6 DEF Next

LEMMA InitTables == Init => TablesInv
  <1> SUFFICES ASSUME Init PROVE TablesInv
    OBVIOUS
  <1>1. PICK old \in StaleEntries :
          /\ frame = [p \in Pages |-> old]
          /\ clean = (\A i \in Indices : ~old[i].present)
    BY DEF Init
  <1>2. ready = FALSE /\ freedLarge = FALSE /\ own = [s \in Slots |-> {}]
    BY Zenon DEF Init
  <1>3. Live = {}
    BY <1>2 DEF Live
  <1>4. clean => \A p \in Pages : Absent(frame[p])
    BY <1>1 DEF Absent
  <1> QED
    BY <1>2, <1>3, <1>4 DEF TablesInv, TablesOK

-----------------------------------------------------------------------------
(* What a processor finds below such tables.                               *)
Mapped(c) == {c[i] : i \in {j \in Indices : c[j].present}}

LEMMA LinkBelow ==
  ASSUME NEW c, NEW q, Link(c, q)
  PROVE  Mapped(c) = {Entry(q, FALSE)}
  <1>1. 0 \in Indices
    BY SomeIndices
  <1>2. c[0] = Entry(q, FALSE) /\ \A i \in Indices : i # 0 => ~c[i].present
    BY DEF Link
  <1>3. Entry(q, FALSE).present
    BY DEF Entry
  <1>4. {j \in Indices : c[j].present} = {0}
    BY <1>1, <1>2, <1>3
  <1> QED
    BY <1>2, <1>4 DEF Mapped

LEMMA TopBelow ==
  ASSUME NEW c, NEW q, Top(c, q)
  PROVE  {c[i] : i \in {j \in Indices \ {KernelEntry, HighEntry} : c[j].present}}
           = {Entry(q, FALSE)}
  <1>1. 0 \in Indices \ {KernelEntry, HighEntry}
    BY SomeIndices
  <1>2. /\ c[0] = Entry(q, FALSE)
        /\ \A i \in Indices \ {KernelEntry, HighEntry} : i # 0 => ~c[i].present
    BY DEF Top
  <1>3. Entry(q, FALSE).present
    BY DEF Entry
  <1>4. {j \in Indices \ {KernelEntry, HighEntry} : c[j].present} = {0}
    BY <1>1, <1>2, <1>3
  <1> QED
    BY <1>2, <1>4

LeafEntries(base, size, step) == {Entry(base + i * step, step > 1) : i \in 0 .. size - 1}

LEMMA LeafBelow ==
  ASSUME NEW c, NEW base, NEW size \in Sizes, NEW step, Leaf(c, base, size, step)
  PROVE  Mapped(c) = LeafEntries(base, size, step)
  <1>1. size \in 1 .. Entries /\ Entries \in Nat
    BY CountsAre, EntriesAssumption
  <1>2. ASSUME NEW i \in Indices
        PROVE  /\ i < size => c[i] = Entry(base + i * step, step > 1) /\ c[i].present
               /\ ~(i < size) => ~c[i].present
    BY DEF Leaf, Entry
  <1>3. {j \in Indices : c[j].present} = 0 .. size - 1
    <2>1. \A j : j \in Indices /\ j < size <=> j \in 0 .. size - 1
      BY <1>1 DEF Indices
    <2> QED
      BY <1>2, <2>1
  <1>4. \A i \in 0 .. size - 1 : c[i] = Entry(base + i * step, step > 1)
    <2>1. \A i \in 0 .. size - 1 : i \in Indices /\ i < size
      BY <1>1 DEF Indices
    <2> QED
      BY <1>2, <2>1
  <1>5. Mapped(c) = {c[i] : i \in 0 .. size - 1}
    BY <1>3 DEF Mapped
  <1> QED
    BY <1>4, <1>5 DEF LeafEntries

(* One level leads to exactly one table of the next. *)
LEMMA OneBelow ==
  ASSUME NEW es, NEW q, es = {Entry(q, FALSE)}
  PROVE  UNION {Below(g.to) : g \in es} = Below(q)
  <1>1. Entry(q, FALSE).to = q
    BY DEF Entry
  <1>2. {Below(g.to) : g \in es} = {Below(q)}
    BY <1>1
  <1> QED
    BY <1>2

LEMMA SameRemainder ==
  ASSUME NEW a \in Nat, NEW i \in Nat, NEW d \in Nat \ {0}
  PROVE  (a + i * d) % d = a % d
  <1> DEFINE b == a + i * d
             q == a \div d
             u == b \div d
  <1>1. i * d \in Nat /\ b \in Nat /\ b = a + i * d
    OBVIOUS
  <1> HIDE DEF b
  <1>2. /\ q \in Nat /\ q * d <= a /\ a < q * d + d /\ a % d = a - q * d
        /\ u \in Nat /\ u * d <= b /\ b < u * d + d /\ b % d = b - u * d
    BY <1>1, DivIs
  <1> HIDE DEF q, u
  <1>3. (q + i) * d = q * d + i * d /\ q * d \in Nat /\ u * d \in Nat
    BY <1>2
  <1>4. u * d < (q + i) * d + d /\ (q + i) * d < u * d + d
    BY <1>1, <1>2, <1>3
  <1>5. u <= q + i /\ q + i <= u
    BY <1>2, <1>4, Times
  <1>6. u = q + i
    BY <1>2, <1>5
  <1>7. u * d = q * d + i * d
    BY <1>3, <1>6
  <1>8. b % d = a % d
    BY <1>1, <1>2, <1>3, <1>7
  <1> QED
    BY <1>8 DEF b

(* Runs that follow each other are one run. *)
LEMMA RunsJoin ==
  ASSUME NEW c \in Nat, NEW n \in Nat, NEW d \in Nat \ {0}
  PROVE  UNION {Run(c + i * d, d) : i \in 0 .. n - 1} = Run(c, n * d)
  <1>0. n * d \in Nat
    OBVIOUS
  <1>1. ASSUME NEW i \in 0 .. n - 1 PROVE Run(c + i * d, d) \subseteq Run(c, n * d)
    <2>1. i \in Nat /\ i + 1 \in Nat /\ i + 1 <= n
      OBVIOUS
    <2>2. (i + 1) * d <= n * d
      BY <2>1, TimesLe
    <2>3. (i + 1) * d = i * d + d /\ i * d \in Nat
      BY <2>1
    <2> DEFINE x == i * d
               y == n * d
    <2>4. x \in Nat /\ y \in Nat /\ x + d <= y
      BY <1>0, <2>2, <2>3
    <2> HIDE DEF x, y
    <2>5. c + x .. c + x + d - 1 \subseteq c .. c + y - 1
      BY <2>4
    <2> QED
      BY <2>5 DEF Run, x, y
  <1>2. ASSUME NEW p \in Run(c, n * d) PROVE \E i \in 0 .. n - 1 : p \in Run(c + i * d, d)
    <2> DEFINE i == (p - c) \div d
    <2>1. p - c \in Nat /\ p - c < n * d
      BY <1>0, <1>2 DEF Run
    <2>2. i \in Nat /\ i * d <= p - c /\ p - c < i * d + d
      BY <2>1, DivIs
    <2> HIDE DEF i
    <2>3. i * d \in Nat /\ (n - 1) * d + d = n * d /\ (n - 1) * d \in Int
      BY <2>2
    <2>4. i * d < (n - 1) * d + d
      BY <1>0, <2>1, <2>2, <2>3
    <2>5. i <= n - 1
      BY <2>2, <2>4, Times
    <2> DEFINE x == i * d
    <2>6. x \in Nat /\ x <= p - c /\ p - c < x + d /\ p \in Int
      BY <2>1, <2>2, <2>3, <1>0 DEF Run
    <2> HIDE DEF x
    <2>7. p \in c + x .. c + x + d - 1
      BY <2>6
    <2> QED
      BY <2>2, <2>5, <2>7 DEF Run, x
  <1> QED
    BY <1>1, <1>2

(* What Before says of a run. *)
LEMMA BeforeRun ==
  ASSUME NEW s, NEW base \in Nat, NEW n \in Nat \ {0}, own[s] = Run(base, n), NEW d \in Nat
  PROVE  Before(s, d) = IF base % Entries = d THEN Run(base - d, n) ELSE {}
  <1>1. base \in own[s] /\ base - 1 \notin own[s]
    BY DEF Run
  <1>2. \A b \in own[s] : b - 1 \notin own[s] => b = base
    BY DEF Run
  <1>3. {p - d : p \in own[s]} = Run(base - d, n)
    <2>1. \A p \in Run(base, n) : p - d \in Run(base - d, n)
      BY DEF Run
    <2>2. \A x \in Run(base - d, n) : x + d \in Run(base, n) /\ x = (x + d) - d
      BY DEF Run
    <2> QED
      BY <2>1, <2>2
  <1>4. Starts(s, d) <=> base % Entries = d
    BY <1>1, <1>2 DEF Starts
  <1> QED
    BY <1>3, <1>4 DEF Before

LEMMA Reached ==
  ASSUME TypeInv, NEW s \in Slots, Shape(s)
  PROVE  UserPages(s) = IF table[s].large THEN Before(s, 0) \cup Before(s, 1) ELSE own[s]
  <1> DEFINE t == table[s]
  <1>0. t.large \in BOOLEAN
    BY DEF TypeInv, TypeOK
  <1>1. /\ Top(frame[t.pml4], t.pml3) /\ Link(frame[t.pml3], t.pml2)
        /\ t.large => LargeLeaf(frame[t.pml2], own[s])
        /\ ~t.large => Link(frame[t.pml2], t.pml1) /\ SmallLeaf(frame[t.pml1], own[s])
    BY DEF Shape
  <1>2. UserTables(s) = {Entry(t.pml3, FALSE)}
    BY <1>1, TopBelow DEF UserTables
  <1> HIDE DEF t
  <1>3. \A p : Below(p) = Mapped(frame[p])
    BY DEF Below, Mapped
  <1>4. UNION {Below(g.to) : g \in UserTables(s)} = {Entry(t.pml2, FALSE)}
    <2>1. UNION {Below(g.to) : g \in UserTables(s)} = Below(t.pml3)
      BY <1>2, OneBelow
    <2>2. Mapped(frame[t.pml3]) = {Entry(t.pml2, FALSE)}
      BY <1>1, LinkBelow
    <2> QED
      BY <1>3, <2>1, <2>2
  <1>5. UNION {Below(f.to) : f \in UNION {Below(g.to) : g \in UserTables(s)}} = Below(t.pml2)
    BY <1>4, OneBelow
  <1>6. UserPages(s) = UNION {Leaves(e) : e \in Below(t.pml2)}
    BY <1>5 DEF UserPages
  <1>7. CASE ~t.large
    <2>1. Below(t.pml2) = {Entry(t.pml1, FALSE)}
      BY <1>1, <1>3, <1>7, LinkBelow
    <2>2. Leaves(Entry(t.pml1, FALSE)) = {f.to : f \in Below(t.pml1)}
      BY DEF Leaves, Entry
    <2>3. UserPages(s) = {f.to : f \in Below(t.pml1)}
      <3>1. {Leaves(e) : e \in Below(t.pml2)} = {Leaves(Entry(t.pml1, FALSE))}
        BY <2>1
      <3> QED
        BY <1>6, <2>2, <3>1
    <2>4. PICK base \in Pages, size \in Sizes :
            own[s] = Run(base, size) /\ Leaf(frame[t.pml1], base, size, 1)
      BY <1>1, <1>7 DEF SmallLeaf
    <2>a. Below(t.pml1) = LeafEntries(base, size, 1)
      BY <1>3, <2>4, LeafBelow
    <2>5. Below(t.pml1) = {Entry(base + i * 1, 1 > 1) : i \in 0 .. size - 1}
      BY <2>a DEF LeafEntries
    <2>6. {f.to : f \in Below(t.pml1)} = {base + i : i \in 0 .. size - 1}
      <3>1. \A i \in 0 .. size - 1 : Entry(base + i * 1, 1 > 1).to = base + i
        <4>1. base \in Int
          BY DEF Pages
        <4>2. \A i \in 0 .. size - 1 : base + i * 1 = base + i
          BY <4>1
        <4> QED
          BY <4>2 DEF Entry
      <3> QED
        BY <2>5, <3>1
    <2>7. {base + i : i \in 0 .. size - 1} = Run(base, size)
      <3>1. base \in Int /\ size \in Int
        BY CountsAre DEF Pages
      <3>2. \A x \in Run(base, size) : x - base \in 0 .. size - 1 /\ x = base + (x - base)
        BY <3>1 DEF Run
      <3>3. \A i \in 0 .. size - 1 : base + i \in Run(base, size)
        BY <3>1 DEF Run
      <3> QED
        BY <3>2, <3>3
    <2> QED
      BY <1>7, <2>3, <2>4, <2>6, <2>7 DEF t
  <1>8. CASE t.large
    <2>1. PICK base \in Pages, size \in Sizes :
            own[s] = Run(base, size * Entries) /\ Leaf(frame[t.pml2], base, size, Entries)
      BY <1>1, <1>8 DEF LargeLeaf
    <2>2. Below(t.pml2) = {Entry(base + i * Entries, Entries > 1) : i \in 0 .. size - 1}
      BY <1>3, <2>1, LeafBelow DEF LeafEntries
    <2> DEFINE m == base % Entries
               n == size * Entries
    <2>3. /\ Entries \in Nat \ {0} /\ Entries > 1 /\ base \in Nat /\ size \in Nat
          /\ n \in Nat \ {0}
      BY EntriesAssumption, CountsAre DEF Pages
    <2>4. m \in Nat /\ m <= base /\ base - m \in Nat
      <3>1. /\ base \div Entries \in Nat /\ (base \div Entries) * Entries <= base
            /\ m = base - (base \div Entries) * Entries
        BY <2>3, DivIs
      <3>2. (base \div Entries) * Entries \in Nat
        BY <2>3, <3>1
      <3> HIDE DEF m
      <3> QED
        BY <2>3, <3>1, <3>2
    <2>5. ASSUME NEW i \in 0 .. size - 1
          PROVE  Leaves(Entry(base + i * Entries, Entries > 1))
                   = IF m \in {0, 1} THEN Run((base - m) + i * Entries, Entries) ELSE {}
      <3>0. i \in Nat
        BY <2>3
      <3>1. i \in Nat /\ (base + i * Entries) % Entries = m
        BY <2>3, <3>0, SameRemainder
      <3>2. Leaves(Entry(base + i * Entries, Entries > 1)) = LargePage(base + i * Entries)
        BY <2>3 DEF Leaves, Entry
      <3>3. (base + i * Entries) - m = (base - m) + i * Entries
        <4>1. i * Entries \in Nat
          BY <2>3, <3>1
        <4> HIDE DEF m
        <4> QED
          BY <2>3, <2>4, <4>1
      <3> HIDE DEF m
      <3> QED
        BY <3>1, <3>2, <3>3 DEF LargePage
    <2>6. UserPages(s) = UNION {Leaves(Entry(base + i * Entries, Entries > 1)) :
                                  i \in 0 .. size - 1}
      BY <1>6, <2>2
    <2>a. own[s] = Run(base, n)
      BY <2>1
    <2> HIDE DEF n
    <2>b. \A d \in Nat : Before(s, d) = IF base % Entries = d THEN Run(base - d, n) ELSE {}
      <3> HIDE DEF m
      <3> QED
        BY <2>3, <2>a, BeforeRun
    <2>7. \A d \in Nat : Before(s, d) = IF m = d THEN Run(base - d, n) ELSE {}
      BY <2>b
    <2> HIDE DEF m, n
    <2>8. CASE m \in {0, 1}
      <3>1. UserPages(s) = UNION {Run((base - m) + i * Entries, Entries) : i \in 0 .. size - 1}
        BY <2>5, <2>6, <2>8
      <3>2. UserPages(s) = Run(base - m, n)
        BY <2>3, <2>4, <3>1, RunsJoin DEF n
      <3>3. Before(s, m) = Run(base - m, n)
        BY <2>4, <2>7
      <3>4. \A d \in Nat : d # m => Before(s, d) = {}
        BY <2>7
      <3>5. Before(s, 0) \cup Before(s, 1) = Before(s, m)
        <4>1. CASE m = 0
          BY <3>4, <4>1
        <4>2. CASE m = 1
          BY <3>4, <4>2
        <4> QED
          BY <2>8, <4>1, <4>2
      <3> QED
        BY <1>8, <3>2, <3>3, <3>5 DEF t
    <2>9. CASE m \notin {0, 1}
      <3>1. UserPages(s) = {}
        BY <2>5, <2>6, <2>9
      <3>2. Before(s, 0) = {} /\ Before(s, 1) = {}
        BY <2>7, <2>9
      <3> QED
        BY <1>8, <3>1, <3>2 DEF t
    <2> QED
      BY <2>8, <2>9
  <1> QED
    BY <1>0, <1>7, <1>8 DEF t

(* Every space maps the kernel and, for the program, exactly the pages it  *)
(* asked for, if they are small, or large and at a multiple of a large     *)
(* page; the same number one page too low when they are one page after     *)
(* such a multiple, and nothing elsewhere.  No page belongs to two spaces  *)
(* (virtualPageManager.c:24-75).                                           *)
THEOREM Isolation == Spec => []SpacesIsolated
  <1>1. TypeInv /\ TablesInv => SpacesMapOwn
    <2> SUFFICES ASSUME TypeInv, TablesOK, NEW s \in Live
                 PROVE  /\ frame[table[s].pml4][KernelEntry] = frame[Tables][KernelEntry]
                        /\ frame[table[s].pml4][HighEntry] = frame[Tables][HighEntry]
                        /\ UserPages(s) = IF table[s].large THEN Before(s, 0) \cup Before(s, 1)
                                          ELSE own[s]
      BY DEF TablesInv, SpacesMapOwn
    <2>1. s \in Slots /\ Shape(s) /\ frame[Tables] = KernelTable
      BY DEF TablesOK, Live, TypeInv, TypeOK
    <2>2. /\ frame[Tables][KernelEntry] = Entry(Kpml3, FALSE)
          /\ frame[Tables][HighEntry] = Entry(Kpml3HH, FALSE)
      BY <2>1, SomeIndices DEF KernelTable
    <2>3. /\ frame[table[s].pml4][KernelEntry] = Entry(Kpml3, FALSE)
          /\ frame[table[s].pml4][HighEntry] = Entry(Kpml3HH, FALSE)
      BY <2>1 DEF Shape, Top
    <2>4. UserPages(s) = IF table[s].large THEN Before(s, 0) \cup Before(s, 1)
                         ELSE own[s]
      BY <2>1, Reached
    <2> QED
      BY <2>2, <2>3, <2>4
  <1>2. Init => TypeInv /\ SpaceInv /\ FillInv /\ TablesInv
    BY InitTypes, InitSpaces, InitFill, InitTables
  <1>3. (TypeInv /\ SpaceInv /\ FillInv /\ TablesInv) /\ [Next]_vars
          => (TypeInv /\ SpaceInv /\ FillInv /\ TablesInv)'
    BY NextTypes, NextSpaces, NextFill, NextTables
  <1>4. Spec => [](TypeInv /\ SpaceInv /\ FillInv /\ TablesInv)
    BY <1>2, <1>3, PTL DEF Spec
  <1>5. Spec => []SpacesMapOwn
    BY <1>1, <1>4, PTL
  <1>6. SpacesMapOwn /\ SpacesDisjoint => SpacesIsolated
    BY DEF SpacesIsolated
  <1> QED
    BY <1>5, <1>6, SpacesApart, PTL

-----------------------------------------------------------------------------
(* An entry of the table of spaces is taken only as long as its space is   *)
(* in use.                                                                 *)
UsedInv == /\ \A s \in Slots : table[s].pml4 # 0 => s \in Live
           /\ beyond => Live = Slots

(* The first entry that is free, if there is one, is found. *)
LEMMA FirstFound ==
  ASSUME SpacesAssumption, NEW r \in Slots, table[r].pml4 = 0
  PROVE  \E s \in Slots : IsFirstFree(s)
  <1> DEFINE T == {s \in Slots : table[s].pml4 = 0}
  <1>1. T \subseteq Nat /\ r \in T
    BY SpacesAssumption DEF Slots
  <1> HIDE DEF T
  <1>2. PICK s \in T : \A q \in T : s <= q
    BY <1>1, LeastOfNat
  <1>3. s \in Slots /\ table[s].pml4 = 0
    BY <1>2 DEF T
  <1>4. ASSUME NEW q \in Slots, q < s PROVE table[q].pml4 # 0
    <2>1. q \in Nat /\ s \in Nat
      BY <1>3, SpacesAssumption DEF Slots
    <2>2. q \notin T
      BY <1>2, <1>4, <2>1
    <2> QED
      BY <2>2 DEF T
  <1> QED
    BY <1>3, <1>4 DEF IsFirstFree

LEMMA NextUsed == TypeInv /\ UsedInv /\ [Next]_vars => UsedInv'
  <1> SUFFICES ASSUME TypeInv, UsedInv, [Next]_vars PROVE UsedInv'
    OBVIOUS
  <1>0. DOMAIN table = Slots /\ DOMAIN own = Slots
    BY DEF TypeInv, TypeOK
  <1>1. ASSUME UNCHANGED <<table, own, beyond>> PROVE UsedInv'
    BY <1>1 DEF UsedInv, Live
  <1>2. ASSUME NEW s \in Slots, NEW b, NEW n \in Nat \ {0}, b \in Nat, ~beyond,
               own' = [own EXCEPT ![s] = Run(b, n)], beyond' = beyond,
               \A r \in Slots : r # s => table'[r] = table[r]
        PROVE  UsedInv'
    <2>1. b \in Run(b, n)
      BY <1>2 DEF Run
    <2>2. own'[s] # {} /\ \A r \in Slots : r # s => own'[r] = own[r]
      BY <1>0, <1>2, <2>1
    <2> QED
      BY <1>2, <2>2 DEF UsedInv, Live
  <1>3. CASE CreateSmall
    <2>1. PICK s \in Slots, size \in Sizes :
            LET b == Addresses(SmallCounts(size))
            IN  /\ table' = [table EXCEPT ![s] = [pml4 |-> b[1], pml3 |-> b[2],
                               pml2 |-> b[3], pml1 |-> b[4], large |-> FALSE]]
                /\ own' = [own EXCEPT ![s] = Run(b[5], size)]
      BY <1>3 DEF CreateSmall
    <2>2. Addresses(SmallCounts(size))[5] \in Nat /\ size \in Nat \ {0}
      BY AddressesAre, CountsAre DEF Pages
    <2>3. ~beyond /\ beyond' = beyond
      BY <1>3 DEF CreateSmall
    <2>4. \A r \in Slots : r # s => table'[r] = table[r]
      BY <2>1
    <2> QED
      BY <1>2, <2>1, <2>2, <2>3, <2>4
  <1>4. CASE CreateLarge
    <2>1. PICK s \in Slots, size \in Sizes :
            LET b == Addresses(LargeCounts(size))
            IN  /\ table' = [table EXCEPT ![s] = [pml4 |-> b[1], pml3 |-> b[2],
                               pml2 |-> b[3], pml1 |-> table[s].pml1, large |-> TRUE]]
                /\ own' = [own EXCEPT ![s] = Run(b[4], size * Entries)]
      BY <1>4 DEF CreateLarge
    <2>2. Addresses(LargeCounts(size))[4] \in Nat /\ size * Entries \in Nat \ {0}
      BY AddressesAre, CountsAre DEF Pages
    <2>3. ~beyond /\ beyond' = beyond
      BY <1>4 DEF CreateLarge
    <2>4. \A r \in Slots : r # s => table'[r] = table[r]
      BY <2>1
    <2> QED
      BY <1>2, <2>1, <2>2, <2>3, <2>4
  <1>5. CASE CreateBeyond
    <2>1. UNCHANGED <<table, own>> /\ \A s \in Slots : ~IsFirstFree(s)
      BY <1>5 DEF CreateBeyond
    <2>2. \A s \in Slots : table[s].pml4 # 0
      BY <2>1, SpacesAssumption, FirstFound
    <2>3. Live = Slots
      BY <2>2 DEF UsedInv, Live
    <2> QED
      BY <2>1, <2>3 DEF UsedInv, Live
  <1>6. CASE FreeAddressSpace
    <2>1. PICK s \in Slots : /\ table' = [table EXCEPT ![s] = EmptySlot]
                             /\ own' = [own EXCEPT ![s] = {}]
      BY <1>6 DEF FreeAddressSpace
    <2>2. ~beyond /\ beyond' = beyond
      BY <1>6 DEF FreeAddressSpace
    <2>3. table'[s].pml4 = 0 /\ \A r \in Slots : r # s => table'[r] = table[r] /\ own'[r] = own[r]
      BY <1>0, <2>1 DEF EmptySlot
    <2> QED
      BY <2>2, <2>3 DEF UsedInv, Live
  <1> QED
    BY <1>1, <1>3, <1>4, <1>5, <1>6
       DEF Next, ReadMapEntry, ReserveLowMemory, BootAlloc, InitVMM, vmVars, vars

LEMMA InitUsed == Init => UsedInv
  BY DEF Init, UsedInv, EmptySlot

(* findFirstFreeSlot leaves the table, which it takes to be ten times as   *)
(* long as it is, only with every entry in use by a space, however many    *)
(* spaces came and went and whichever allocations failed                   *)
(* (virtualPageManager.c:87-88,124-131).                                   *)
THEOREM TableFullFirst == Spec => []LeftWhenFull
  <1>1. UsedInv => LeftWhenFull
    BY DEF UsedInv, LeftWhenFull
  <1>2. TypeInv /\ UsedInv /\ [Next]_vars => (TypeInv /\ UsedInv)'
    BY NextTypes, NextUsed
  <1>3. Init => TypeInv /\ UsedInv
    BY InitTypes, InitUsed
  <1> QED
    BY <1>1, <1>2, <1>3, PTL DEF Spec

=============================================================================
