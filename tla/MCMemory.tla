------------------------------- MODULE MCMemory -------------------------------
(* Pages of two units, tables of four entries.  The first two maps are     *)
(* regular, one of them too small for two spaces; the others have a hole,  *)
(* with a reserved region above the memory that is counted, and a region   *)
(* that starts inside a page.  The tables of the kernel lie inside the     *)
(* heap, as they do at 0x200000, and so may a bit that nobody cleared.     *)
EXTENDS Memory

E(base, length, type) == [base |-> base, length |-> length, type |-> type]

MCMemoryMaps == {<<E(0, 8, 1), E(8, 40, 1)>>,
                 <<E(0, 4, 1), E(4, 4, 2), E(8, 36, 1), E(44, 4, 3), E(48, 40, 1)>>,
                 <<E(0, 8, 1), E(8, 48, 1), E(64, 8, 2), E(72, 16, 1), E(100, 4, 2)>>,
                 <<E(0, 8, 1), E(8, 43, 1), E(51, 5, 2), E(56, 30, 1)>>}

MCBootAllocs == <<1, 10, 1, 1>>

Zero == [i \in Indices |-> NotPresent]
MCStaleBits == {{}, {MaxPage - 1}, {11}}
MCStaleEntries == {Zero, [Zero EXCEPT ![1] = Entry(1, FALSE)]}
=============================================================================
