------------------------------ MODULE MCPlatform ------------------------------
(* Roots, lists of entries and bus topologies, sound and unsound, combined. *)
EXTENDS Platform, SequencesExt, TLC

Item(t) == [type |-> t, bytes |-> IF t = 1 THEN 12 ELSE 8,
            size |-> IF t = 1 THEN 12 ELSE 8, gsiBase |-> 0, answers |-> {}]
IOApic(base, answers) == [Item(1) EXCEPT !.gsiBase = base, !.answers = answers]
Says(e, n) == [e EXCEPT !.size = n]

Items == {<<Item(0), IOApic(0, {5}), Item(2), Item(0), Item(4)>>,
          <<IOApic(2, {1, 3}), Item(9), IOApic(0, {1}), Item(0), Item(5)>>,
          <<Item(0), IOApic(0, {2, 4}), Item(0), IOApic(3, {1})>>,
          <<IOApic(0, {0})>>,
          <<IOApic(0, {3}), IOApic(2, {7})>>,
          <<Item(0), Says(Item(9), 0), IOApic(0, {3})>>,
          <<Says(Item(0), 0), IOApic(0, {3})>>,
          <<Item(0), Says(Item(2), 1), IOApic(0, {3})>>,
          <<Item(0), Item(0), Item(0), Item(0), IOApic(0, {3})>>}

(* The items one behind the other. *)
Bytes(items) == FoldLeft(LAMBDA sum, e : sum + e.bytes, 0, items)
Laid(items) ==
  [k \in DOMAIN items |->
     [type |-> items[k].type, at |-> Bytes(SubSeq(items, 1, k - 1)),
      size |-> items[k].size, gsiBase |-> items[k].gsiBase, answers |-> items[k].answers]]

F(kind) == [kind |-> kind, secondary |-> 0, multi |-> FALSE]
Multi(kind) == [F(kind) EXCEPT !.multi = TRUE]
To(bus) == [F("bridge") EXCEPT !.secondary = bus]

Bus(b, d, f) == Place(b, d, f)
Pcis == {(Bus(0, 0, 0) :> F("other") @@ Bus(0, 1, 0) :> F("ahci")),
         (Bus(0, 0, 0) :> Multi("other") @@ Bus(0, 0, 1) :> F("ahci")
             @@ Bus(0, 1, 0) :> To(1) @@ Bus(1, 0, 0) :> F("ahci")
             @@ Bus(1, 0, 1) :> F("ahci")),
         (Bus(0, 0, 0) :> [To(1) EXCEPT !.multi = TRUE] @@ Bus(0, 0, 1) :> To(2)
             @@ Bus(1, 1, 0) :> F("ahci") @@ Bus(2, 0, 1) :> F("other")
             @@ Bus(2, 1, 0) :> F("other")),
         (Bus(0, 1, 0) :> To(1) @@ Bus(1, 0, 0) :> To(2)
             @@ Bus(2, 0, 0) :> F("ahci") @@ Bus(3, 0, 0) :> F("other")),
         (Bus(0, 0, 0) :> F("ahci") @@ Bus(0, 1, 0) :> To(0)),
         (Bus(0, 0, 0) :> To(1) @@ Bus(0, 1, 0) :> To(1) @@ Bus(1, 0, 0) :> F("ahci")),
         (Bus(0, 0, 0) :> Multi("other") @@ Bus(0, 0, 1) :> F("other")
             @@ Bus(0, 1, 0) :> Multi("other") @@ Bus(0, 1, 1) :> F("ahci")),
         (Bus(0, 0, 0) :> F("ahci") @@ Bus(0, 1, 0) :> F("vendor")),
         (Bus(0, 0, 0) :> F("other"))}

Roots == {<<"xsdt", {"HPET", "APIC"}>>, <<"rsdt", {"HPET", "APIC"}>>,
          <<"stale", {"HPET", "APIC"}>>, <<"none", {}>>,
          <<"rsdt", {"APIC"}>>, <<"xsdt", {"HPET"}>>}

MCMachines == {[root |-> r[1], tables |-> r[2], madt |-> Laid(m), length |-> Bytes(m),
                pci |-> p] : r \in Roots, m \in Items, p \in Pcis}
=============================================================================
