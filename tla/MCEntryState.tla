----------------------------- MODULE MCEntryState -----------------------------
(***************************************************************************)
(* Machines and processors for EntryState: one ordinary machine of each    *)
(* build, and variations of it in one respect each.  Tables have two       *)
(* entries, so that 2^23 bytes are mapped by four large pages.             *)
(***************************************************************************)
EXTENDS EntryState

Allow(w, low) == [low |-> low \cup {"default1"}, high |-> Defined[w] \cup {"default1"}]

CR3_EXITING == {"CR3_LOAD_EXITING", "CR3_STORE_EXITING"}

FixedControls ==
    [Pin |-> Allow("Pin", {}), Primary |-> Allow("Primary", CR3_EXITING),
     Secondary |-> [low |-> {}, high |-> SECONDARY_CONTROLS_DEFINED],
     Exit |-> Allow("Exit", {"DEBUG_CONTROLS"}),
     Entry |-> Allow("Entry", {"DEBUG_CONTROLS"})]

(* The TRUE registers let more of the controls be zero. *)
TrueControls ==
    [w \in Words \ {"Secondary"} |->
        [low |-> IF w = "Primary" THEN {} ELSE {"default1"}, high |-> FixedControls[w].high]]

Mtrr(valid, base, mask, type) == [valid |-> valid, base |-> base, mask |-> mask, type |-> type]

(* The first half write-back, 2 MB of the second write-through with a base   *)
(* that has a bit outside the mask, an unused one, a small uncacheable one,  *)
(* and one that a 32-bit word holds.                                         *)
Mtrrs ==
    <<Mtrr(TRUE, {}, {22}, "WRITE_BACK"), Mtrr(TRUE, {22, 13}, {22, 21}, "WRITE_THROUGH"),
      Mtrr(FALSE, {}, {}, "UNCACHEABLE"), Mtrr(TRUE, {22, 21, 12}, 12 .. 22, "UNCACHEABLE"),
      Mtrr(TRUE, {21, 13}, {22, 21}, "UNCACHEABLE")>>

Ordinary(x64) ==
    [x64 |-> x64, vmx |-> TRUE, locked |-> TRUE, rdtscp |-> x64, trueCtls |-> TRUE,
     fixed |-> FixedControls, trueFixed |-> TrueControls, cap |-> EPT_CAPABILITIES,
     mtrrEnabled |-> TRUE, mtrrs |-> Mtrrs, mtrrDefault |-> "UNCACHEABLE",
     phys |-> [p \in RegionPages |-> 20 - 3 * p]]

WithSecondary(m, high) == [m EXCEPT !.fixed.Secondary.high = high]

WithoutSecondary(m) ==
    LET high == (Defined.Primary \ {"SECONDARY_CONTROLS"}) \cup {"default1"}
    IN  [m EXCEPT !.fixed.Primary.high = high, !.trueFixed.Primary.high = high, !.cap = {}]

Variations(m) ==
    {m, [m EXCEPT !.vmx = FALSE], [m EXCEPT !.locked = FALSE],
     [m EXCEPT !.trueCtls = FALSE], [m EXCEPT !.rdtscp = ~@],
     [m EXCEPT !.cap = {}],
     [m EXCEPT !.mtrrEnabled = FALSE], [m EXCEPT !.mtrrs = << >>],
     [m EXCEPT !.mtrrDefault = "WRITE_BACK"],
     [m EXCEPT !.mtrrs = <<Mtrr(TRUE, {}, {}, "UNCACHEABLE")>>],
     [m EXCEPT !.phys = [p \in RegionPages |-> 100 + p]],
     WithSecondary([m EXCEPT !.cap = {}], {"ENABLE_VPID", "WBINVD_EXITING"}),
     WithSecondary([m EXCEPT !.cap = {}], {"WBINVD_EXITING"}),
     WithSecondary(m, {"ENABLE_EPT", "ENABLE_RDTSCP"}),
     WithoutSecondary(m)}

MCMachines == Variations(Ordinary(TRUE)) \cup Variations(Ordinary(FALSE))

-----------------------------------------------------------------------------

Code(base) == [system |-> FALSE, base |-> base, limit |-> 15, ar |-> 155, lowDword |-> 9]
System(base) == [system |-> TRUE, base |-> base, limit |-> 103, ar |-> 139, lowDword |-> 8]
NullSlot == [system |-> TRUE, base |-> 0, limit |-> 0, ar |-> 0, lowDword |-> 0]

(* Slot 1 code, 2 data, 3 another segment, 4 and 5 a system descriptor, of   *)
(* which 5 is the second half on x64.                                        *)
MCGdt == [i \in 0 .. 5 |->
            CASE i = 0 -> NullSlot
              [] i \in {1, 2, 5} -> Code(0)
              [] i = 3 -> Code(7)
              [] i = 4 -> System(5)]

(* ds, fs and ldt are the selectors loaded there. *)
Cpu(x64, ds, fs, ldt, msr) ==
    LET base(selector) == MCGdt[selector \div 8].base
    IN  [x64 |-> x64, gdt |-> MCGdt, fsBaseMsr |-> msr,
         selector |-> [s \in SegmentNames |->
                         CASE s = "CS" -> 8 [] s \in {"ES", "DS"} -> ds
                           [] s = "SS" -> 16 [] s = "FS" -> fs [] s = "GS" -> 19
                           [] s = "LDTR" -> ldt [] s = "TR" -> 32],
         fsBase |-> <<base(fs), IF x64 THEN 3 ELSE 0>>,
         gsBase |-> <<base(19), IF x64 THEN 4 ELSE 0>>,
         raw |-> [CR0_READ_SHADOW |-> "CR0 before", CR4_READ_SHADOW |-> "CR4 before"],
         system |-> [r \in SharedRegisters \cup GuestRegisters |-> r]]

MCCpus ==
    {Cpu(TRUE, 19, 27, 0, TRUE), Cpu(TRUE, 0, 3, 0, TRUE), Cpu(TRUE, 16, 27, 32, TRUE),
     Cpu(FALSE, 19, 27, 0, TRUE), Cpu(FALSE, 16, 27, 32, TRUE), Cpu(FALSE, 19, 27, 0, FALSE)}
=============================================================================
