------------------------------ MODULE MCVmExit ------------------------------
(* VmExit on a few registers: DR1 for those without a second name, both     *)
(* names of DR6 and DR7, an MSR of each case of the handlers, a missing one. *)
(* The handlers of the two kinds share the general registers and nothing    *)
(* else, so that only one kind is changed in a behaviour (OneKind).         *)
EXTENDS VmExit

MCDrNumbers == {1, 4, 5, 6, 7}

MCMsrs == {"IA32_SYSENTER_ESP", "IA32_FEATURE_CONTROL", "outside the bitmap", "missing"}

MCWords == {{}, {"GD"}, {"bit 0"}}

MCRefused == {"IA32_SYSENTER_ESP", "outside the bitmap", "XCR0"}
                 \X {<<{"bit 0"}, {"bit 0"}>>}

(* Hardware with VMX, and a leaf without one bit set. *)
MCCpuInfos == {[r \in CpuidRegs |-> IF r = ECX THEN {"VMX"} ELSE {"bit 0"}],
               [r \in CpuidRegs |-> {}]}
OneKind ==
    \/ \A n \in DrNames : dr[n] = {}
    \/ \A m \in Msrs \cup Xcrs :
          (IF m \in InVmcs THEN field[m] ELSE hwMsr[m]) \in {Zero, <<{"FC_LOCKED"}, {}>>}
=============================================================================
