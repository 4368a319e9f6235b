----------------------------- MODULE ControlBlock -----------------------------
(***************************************************************************)
(* __vmx_prepare_csb (vmx.c): the VMX control words, the MSR bitmap and    *)
(* the EPT map of a machine, computed once, by the worker, before any      *)
(* processor is launched.                                                  *)
(*                                                                         *)
(* A control word is the set of its controls that are 1; the bits vmx.h    *)
(* gives no name to are the one control "default1".  A machine is what the *)
(* processor's MSRs and CPUID say, chosen in Init.  RDMSR of a register    *)
(* the processor does not have, and a null pointer, stop the machine       *)
(* (phase "fault").                                                        *)
(***************************************************************************)
EXTENDS MemoryMap, Sequences

CONSTANT Machines

VARIABLES
    phase,
    machine,        \* x64, vmx, locked, rdtscp, trueCtls, fixed, trueFixed, cap,
                    \* mtrrEnabled, mtrrs, mtrrDefault, phys
    fixed,          \* Controls.PinFixed ...: [low, high] of each word
    word,           \* Controls.Pin ...
    msrBitmap,      \* the bits set in Region.MsrBitmap
    ranges,         \* RangeInfo->Ranges
    ept,            \* Region.Pml4e, Pdpte, Pde
    status

csbVars == <<phase, machine, fixed, word, msrBitmap, ranges, ept, status>>

-----------------------------------------------------------------------------
(* The controls that vmx.h names                                           *)

Words == {"Pin", "Primary", "Secondary", "Exit", "Entry"}

PIN_CONTROLS_DEFINED ==
    {"EXT_INTERRUPT_EXITING", "NMI_EXITING", "VIRTUAL_NMIS", "VMX_TIMER_EXITING"}

PRIMARY_CONTROLS_DEFINED ==
    {"INTERRUPT_WINDOW_EXITING", "USE_TSC_OFFSETTING", "HLT_EXITING", "INVLPG_EXITING",
     "MWAIT_EXITING", "RDPMC_EXITING", "RDTSC_EXITING", "CR3_LOAD_EXITING",
     "CR3_STORE_EXITING", "CR8_LOAD_EXITING", "CR8_STORE_EXITING", "USE_TPR_SHADOW",
     "NMI_WINDOW_EXITING", "DR_EXITING", "IO_EXITING", "IO_BITMAP_ACTIVE",
     "MONITOR_TRAP_FLAG", "MSR_BITMAP_ACTIVE", "MONITOR_EXITING", "PAUSE_EXITING",
     "SECONDARY_CONTROLS"}

SECONDARY_CONTROLS_DEFINED ==
    {"VIRTUALIZE_APIC_ACCESSES", "ENABLE_EPT", "DESCTAB_EXITING", "ENABLE_RDTSCP",
     "VIRTUALIZE_X2APIC", "ENABLE_VPID", "WBINVD_EXITING", "UNRESTRICTED_GUEST",
     "PAUSE_LOOP_EXITING"}

(* DEBUG_CONTROLS is 0x4 and ADDRESS_SPACE 0x200 in either word; the code    *)
(* uses the entry word's name for the exit word's bit and the reverse.       *)
EXIT_CONTROLS_DEFINED ==
    {"DEBUG_CONTROLS", "ADDRESS_SPACE", "LOAD_PERF_GLOBAL_CTRL", "ACKNOWLEDGE_INTERRUPT",
     "SAVE_PAT", "LOAD_PAT", "SAVE_EFER", "LOAD_EFER", "SAVE_VMX_TIMER"}

ENTRY_CONTROLS_DEFINED ==
    {"DEBUG_CONTROLS", "ADDRESS_SPACE", "ENTRY_TO_SMM", "TEAR_DOWN_SMM_MONITOR",
     "LOAD_PERF_GLOBAL_CTRL", "LOAD_PAT", "LOAD_EFER"}

Defined ==
    [Pin |-> PIN_CONTROLS_DEFINED, Primary |-> PRIMARY_CONTROLS_DEFINED,
     Secondary |-> SECONDARY_CONTROLS_DEFINED, Exit |-> EXIT_CONTROLS_DEFINED,
     Entry |-> ENTRY_CONTROLS_DEFINED]

-----------------------------------------------------------------------------
(* The MSR bitmap: an MSR is <<half, index>>, the high half being            *)
(* 0xc0000000 .. 0xc0001fff.                                                 *)

MsrHalves == {"low", "high"}
MsrIndexes == 0 .. 8191
Msrs == MsrHalves \X MsrIndexes

IA32_FEATURE_CONTROL == <<"low", 58>>
IA32_SYSENTER_CS == <<"low", 372>>
IA32_SYSENTER_ESP == <<"low", 373>>
IA32_SYSENTER_EIP == <<"low", 374>>
IA32_DEBUGCTL == <<"low", 473>>
IA32_FS_BASE == <<"high", 256>>
IA32_GS_BASE == <<"high", 257>>

(* The bits of the page. *)
BitmapBits == {b \in Nat : b < 32768}

BitOf(byte, msr) == 8 * (byte + (msr[2] \div 8)) + (msr[2] % 8)

EnableMsrRead(msr) == {BitOf(IF msr[1] = "high" THEN 1024 ELSE 0, msr)}

HighWritesLow(msr) == {BitOf(2048, msr)}
OffsetsDoubled(msr) == {BitOf(IF msr[1] = "high" THEN 6144 ELSE 4096, msr)}

EnableMsrWrite(msr) == {BitOf(IF msr[1] = "high" THEN 3072 ELSE 2048, msr)}

EnableMsr(msr) == EnableMsrRead(msr) \cup EnableMsrWrite(msr)

EnabledMsrs ==
    {IA32_DEBUGCTL, IA32_SYSENTER_CS, IA32_SYSENTER_ESP, IA32_SYSENTER_EIP,
     IA32_FS_BASE, IA32_GS_BASE, IA32_FEATURE_CONTROL}

(* Where the processor looks. *)
ReadExits(bitmap, msr) == (IF msr[1] = "high" THEN 8192 ELSE 0) + msr[2] \in bitmap
WriteExits(bitmap, msr) == (IF msr[1] = "high" THEN 24576 ELSE 16384) + msr[2] \in bitmap

(* A processor that has EPT lets it be enabled; a setting it requires is one *)
(* it allows, and what the older registers require the TRUE ones allow.  No  *)
(* secondary control is required.  One that runs a 64-bit kernel may keep 64 *)
(* bits across exits and entries, one that runs a 32-bit kernel need not.    *)
(* The sizes of memory ranges are powers of two, and the pages of the region *)
(* are at different addresses.                                               *)
ASSUME MachinesAssumption ==
    \A m \in Machines :
        LET Reported(w) == IF m.trueCtls THEN m.trueFixed[w] ELSE m.fixed[w]
        IN  /\ \A w \in Words :
                 /\ m.fixed[w].low \subseteq m.fixed[w].high
                 /\ m.fixed[w].high \subseteq Defined[w] \cup {"default1"}
            /\ \A w \in Words \ {"Secondary"} :
                 /\ m.trueFixed[w].low \cup m.fixed[w].low \subseteq m.trueFixed[w].high
                 /\ m.trueFixed[w].high \subseteq Defined[w] \cup {"default1"}
            /\ m.cap # {} => /\ "SECONDARY_CONTROLS" \in Reported("Primary").high
                             /\ "ENABLE_EPT" \in m.fixed.Secondary.high
            /\ m.fixed.Secondary.low = {}
            /\ m.x64 => \A w \in {"Exit", "Entry"} : "ADDRESS_SPACE" \in Reported(w).high
            /\ ~m.x64 => \A w \in {"Exit", "Entry"} : "ADDRESS_SPACE" \notin Reported(w).low
            /\ \A r \in DOMAIN m.mtrrs : m.mtrrs[r].valid => PowerOfTwoSized(m.mtrrs[r])
            /\ m.trueCtls \in BOOLEAN /\ m.x64 \in BOOLEAN
            /\ \A p \in RegionPages : m.phys[p] \in Nat
            /\ \A p, q \in RegionPages : m.phys[p] = m.phys[q] => p = q

-----------------------------------------------------------------------------
(* The steps                                                               *)

Zero == [low |-> {}, high |-> {}]

NoMap == [Pde |-> << >>, Pdpte |-> << >>, Pml4e |-> 0]

CsbInit ==
    /\ machine \in Machines
    /\ phase = "cpuid"
    /\ fixed = [w \in Words |-> Zero]
    /\ word = [w \in Words |-> {}]
    /\ msrBitmap = {}
    /\ ranges = << >>
    /\ ept = NoMap
    /\ status = "STATUS_SUCCESS"

Refuse ==
    /\ phase' = "failed"
    /\ status' = "STATUS_UNSUCCESSFUL"
    /\ UNCHANGED <<machine, fixed, word, msrBitmap, ranges, ept>>

(* ReadCpuFeature, IA32_FEATURE_CONTROL, and the bitmap. *)
ReadFeatures ==
    /\ phase = "cpuid"
    /\ IF machine.vmx /\ machine.locked
       THEN /\ msrBitmap' = UNION {EnableMsr(m) : m \in EnabledMsrs}
            /\ phase' = "fixed"
            /\ UNCHANGED <<machine, fixed, word, ranges, ept, status>>
       ELSE Refuse

DefaultsKept(trueFixed, fixed1, defined) == trueFixed.low \cup fixed1.low

(* PinFixed.LowPart |= __ins_readmsr(IA32_VMX_PINBASED_CTLS) & ~DEFINED *)
LowPart(trueFixed, fixed1, defined) == trueFixed.low \cup (fixed1.low \ defined)

(* Words other than the secondary have a second MSR if bit 55 of BaseInfo is *)
(* set.                                                                      *)
FixedOf(w) ==
    IF machine.trueCtls
    THEN [low |-> LowPart(machine.trueFixed[w], machine.fixed[w], Defined[w]),
          high |-> machine.trueFixed[w].high]
    ELSE machine.fixed[w]

ReadFixedControls ==
    /\ phase = "fixed"
    /\ fixed' = [w \in Words |->
                    IF w # "Secondary" THEN FixedOf(w)
                    ELSE IF "SECONDARY_CONTROLS" \in FixedOf("Primary").high
                    THEN machine.fixed.Secondary
                    ELSE Zero]
    /\ phase' = "memory"
    /\ UNCHANGED <<machine, word, msrBitmap, ranges, ept, status>>

EPT_CAPABILITIES == {"EPT_CAP_GAW48", "EPT_CAP_WB", "EPT_CAP_SP2M"}

(* IA32_VMX_EPT_VPID_CAP exists where EPT or VPID can be enabled. *)
HasEptVpidCap ==
    /\ "SECONDARY_CONTROLS" \in FixedOf("Primary").high
    /\ machine.fixed.Secondary.high \cap {"ENABLE_EPT", "ENABLE_VPID"} # {}

EptCapable == HasEptVpidCap /\ EPT_CAPABILITIES \subseteq machine.cap

(* __vmx_prepare_mtrr and __vmx_prepare_ept. *)
MapMemory ==
    /\ phase = "memory"
    /\ EptCapable /\ MtrrUsable(machine)
    /\ ranges' = Ranges(machine.mtrrs, machine.x64)
    /\ ept' = PrepareEpt(ranges', machine.phys)
    /\ phase' = "words"
    /\ UNCHANGED <<machine, fixed, word, msrBitmap, status>>

NoDatabaseIgnored ==
    /\ phase = "memory"
    /\ EptCapable /\ ~MtrrUsable(machine)
    /\ phase' = "words"
    /\ UNCHANGED <<machine, fixed, word, msrBitmap, ranges, ept, status>>

NoDatabase ==
    /\ phase = "memory"
    /\ EptCapable /\ ~MtrrUsable(machine)
    /\ status' = "STATUS_NOT_SUPPORTED"
    /\ phase' = "words"
    /\ UNCHANGED <<machine, fixed, word, msrBitmap, ranges, ept>>

NoEpt ==
    /\ phase = "memory"
    /\ HasEptVpidCap /\ ~EptCapable
    /\ phase' = "words"
    /\ UNCHANGED <<machine, fixed, word, msrBitmap, ranges, ept, status>>

(* The MSR does not exist, or __malloc finds no room for the database.       *)
MemoryFault ==
    /\ phase = "memory"
    /\ HasEptVpidCap => EptCapable /\ MtrrUsable(machine)
    /\ phase' = "fault"
    /\ UNCHANGED <<machine, fixed, word, msrBitmap, ranges, ept, status>>

Unclipped(wish, f) == wish \cup f.low

(* &= HighPart, |= LowPart *)
Fit(wish, f) == (wish \cap f.high) \cup f.low

EptReady == ept # NoMap

Wish ==
    [Pin |-> {},
     Primary |-> {"DR_EXITING", "MSR_BITMAP_ACTIVE", "SECONDARY_CONTROLS"},
     Secondary |-> (IF machine.rdtscp THEN {"ENABLE_RDTSCP"} ELSE {})
                     \cup (IF EptReady THEN {"ENABLE_EPT", "ENABLE_VPID"} ELSE {}),
     Exit |-> {"DEBUG_CONTROLS"} \cup (IF machine.x64 THEN {"ADDRESS_SPACE"} ELSE {}),
     Entry |-> {"DEBUG_CONTROLS"} \cup (IF machine.x64 THEN {"ADDRESS_SPACE"} ELSE {})]

(* A database that could not be had is the function's result, though the     *)
(* controls are computed without EPT.                                        *)
ComputeWords ==
    /\ phase = "words"
    /\ word' = [w \in Words |-> Fit(Wish[w], fixed[w])]
    /\ phase' = IF status = "STATUS_SUCCESS" THEN "prepared" ELSE "failed"
    /\ UNCHANGED <<machine, fixed, msrBitmap, ranges, ept, status>>

CsbNext ==
    \/ ReadFeatures \/ ReadFixedControls
    \/ MapMemory \/ NoDatabase \/ NoEpt \/ MemoryFault
    \/ ComputeWords

CsbSpec == CsbInit /\ [][CsbNext]_csbVars

(* __vmx_prepare_csb has returned success. *)
Prepared == phase \notin {"cpuid", "fixed", "memory", "words", "failed", "fault"}

-----------------------------------------------------------------------------
(* What the control block must be                                          *)

(* Every control word keeps the processor's required settings (of the TRUE  *)
(* registers where there are any) and asks for nothing that is not allowed,  *)
(* and secondary controls are asked for only with the bit that makes the     *)
(* processor look at them: vmlaunch checks all three (vmx.c 385-489).        *)
ControlWordsLegal ==
    Prepared =>
        LET Required(w) ==
                IF machine.trueCtls /\ w # "Secondary" THEN machine.trueFixed[w]
                ELSE machine.fixed[w]
            used == IF "SECONDARY_CONTROLS" \in word.Primary THEN Words
                    ELSE Words \ {"Secondary"}
        IN  /\ \A w \in used : /\ Required(w).low \subseteq word[w]
                               /\ word[w] \subseteq Required(w).high
            /\ "Secondary" \notin used => word.Secondary = {}

(* With TRUE registers no control that vmx.h names is on unless the driver   *)
(* wishes it or the processor insists: in particular no exits on loads of    *)
(* CR3, for which __vm_cr_access is not fit.                                 *)
OnlyWishedControls ==
    Prepared /\ machine.trueCtls =>
        \A w \in Words \ {"Secondary"} :
            word[w] \cap Defined[w] \subseteq Wish[w] \cup machine.trueFixed[w].low

(* RDMSR and WRMSR exit exactly for the MSRs that EnableMsr is called for:   *)
(* of the 16384 that the bitmap covers no two share a bit, and each is where *)
(* the processor looks for it (vmx.h 1871-1886).                             *)
ExitsAreEnabled ==
    \A m \in Msrs : /\ ReadExits(msrBitmap, m) <=> m \in EnabledMsrs
                    /\ WriteExits(msrBitmap, m) <=> m \in EnabledMsrs

(* The same of the bitmap as __vmx_prepare_csb leaves it.                    *)
BitmapIsExact == phase = "prepared" => ExitsAreEnabled

(* The tables map every large page to itself, through three levels of        *)
(* physical addresses.                                                       *)
EptMapIsIdentity ==
    Prepared /\ EptReady =>
        \A i, j \in Entries :
            Walk(ept, machine.phys, machine.phys[Pml4ePage], i, j).PageFrameNumber
                = (i * PerPage + j) * LargePage

(* What an MTRR matches begins below 4 GB, and its mask has a bit there.     *)
Below4GB(mtrr) ==
    /\ mtrr.mask \cap WordBits(FALSE) # {}
    /\ mtrr.base \cap mtrr.mask \subseteq WordBits(FALSE)

(* Each range of the database holds the addresses its MTRR matches, whatever *)
(* the bits of its base outside the mask (vmx.c 128-150): on x64 every       *)
(* range, on x86 the ones that are Below4GB.                                 *)
RangesAreTheMtrrs ==
    Prepared /\ EptReady =>
        \A r \in DOMAIN ranges : \A page \in 0 .. 2 ^ (MtrrMaxRangeShift - PageShift) - 1 :
            LET address == page * 2 ^ PageShift
                mtrr == machine.mtrrs[r]
            IN  mtrr.valid /\ (machine.x64 \/ Below4GB(mtrr)) =>
                    (address \in ranges[r].Base .. ranges[r].Limit <=> Matches(mtrr, address))

(* vmx.h 1743 calls the database the "Current ranges as set into h/w": no    *)
(* build puts memory into a range that the range's MTRR does not match.      *)
RangesAsSetIntoHardware ==
    Prepared /\ EptReady =>
        \A r \in DOMAIN ranges : \A page \in 0 .. 2 ^ (MtrrMaxRangeShift - PageShift) - 1 :
            LET address == page * 2 ^ PageShift
            IN  machine.mtrrs[r].valid /\ address \in ranges[r].Base .. ranges[r].Limit =>
                    Matches(machine.mtrrs[r], address)

(* A processor with the capabilities runs its guest with EPT, or the driver  *)
(* gives up before it launches one.                                          *)
EptOrNothing ==
    Prepared =>
        (EPT_CAPABILITIES \subseteq machine.cap
            <=> EptReady /\ "ENABLE_EPT" \in word.Secondary)

(* vmx.h 1743 calls the database the "Current ranges as set into h/w" and    *)
(* 1830 bits 5:3 of the entry the "EPT Memory type": a large page wholly     *)
(* inside one range has that range's type.                                   *)
LargePageHasRangeType ==
    Prepared /\ EptReady =>
        \A k \in LargePages, r \in DOMAIN ranges :
            LET first == k * LargePage * 2 ^ PageShift
                last == (k + 1) * LargePage * 2 ^ PageShift - 1
                Overlaps(q) == machine.mtrrs[q].valid
                                /\ ranges[q].Base <= last /\ first <= ranges[q].Limit
            IN  (/\ machine.mtrrs[r].valid
                 /\ ranges[r].Base <= first /\ last <= ranges[r].Limit
                 /\ \A q \in DOMAIN ranges : Overlaps(q) => q = r)
                => ept.Pde[k].Type = ranges[r].Type
=============================================================================
