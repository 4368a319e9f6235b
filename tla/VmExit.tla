------------------------------- MODULE VmExit -------------------------------
(***************************************************************************)
(* A VM exit on one processor: __vmx_trap saves the guest's registers into *)
(* the frame HOST_RSP points to, __vm_exit_dispatch calls the handler of   *)
(* the exit reason, moves GUEST_RIP past the instruction and               *)
(* RestoreRegisters ends in vmresume (VmxHandler.c, InsAMD64.asm,          *)
(* InsI386.asm).  The frame, the VMCS and the TSB belong to the processor  *)
(* and the handlers touch nothing shared, so one processor is modelled and *)
(* an action is one whole exit, or one instruction that does not exit.     *)
(*                                                                         *)
(* A word is a set of bit names.  The guest's debug registers 0-3 and 6    *)
(* are the processor's, register 7 is GUEST_DR7.  The Dr slots of the      *)
(* frame are written before they are read in every exit and are not kept.  *)
(***************************************************************************)
EXTENDS VmxFlags

CONSTANTS
    Operands,       \* general registers the guest uses as operands of MOV DR
    DrNumbers,      \* debug registers the guest names
    Msrs,           \* MSRs the guest names and whose accesses exit
    Missing,        \* those of them that the processor does not have
    Xcrs,           \* extended control registers, which XSETBV writes
    Refused,        \* <<register, value>>: what WRMSR and XSETBV do not take
    CpuInfos,       \* what CPUID may answer, a word for each of four registers
    Words,          \* words a register holds at the start
    Lengths,        \* lengths of the intercepted instructions
    RipModulus      \* RIP wraps at this value

EAX == 0
ECX == 1
EDX == 2
EBX == 3

CpuidRegs == {EAX, EBX, ECX, EDX}

GpRegs == Operands \cup CpuidRegs

FEATURE_CONTROL == "IA32_FEATURE_CONTROL"

(* The MSRs that the processor keeps in the VMCS while the guest runs.       *)
InVmcs == {"IA32_DEBUGCTL", "IA32_SYSENTER_CS", "IA32_SYSENTER_ESP",
           "IA32_SYSENTER_EIP", "IA32_FS_BASE", "IA32_GS_BASE"}

ASSUME OperandsAssumption == Operands \subseteq 0 .. 15
ASSUME DrNumbersAssumption == DrNumbers \subseteq 0 .. 7
ASSUME MsrsAssumption == Xcrs \cap (Msrs \cup InVmcs \cup {FEATURE_CONTROL}) = {}
ASSUME MissingAssumption == Missing \cap (InVmcs \cup {FEATURE_CONTROL}) = {}
ASSUME CpuidAssumption ==
    CpuInfos \subseteq [CpuidRegs -> SUBSET ((UNION Words) \cup {"VMX"})]
ASSUME RipAssumption == RipModulus \in Nat \ {0} /\ Lengths \subseteq Nat \ {0}

FirstSlot == 0

RSP == 4            \* Registers.Reg[4] is the saved RSP of __vmx_trap

(* &Tsb->Registers, what HOST_RSP gives __vmx_trap for a stack pointer. *)
HostFrame == {"&Tsb->Registers"}

DrNames == {0, 1, 2, 3, 6, 7}

VARIABLES
    rip,            \* GUEST_RIP
    gpr,            \* the guest's general registers; RSP is GUEST_RSP
    cr4,            \* the guest's CR4
    cpl,            \* the guest's privilege level, 0 or 3
    frameCr4,       \* Registers.Cr4 in the frame, captured at launch
    dr,             \* the guest's debug registers
    field,          \* MSRs that have a guest-state field in the VMCS
    hwMsr,          \* MSRs, and XCRs, in the processor while the monitor runs;
                    \* a value is a pair, low word and high word
    vmxFlags,       \* ZF and CF after the guest's last VMX instruction
    event,          \* the exception injected by the last entry
    hostRsp,        \* what RestoreRegisters loads into RSP
    lost            \* the monitor will not get back to the guest

vars == <<rip, gpr, cr4, cpl, frameCr4, dr, field, hwMsr, vmxFlags, event, hostRsp, lost>>

Zero == <<{}, {}>>

Init ==
    /\ rip = 0
    /\ gpr \in [GpRegs -> Words]
    /\ cr4 \in {{}, {"DE"}}
    /\ cpl = 0
    /\ frameCr4 = cr4
    /\ dr = [n \in DrNames |-> {}]
    /\ field = [m \in Msrs |-> Zero]
    /\ hwMsr = [m \in Msrs \cup Xcrs |->
                 IF m = FEATURE_CONTROL THEN <<{"FC_LOCKED"}, {}>> ELSE Zero]
    /\ vmxFlags = VMsucceed
    /\ event = "none"
    /\ hostRsp = HostFrame
    /\ lost = FALSE

-----------------------------------------------------------------------------
(* The way in and out                                                      *)

(* The guest runs.  RestoreRegisters pushes the address of vmresume through  *)
(* the RSP it has loaded: below the frame is the monitor's stack; a word    *)
(* from the guest is no stack, and the processor does not get to vmresume.  *)
InGuest == hostRsp = HostFrame /\ ~lost

(* __vm_exit_dispatch adds the instruction length to GUEST_RIP when the     *)
(* handler is done; __inject_exception has set the event, if any.           *)
Resume(length, injected) ==
    /\ rip' = (rip + length) % RipModulus
    /\ event' = injected

(* Registers.Reg[r] as a handler reads and writes it. *)
FrameReg(r) == IF r = RSP THEN HostFrame ELSE gpr[r]

SetFrameReg(r, w) ==
    /\ gpr' = IF r = RSP THEN gpr ELSE [gpr EXCEPT ![r] = w]
    /\ hostRsp' = IF r = RSP THEN w ELSE hostRsp

-----------------------------------------------------------------------------
(* __vm_dr_access.  A MOV DR exits before the processor looks at the        *)
(* privilege level or at CR4.DE, and the handler looks at the latter only.  *)

GeneralDetect == "GD" \in dr[7]

(* DR6 and GUEST_DR7 after the general-detect fault. *)
DetectAccess(regs) == [regs EXCEPT ![6] = @ \cup {"BD"}, ![7] = @ \ {"GD"}]

GeneralDetectFault ==
    /\ InGuest
    /\ GeneralDetect
    /\ dr' = DetectAccess(dr)
    /\ Resume(0, "#DB")
    /\ UNCHANGED <<gpr, cr4, cpl, frameCr4, field, hwMsr, vmxFlags, hostRsp, lost>>

(* The test for debug extensions looks at Registers.Cr4. *)
Undefined(n) == n \in {4, 5} /\ "DE" \in frameCr4

UndefinedRegisterFault(n) ==
    /\ InGuest
    /\ ~GeneralDetect /\ Undefined(n)
    /\ Resume(0, "#UD")
    /\ UNCHANGED <<gpr, cr4, cpl, frameCr4, dr, field, hwMsr, vmxFlags, hostRsp, lost>>

(* Qualification.DR.Number += 2 *)
Number(n) == IF n \in {4, 5} THEN n + 2 ELSE n

MovFromDr(n, r, len) ==
    /\ InGuest
    /\ ~GeneralDetect /\ ~Undefined(n)
    /\ SetFrameReg(r, dr[Number(n)])
    /\ Resume(len, "none")
    /\ UNCHANGED <<cr4, cpl, frameCr4, dr, field, hwMsr, vmxFlags, lost>>

MovToDr(n, r, len) ==
    /\ InGuest
    /\ ~GeneralDetect /\ ~Undefined(n)
    /\ dr' = [dr EXCEPT ![Number(n)] = FrameReg(r)]
    /\ Resume(len, "none")
    /\ UNCHANGED <<gpr, cr4, cpl, frameCr4, field, hwMsr, vmxFlags, hostRsp, lost>>

-----------------------------------------------------------------------------
(* __vm_msr_read, __vm_msr_write and __vm_xsetbv; the parameter is ECX.    *)
(* In user programs these fault before they exit.                          *)

EdxEax == <<FrameReg(EAX), FrameReg(EDX)>>

(* The cases of __vm_msr_read that read a field of the VMCS. *)
ReadCases == {"IA32_DEBUGCTL", "IA32_SYSENTER_CS", "IA32_SYSENTER_ESP",
              "IA32_SYSENTER_EIP", "IA32_FS_BASE", "IA32_GS_BASE"}

ReadValue(m) ==
    IF m \in ReadCases THEN field[m]
    ELSE IF m = FEATURE_CONTROL THEN <<hwMsr[m][1] \ {"FC_LOCKED"}, hwMsr[m][2]>>
    ELSE hwMsr[m]

MsrRead(m, len) ==
    /\ InGuest /\ cpl = 0 /\ m \notin Missing
    /\ gpr' = [gpr EXCEPT ![EAX] = ReadValue(m)[1], ![EDX] = ReadValue(m)[2]]
    /\ Resume(len, "none")
    /\ UNCHANGED <<cr4, cpl, frameCr4, dr, field, hwMsr, vmxFlags, hostRsp, lost>>

EspCaseMissing == {"IA32_DEBUGCTL", "IA32_SYSENTER_CS", "IA32_SYSENTER_EIP",
                   "IA32_FS_BASE", "IA32_GS_BASE"}

(* The cases of __vm_msr_write that write a field of the VMCS. *)
WriteCases == {"IA32_DEBUGCTL", "IA32_SYSENTER_CS", "IA32_SYSENTER_ESP",
               "IA32_SYSENTER_EIP", "IA32_FS_BASE", "IA32_GS_BASE"}

WriteField(m) == field' = IF m \in WriteCases THEN [field EXCEPT ![m] = EdxEax] ELSE field

Taken(m) == m \notin Missing /\ <<m, EdxEax>> \notin Refused

MsrWrite(m, len) ==
    /\ InGuest /\ cpl = 0 /\ Taken(m)
    /\ WriteField(m)
    /\ hwMsr' = IF m \in WriteCases \cup {FEATURE_CONTROL} THEN hwMsr
                ELSE [hwMsr EXCEPT ![m] = EdxEax]
    /\ Resume(len, "none")
    /\ UNCHANGED <<gpr, cr4, cpl, frameCr4, dr, vmxFlags, hostRsp, lost>>

Xsetbv(x, len) ==
    /\ InGuest /\ cpl = 0 /\ Taken(x)
    /\ hwMsr' = [hwMsr EXCEPT ![x] = EdxEax]
    /\ Resume(len, "none")
    /\ UNCHANGED <<gpr, cr4, cpl, frameCr4, dr, field, vmxFlags, hostRsp, lost>>

(* The handlers pass everything on.  What the guest would have got a fault  *)
(* for is a fault of the monitor, or a field with which the next entry fails. *)
MonitorFault(m) ==
    /\ InGuest /\ cpl = 0
    /\ \/ m \in Missing /\ UNCHANGED field
       \/ <<m, EdxEax>> \in Refused /\ m # FEATURE_CONTROL /\ WriteField(m)
    /\ lost' = TRUE
    /\ UNCHANGED <<rip, gpr, cr4, cpl, frameCr4, dr, hwMsr, vmxFlags, event, hostRsp>>

-----------------------------------------------------------------------------
(* __vm_cpuid: ECX bit 5 is cleared for EAX = 1 and ECX = 0 only.          *)

Leaf1 == gpr[EAX] = {"bit 0"} /\ gpr[ECX] = {}

Shown(info) == IF Leaf1 THEN [info EXCEPT ![ECX] = @ \ {"VMX"}] ELSE info

Cpuid(len) ==
    /\ InGuest
    /\ \E info \in CpuInfos :
          gpr' = [r \in GpRegs |-> IF r \in CpuidRegs THEN Shown(info)[r] ELSE gpr[r]]
    /\ Resume(len, "none")
    /\ UNCHANGED <<cr4, cpl, frameCr4, dr, field, hwMsr, vmxFlags, hostRsp, lost>>

-----------------------------------------------------------------------------
(* __vm_vmx                                                                *)

FlagsUntouched == VMsucceed

FailureFlags == [ZF |-> 1, CF |-> 1]

Vmx(len) ==
    /\ InGuest
    /\ vmxFlags' = FailureFlags
    /\ Resume(len, "none")
    /\ UNCHANGED <<gpr, cr4, cpl, frameCr4, dr, field, hwMsr, hostRsp, lost>>

(* __vm_invd, and __vm_null for GETSEC, INVEPT and INVVPID: the instruction *)
(* is skipped.                                                              *)
VmNull(len) ==
    /\ InGuest
    /\ Resume(len, "none")
    /\ UNCHANGED <<gpr, cr4, cpl, frameCr4, dr, field, hwMsr, vmxFlags, hostRsp, lost>>

-----------------------------------------------------------------------------
(* What the guest does without an exit                                     *)

(* A call of the kernel, or a return to a user program. *)
ChangeCpl ==
    /\ InGuest
    /\ cpl' = 3 - cpl
    /\ UNCHANGED <<rip, gpr, cr4, frameCr4, dr, field, hwMsr, vmxFlags, event, hostRsp, lost>>

(* A MOV to CR4 that leaves VMXE alone does not exit: the frame keeps the   *)
(* value of the launch.                                                     *)
WriteCr4 ==
    /\ InGuest /\ cpl = 0
    /\ cr4' = IF "DE" \in cr4 THEN {} ELSE {"DE"}
    /\ UNCHANGED <<rip, gpr, cpl, frameCr4, dr, field, hwMsr, vmxFlags, event, hostRsp, lost>>

DrAccess(len) ==
    \E n \in DrNumbers, r \in Operands : MovFromDr(n, r, len) \/ MovToDr(n, r, len)

MsrAccess(len) == \E m \in Msrs : MsrRead(m, len) \/ MsrWrite(m, len)

Exit(len) ==
    \/ DrAccess(len)
    \/ MsrAccess(len)
    \/ \E x \in Xcrs : Xsetbv(x, len)
    \/ Cpuid(len)
    \/ Vmx(len)
    \/ VmNull(len)

Next ==
    \/ \E len \in Lengths : Exit(len)
    \/ GeneralDetectFault
    \/ \E n \in DrNumbers : UndefinedRegisterFault(n)
    \/ \E m \in Msrs \cup Xcrs : MonitorFault(m)
    \/ ChangeCpl

(* The guest leaves CR4.DE as it was at launch. *)
Spec == Init /\ [][Next]_vars

(* The guest writes CR4 as well. *)
SpecCr4 == Init /\ [][Next \/ WriteCr4]_vars

-----------------------------------------------------------------------------
(* Properties                                                              *)

Bits == (UNION Words) \cup {"BD", "VMX", "FC_LOCKED"} \cup HostFrame

Values == (SUBSET Bits) \X (SUBSET Bits)

(* Every register holds a word, and the host's stack pointer is the frame.  *)
TypeOK ==
    /\ rip \in 0 .. RipModulus - 1
    /\ gpr \in [GpRegs -> SUBSET Bits]
    /\ cr4 \subseteq {"DE"} /\ frameCr4 \subseteq {"DE"}
    /\ cpl \in {0, 3}
    /\ dr \in [DrNames -> SUBSET Bits]
    /\ field \in [Msrs -> Values]
    /\ hwMsr \in [Msrs \cup Xcrs -> Values]
    /\ vmxFlags \in Flags
    /\ event \in {"none", "#DB", "#UD"}
    /\ hostRsp = HostFrame
    /\ lost \in BOOLEAN

(* Where the guest's MSRs are. *)
GuestMsr ==
    [m \in Msrs \cup Xcrs |->
        IF m \in InVmcs THEN field[m]
        ELSE IF m = FEATURE_CONTROL THEN <<hwMsr[m][1] \ {"FC_LOCKED"}, hwMsr[m][2]>>
        ELSE hwMsr[m]]

CPU == INSTANCE Processor WITH msr <- GuestMsr

(* The guest cannot tell: each exit, handled, is that very instruction (or   *)
(* fault) of the processor without VMX.  Faults leave RIP at the             *)
(* instruction, aliased debug registers and redirected MSRs read back what   *)
(* was written to them, both halves of it, CPUID gives all four words, and   *)
(* nothing else changes.  Of the debug registers this is said of a kernel:   *)
(* a user program gets at them too, where the processor would fault.  Of     *)
(* MSRs it is said where the monitor goes on, not after a MonitorFault.      *)
ImplementsProcessor ==
    [][/\ \A len \in Lengths :
            /\ \A n \in DrNumbers, r \in Operands :
                   /\ cpl = 0 /\ MovFromDr(n, r, len) => CPU!MovFromDr(n, r, len)
                   /\ cpl = 0 /\ MovToDr(n, r, len) => CPU!MovToDr(n, r, len)
            /\ \A m \in Msrs :
                   /\ MsrRead(m, len) => CPU!Rdmsr(m, len)
                   /\ MsrWrite(m, len) => CPU!Wrmsr(m, len)
            /\ \A x \in Xcrs : Xsetbv(x, len) => CPU!Xsetbv(x, len)
            /\ Cpuid(len) => CPU!Cpuid(len)
            /\ Vmx(len) => CPU!VmxInstruction(len)
            /\ VmNull(len) => CPU!NoEffect(len)
       /\ cpl = 0 /\ GeneralDetectFault => CPU!RaiseDB
       /\ \A n \in DrNumbers :
              cpl = 0 /\ UndefinedRegisterFault(n) => CPU!RaiseUD(n)]_vars

(* A MOV from a debug register puts the register into the general register   *)
(* the instruction names ("MOV DR -> GPR").                                  *)
GprReceivesDr ==
    [][\A n \in DrNumbers, r \in Operands, len \in Lengths :
          MovFromDr(n, r, len) => gpr'[r] = dr[Number(n)]]_vars

(* Registers 4 and 5 are names for 6 and 7 ("Dr4 <==> Dr6", "Dr5 <==> Dr7")  *)
(* unless the guest has turned debug extensions on.                          *)
AliasesFollowCr4 ==
    [][\A n \in DrNumbers \cap {4, 5} :
          UndefinedRegisterFault(n) => "DE" \in cr4]_vars

(* A second copy of the monitor, loaded in the guest, tests each VMX         *)
(* instruction for VMX_SUCCEED, as this one does: it never sees it.          *)
SecondMonitorSeesFailure ==
    [][\A len \in Lengths : Vmx(len) => VmxResult(vmxFlags') # VMX_SUCCEED]_vars
=============================================================================
