------------------------------ MODULE Processor ------------------------------
(***************************************************************************)
(* The processor a guest of the monitor believes it runs on, for the       *)
(* instructions that the monitor intercepts and completes itself: moves to *)
(* and from the debug registers, RDMSR and WRMSR, XSETBV, CPUID, INVD and  *)
(* the VMX instructions.  It is an ordinary processor without VMX whose    *)
(* feature control register looks unlocked and cannot be changed.          *)
(*                                                                         *)
(* VmExit implements this specification where the guest is at CPL 0, names *)
(* MSRs the processor has, writes values it takes, does not use RSP as the *)
(* operand and leaves CR4.DE as it was when it was launched.               *)
(***************************************************************************)
EXTENDS VmxFlags

CONSTANTS
    Operands,       \* general registers that MOV DR names
    Msrs,           \* MSRs the guest names
    Missing,        \* those of them that the processor does not have
    Xcrs,           \* extended control registers the guest writes
    Refused,        \* <<register, value>>: what WRMSR and XSETBV do not take
    CpuInfos,       \* what CPUID may answer, a word for each of four registers
    Lengths,        \* lengths of the intercepted instructions
    RipModulus      \* RIP wraps at this value

VARIABLES
    rip,
    gpr,            \* general registers; a word is a set of bits
    cr4,
    cpl,            \* current privilege level
    dr,             \* debug registers; 4 and 5 are names for 6 and 7
    msr,            \* MSRs and extended control registers, low and high word
    vmxFlags,       \* the flags a VMX instruction left
    event           \* the exception the last instruction raised

vars == <<rip, gpr, cr4, cpl, dr, msr, vmxFlags, event>>

EAX == 0
ECX == 1
EDX == 2
EBX == 3

EdxEax == <<gpr[EAX], gpr[EDX]>>

FEATURE_CONTROL == "IA32_FEATURE_CONTROL"

Alias(n) == IF n \in {4, 5} THEN n + 2 ELSE n

GeneralDetect == "GD" \in dr[7]
NoSuchRegister(n) == n \in {4, 5} /\ "DE" \in cr4

Complete(len) ==
    /\ rip' = (rip + len) % RipModulus
    /\ event' = "none"

(* A fault: RIP stays at the instruction. *)
Raise(exception) == event' = exception /\ UNCHANGED rip

RaiseDB ==
    /\ cpl = 0 /\ GeneralDetect
    /\ dr' = [dr EXCEPT ![6] = @ \cup {"BD"}, ![7] = @ \ {"GD"}]
    /\ Raise("#DB")
    /\ UNCHANGED <<gpr, cr4, cpl, msr, vmxFlags>>

RaiseUD(n) ==
    /\ cpl = 0 /\ NoSuchRegister(n)
    /\ Raise("#UD")
    /\ UNCHANGED <<gpr, cr4, cpl, dr, msr, vmxFlags>>

(* A privileged instruction of a user program, an MSR that does not exist,  *)
(* a value with reserved bits.                                              *)
RaiseGP ==
    /\ \/ cpl # 0
       \/ Missing # {}
       \/ \E m \in Msrs \cup Xcrs : <<m, EdxEax>> \in Refused
    /\ Raise("#GP")
    /\ UNCHANGED <<gpr, cr4, cpl, dr, msr, vmxFlags>>

CanAccess(n) == cpl = 0 /\ ~GeneralDetect /\ ~NoSuchRegister(n)

MovFromDr(n, r, len) ==
    /\ CanAccess(n)
    /\ gpr' = [gpr EXCEPT ![r] = dr[Alias(n)]]
    /\ Complete(len)
    /\ UNCHANGED <<cr4, cpl, dr, msr, vmxFlags>>

MovToDr(n, r, len) ==
    /\ CanAccess(n)
    /\ dr' = [dr EXCEPT ![Alias(n)] = gpr[r]]
    /\ Complete(len)
    /\ UNCHANGED <<gpr, cr4, cpl, msr, vmxFlags>>

Rdmsr(m, len) ==
    /\ cpl = 0 /\ m \notin Missing
    /\ gpr' = [gpr EXCEPT ![EAX] = msr[m][1], ![EDX] = msr[m][2]]
    /\ Complete(len)
    /\ UNCHANGED <<cr4, cpl, dr, msr, vmxFlags>>

Wrmsr(m, len) ==
    /\ cpl = 0 /\ m \notin Missing /\ <<m, EdxEax>> \notin Refused
    /\ msr' = IF m = FEATURE_CONTROL THEN msr ELSE [msr EXCEPT ![m] = EdxEax]
    /\ Complete(len)
    /\ UNCHANGED <<gpr, cr4, cpl, dr, vmxFlags>>

Xsetbv(x, len) ==
    /\ cpl = 0 /\ <<x, EdxEax>> \notin Refused
    /\ msr' = [msr EXCEPT ![x] = EdxEax]
    /\ Complete(len)
    /\ UNCHANGED <<gpr, cr4, cpl, dr, vmxFlags>>

(* INVD, for which only the caches count, and instructions of no effect.    *)
NoEffect(len) ==
    /\ Complete(len)
    /\ UNCHANGED <<gpr, cr4, cpl, dr, msr, vmxFlags>>

(* CPUID writes four registers and no other.  Leaf 1 says that there is no  *)
(* VMX; that it should say so whatever ECX is is not promised here, since   *)
(* the monitor looks at ECX as if the leaf had sub-leaves.                  *)
Cpuid(len) ==
    /\ \E info \in CpuInfos :
          gpr' = [r \in DOMAIN gpr |->
                    IF r = ECX /\ gpr[EAX] = {"bit 0"} /\ gpr[ECX] = {} THEN info[ECX] \ {"VMX"}
                    ELSE IF r \in {EAX, EBX, ECX, EDX} THEN info[r]
                    ELSE gpr[r]]
    /\ Complete(len)
    /\ UNCHANGED <<cr4, cpl, dr, msr, vmxFlags>>

VmxInstruction(len) ==
    /\ vmxFlags' \in Flags \ {VMsucceed}
    /\ Complete(len)
    /\ UNCHANGED <<gpr, cr4, cpl, dr, msr>>

Instruction(len) ==
    \/ \E n \in 0 .. 7, r \in Operands : MovFromDr(n, r, len) \/ MovToDr(n, r, len)
    \/ \E m \in Msrs : Rdmsr(m, len) \/ Wrmsr(m, len)
    \/ \E x \in Xcrs : Xsetbv(x, len)
    \/ Cpuid(len)
    \/ VmxInstruction(len)
    \/ NoEffect(len)

Next ==
    \/ \E len \in Lengths : Instruction(len)
    \/ RaiseDB
    \/ \E n \in 0 .. 7 : RaiseUD(n)
    \/ RaiseGP

Spec == [][Next]_vars
=============================================================================
