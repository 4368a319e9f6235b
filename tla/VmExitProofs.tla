---------------------------- MODULE VmExitProofs ----------------------------
(***************************************************************************)
(* What the handlers promise the guest, for every set of registers, MSRs,  *)
(* answers of CPUID, words and lengths.  The operand of a MOV DR must not be RSP: with RSP   *)
(* the theorems fail, as TLC shows (GprReceivesDr).                        *)
(*                                                                         *)
(* The types are inductive by themselves; the invariant adds that the CR4  *)
(* in the frame is the guest's, which Spec (not SpecCr4) preserves.        *)
(***************************************************************************)
EXTENDS VmExit, TLAPS

EInv == TypeOK /\ frameCr4 = cr4

(* The handlers number the registers of the frame; only RSP is special.     *)
LEMMA OrdinaryRegister ==
  ASSUME NEW r, r # RSP, NEW w
  PROVE  /\ FrameReg(r) = gpr[r]
         /\ SetFrameReg(r, w) => gpr' = [gpr EXCEPT ![r] = w] /\ hostRsp' = hostRsp
BY DEF FrameReg, SetFrameReg

(* EDX:EAX is the pair of these registers, and a value.                     *)
LEMMA PairIsValue ==
  ASSUME TypeOK
  PROVE  EdxEax = CPU!EdxEax /\ EdxEax \in Values
BY DEF EdxEax, CPU!EdxEax, CPU!EAX, CPU!EDX, FrameReg, EAX, EDX, RSP, TypeOK, Values,
       GpRegs, CpuidRegs

(* Both names of a debug register lead to one that exists. *)
LEMMA NumberExists == \A n \in DrNumbers : Number(n) \in DrNames
BY DrNumbersAssumption DEF Number, DrNames

(* The instruction pointer stays in range. *)
LEMMA ResumeTypes ==
  ASSUME TypeOK, NEW length \in Lengths \cup {0},
         NEW injected \in {"none", "#DB", "#UD"}, Resume(length, injected)
  PROVE  rip' \in 0 .. RipModulus - 1 /\ event' \in {"none", "#DB", "#UD"}
<1>1. rip + length \in Nat /\ RipModulus \in Nat \ {0}
  BY RipAssumption DEF TypeOK
<1>2. ASSUME NEW a \in Nat, NEW b \in Nat \ {0} PROVE a % b \in 0 .. b - 1
  BY <1>2
<1>3. rip' \in 0 .. RipModulus - 1
  BY <1>1, <1>2 DEF Resume
<1> QED
  BY <1>3 DEF Resume

-----------------------------------------------------------------------------
(* The invariant                                                           *)

LEMMA InitEInv == Init => EInv
<1> SUFFICES ASSUME Init PROVE EInv
  OBVIOUS
<1>1. rip \in 0 .. RipModulus - 1 /\ event \in {"none", "#DB", "#UD"}
  BY RipAssumption DEF Init
<1>2. gpr \in [GpRegs -> SUBSET Bits]
  BY DEF Init, Bits
<1>3. /\ dr \in [DrNames -> SUBSET Bits] /\ field \in [Msrs -> Values]
      /\ hwMsr \in [Msrs \cup Xcrs -> Values]
  BY DEF Init, Bits, Values, Zero
<1>4. /\ cr4 \subseteq {"DE"} /\ frameCr4 = cr4 /\ cpl \in {0, 3}
      /\ vmxFlags \in Flags /\ hostRsp = HostFrame
  BY DEF Init, Flags, VMsucceed
<1>5. lost \in BOOLEAN
  BY Zenon DEF Init
<1> QED
  BY <1>1, <1>2, <1>3, <1>4, <1>5 DEF EInv, TypeOK

LEMMA NextEInv == RSP \notin Operands /\ EInv /\ [Next]_vars => EInv'
<1> SUFFICES ASSUME RSP \notin Operands, EInv, [Next]_vars PROVE EInv'
  OBVIOUS
<1> USE DEF EInv
<1>0. CASE UNCHANGED vars
  BY <1>0 DEF vars, TypeOK
<1>1. ASSUME NEW len \in Lengths, NEW n \in DrNumbers, NEW r \in Operands,
             MovFromDr(n, r, len)
      PROVE  EInv'
  <2>1. dr[Number(n)] \subseteq Bits
    BY NumberExists DEF TypeOK
  <2>2. gpr' = [gpr EXCEPT ![r] = dr[Number(n)]] /\ hostRsp' = hostRsp
    BY <1>1, OrdinaryRegister DEF MovFromDr
  <2>3. gpr' \in [GpRegs -> SUBSET Bits]
    BY <2>1, <2>2 DEF TypeOK, GpRegs
  <2>4. rip' \in 0 .. RipModulus - 1 /\ event' \in {"none", "#DB", "#UD"}
    BY <1>1, ResumeTypes DEF MovFromDr
  <2> QED
    BY <1>1, <2>2, <2>3, <2>4 DEF MovFromDr, TypeOK
<1>2. ASSUME NEW len \in Lengths, NEW n \in DrNumbers, NEW r \in Operands,
             MovToDr(n, r, len)
      PROVE  EInv'
  <2>1. FrameReg(r) \subseteq Bits
    BY OrdinaryRegister DEF TypeOK, GpRegs
  <2>2. dr' \in [DrNames -> SUBSET Bits]
    BY <1>2, <2>1, NumberExists DEF MovToDr, TypeOK
  <2>3. rip' \in 0 .. RipModulus - 1 /\ event' \in {"none", "#DB", "#UD"}
    BY <1>2, ResumeTypes DEF MovToDr
  <2> QED
    BY <1>2, <2>2, <2>3 DEF MovToDr, TypeOK
<1>3. ASSUME NEW len \in Lengths, NEW m \in Msrs, MsrRead(m, len)
      PROVE  EInv'
  <2> DEFINE value == ReadValue(m)
  <2>1. value[1] \subseteq Bits /\ value[2] \subseteq Bits
    BY DEF TypeOK, ReadValue, Values
  <2> HIDE DEF value
  <2>2. gpr' = [gpr EXCEPT ![EAX] = value[1], ![EDX] = value[2]]
    BY <1>3 DEF MsrRead, value
  <2>3. gpr' \in [GpRegs -> SUBSET Bits]
    BY <2>1, <2>2 DEF TypeOK
  <2>4. rip' \in 0 .. RipModulus - 1 /\ event' \in {"none", "#DB", "#UD"}
    BY <1>3, ResumeTypes DEF MsrRead
  <2> QED
    BY <1>3, <2>3, <2>4 DEF MsrRead, TypeOK
<1>4. ASSUME NEW len \in Lengths, NEW m \in Msrs, MsrWrite(m, len)
      PROVE  EInv'
  <2>1. /\ field' \in [Msrs -> Values]
        /\ hwMsr' \in [Msrs \cup Xcrs -> Values]
    BY <1>4, PairIsValue DEF MsrWrite, WriteField, TypeOK
  <2>2. rip' \in 0 .. RipModulus - 1 /\ event' \in {"none", "#DB", "#UD"}
    BY <1>4, ResumeTypes DEF MsrWrite
  <2> QED
    BY <1>4, <2>1, <2>2 DEF MsrWrite, TypeOK
<1>5. ASSUME NEW len \in Lengths, Cpuid(len) PROVE EInv'
  <2>1. PICK info \in CpuInfos :
          gpr' = [r \in GpRegs |-> IF r \in CpuidRegs THEN Shown(info)[r] ELSE gpr[r]]
    BY <1>5 DEF Cpuid
  <2>2. \A r \in CpuidRegs : Shown(info)[r] \subseteq Bits
    BY CpuidAssumption DEF Shown, Bits, CpuidRegs
  <2>3. gpr' \in [GpRegs -> SUBSET Bits]
    BY <2>1, <2>2 DEF TypeOK
  <2>4. rip' \in 0 .. RipModulus - 1 /\ event' \in {"none", "#DB", "#UD"}
    BY <1>5, ResumeTypes DEF Cpuid
  <2> QED
    BY <1>5, <2>3, <2>4 DEF Cpuid, TypeOK
<1>6. ASSUME NEW len \in Lengths, Vmx(len) PROVE EInv'
  <2>1. vmxFlags' \in Flags
    BY <1>6 DEF Vmx, FailureFlags, Flags
  <2>2. rip' \in 0 .. RipModulus - 1 /\ event' \in {"none", "#DB", "#UD"}
    BY <1>6, ResumeTypes DEF Vmx
  <2> QED
    BY <1>6, <2>1, <2>2 DEF Vmx, TypeOK
<1>9. ASSUME NEW len \in Lengths, NEW x \in Xcrs, Xsetbv(x, len) PROVE EInv'
  <2>1. hwMsr' \in [Msrs \cup Xcrs -> Values]
    BY <1>9, PairIsValue DEF Xsetbv, TypeOK
  <2>2. rip' \in 0 .. RipModulus - 1 /\ event' \in {"none", "#DB", "#UD"}
    BY <1>9, ResumeTypes DEF Xsetbv
  <2> QED
    BY <1>9, <2>1, <2>2 DEF Xsetbv, TypeOK
<1>11. ASSUME NEW m \in Msrs \cup Xcrs, MonitorFault(m) PROVE EInv'
  <2>1. field' \in [Msrs -> Values]
    BY <1>11, PairIsValue DEF MonitorFault, WriteField, TypeOK
  <2> QED
    BY <1>11, <2>1 DEF MonitorFault, TypeOK
<1>12. CASE ChangeCpl
  <2>1. cpl' \in {0, 3}
    BY <1>12 DEF ChangeCpl, TypeOK
  <2> QED
    BY <1>12, <2>1 DEF ChangeCpl, TypeOK
<1>10. ASSUME NEW len \in Lengths, VmNull(len) PROVE EInv'
  <2>1. rip' \in 0 .. RipModulus - 1 /\ event' \in {"none", "#DB", "#UD"}
    BY <1>10, ResumeTypes DEF VmNull
  <2> QED
    BY <1>10, <2>1 DEF VmNull, TypeOK
<1>7. CASE GeneralDetectFault
  <2>1. dr' \in [DrNames -> SUBSET Bits]
    BY <1>7 DEF GeneralDetectFault, DetectAccess, TypeOK, DrNames, Bits
  <2>2. rip' \in 0 .. RipModulus - 1 /\ event' \in {"none", "#DB", "#UD"}
    BY <1>7, ResumeTypes DEF GeneralDetectFault
  <2> QED
    BY <1>7, <2>1, <2>2 DEF GeneralDetectFault, TypeOK
<1>8. ASSUME NEW n \in DrNumbers, UndefinedRegisterFault(n) PROVE EInv'
  <2>1. rip' \in 0 .. RipModulus - 1 /\ event' \in {"none", "#DB", "#UD"}
    BY <1>8, ResumeTypes DEF UndefinedRegisterFault
  <2> QED
    BY <1>8, <2>1 DEF UndefinedRegisterFault, TypeOK
<1> QED
  BY <1>0, <1>1, <1>2, <1>3, <1>4, <1>5, <1>6, <1>7, <1>8, <1>9, <1>10, <1>11, <1>12
     DEF Next, Exit, DrAccess, MsrAccess

-----------------------------------------------------------------------------
(* The theorems                                                            *)

LEMMA Invariant == ASSUME RSP \notin Operands PROVE Spec => []EInv
<1>1. EInv /\ [Next]_vars => EInv'
  BY NextEInv
<1> QED
  BY <1>1, InitEInv, PTL DEF Spec

(* The registers, MSRs and fields keep their types, and the host's stack     *)
(* pointer stays at the frame, whatever the guest executes.                  *)
THEOREM TypeCorrect == ASSUME RSP \notin Operands PROVE Spec => []TypeOK
<1>1. EInv => TypeOK
  BY DEF EInv
<1> QED
  BY <1>1, Invariant, PTL

(* The handler's numbering and its test for debug extensions agree with the  *)
(* processor's.                                                              *)
LEMMA SameRegister ==
  ASSUME EInv, NEW n \in DrNumbers
  PROVE  Number(n) = CPU!Alias(n) /\ Undefined(n) = CPU!NoSuchRegister(n)
BY DEF EInv, Number, CPU!Alias, Undefined, CPU!NoSuchRegister

(* A debug-register exit that is no fault is the access the guest made.      *)
LEMMA DrExits ==
  ASSUME RSP \notin Operands, EInv,
         NEW n \in DrNumbers, NEW r \in Operands, NEW len \in Lengths
  PROVE  /\ cpl = 0 /\ MovFromDr(n, r, len) => CPU!MovFromDr(n, r, len)
         /\ cpl = 0 /\ MovToDr(n, r, len) => CPU!MovToDr(n, r, len)
<1> USE SameRegister, OrdinaryRegister
    DEF GeneralDetect, CPU!GeneralDetect, CPU!CanAccess, Resume, CPU!Complete, GuestMsr
<1>1. cpl = 0 /\ MovFromDr(n, r, len) => CPU!MovFromDr(n, r, len)
  BY DEF MovFromDr, CPU!MovFromDr
<1>2. cpl = 0 /\ MovToDr(n, r, len) => CPU!MovToDr(n, r, len)
  BY DEF MovToDr, CPU!MovToDr
<1> QED
  BY <1>1, <1>2

(* A debug-register exit that faults is the fault the processor would raise, *)
(* and leaves RIP at the instruction.                                        *)
LEMMA DrFaults ==
  ASSUME EInv
  PROVE  /\ cpl = 0 /\ GeneralDetectFault => CPU!RaiseDB
         /\ \A n \in DrNumbers :
                cpl = 0 /\ UndefinedRegisterFault(n) => CPU!RaiseUD(n)
<1> USE DEF EInv, GuestMsr, CPU!Raise
<1>0. Resume(0, "#DB") \/ Resume(0, "#UD") => rip' = rip
  BY RipAssumption DEF Resume, TypeOK
<1>1. cpl = 0 /\ GeneralDetectFault => CPU!RaiseDB
  BY <1>0 DEF GeneralDetectFault, CPU!RaiseDB, DetectAccess, Resume,
     GeneralDetect, CPU!GeneralDetect
<1>2. ASSUME NEW n \in DrNumbers, cpl = 0, UndefinedRegisterFault(n) PROVE CPU!RaiseUD(n)
  BY <1>0, <1>2, SameRegister DEF UndefinedRegisterFault, CPU!RaiseUD, Resume
<1> QED
  BY <1>1, <1>2

(* Wherever an MSR is kept, RDMSR reads what WRMSR wrote.                    *)
LEMMA MsrExits ==
  ASSUME EInv, NEW len \in Lengths, NEW m \in Msrs
  PROVE  /\ MsrRead(m, len) => CPU!Rdmsr(m, len)
         /\ MsrWrite(m, len) => CPU!Wrmsr(m, len)
<1> USE DEF Resume, CPU!Complete
<1>1. ASSUME MsrRead(m, len) PROVE CPU!Rdmsr(m, len)
  <2>1. ReadValue(m) = GuestMsr[m]
    BY DEF ReadValue, GuestMsr, ReadCases, InVmcs
  <2>2. GuestMsr' = GuestMsr
    BY <1>1 DEF MsrRead, GuestMsr
  <2> QED
    BY <1>1, <2>1, <2>2 DEF MsrRead, CPU!Rdmsr, EAX, EDX, CPU!EAX, CPU!EDX
<1>2. ASSUME MsrWrite(m, len) PROVE CPU!Wrmsr(m, len)
  <2> DEFINE value == CPU!EdxEax
  <2>1. EdxEax = value
    BY PairIsValue DEF EInv
  <2>2. cpl = 0 /\ m \notin Missing /\ <<m, value>> \notin Refused
    BY <1>2, <2>1 DEF MsrWrite, Taken
  <2> HIDE DEF value
  <2>3. GuestMsr' = IF m = FEATURE_CONTROL THEN GuestMsr
                    ELSE [GuestMsr EXCEPT ![m] = value]
    <3>1. CASE m \in InVmcs
      <4>1. m # FEATURE_CONTROL /\ m \in WriteCases
        BY <3>1 DEF WriteCases, InVmcs, FEATURE_CONTROL
      <4>2. field' = [field EXCEPT ![m] = value] /\ hwMsr' = hwMsr
        BY <1>2, <2>1, <4>1 DEF MsrWrite, WriteField
      <4>3. GuestMsr' = [GuestMsr EXCEPT ![m] = value]
        <5>1. m \in Msrs \cup Xcrs /\ \A k \in InVmcs \cap (Msrs \cup Xcrs) : k \in Msrs
          BY MsrsAssumption
        <5> QED
          BY <3>1, <4>2, <5>1 DEF GuestMsr, EInv, TypeOK
      <4> QED
        BY <4>1, <4>3
    <3>2. CASE m = FEATURE_CONTROL
      BY <1>2, <3>2 DEF MsrWrite, WriteField, GuestMsr, WriteCases, FEATURE_CONTROL
    <3>3. CASE m \notin InVmcs /\ m # FEATURE_CONTROL
      BY <1>2, <2>1, <3>3 DEF MsrWrite, WriteField, GuestMsr, WriteCases, InVmcs, EInv, TypeOK
    <3> QED
      BY <3>1, <3>2, <3>3
  <2>4. /\ CPU!Complete(len)
        /\ UNCHANGED <<gpr, cr4, cpl, dr, vmxFlags>>
    BY <1>2 DEF MsrWrite
  <2> QED
    BY <2>2, <2>3, <2>4 DEF CPU!Wrmsr, value, FEATURE_CONTROL, CPU!FEATURE_CONTROL
<1> QED
  BY <1>1, <1>2

(* No extended control register has the name of an MSR that is redirected.   *)
LEMMA XsetbvExit ==
  ASSUME EInv, NEW len \in Lengths, NEW x \in Xcrs, Xsetbv(x, len)
  PROVE  CPU!Xsetbv(x, len)
<1> USE DEF Resume, CPU!Complete
<1>1. EdxEax = CPU!EdxEax
  BY PairIsValue DEF EInv
<1>2. cpl = 0 /\ <<x, CPU!EdxEax>> \notin Refused
  BY <1>1 DEF Xsetbv, Taken
<1>3. x \notin InVmcs /\ x # FEATURE_CONTROL
  BY MsrsAssumption
<1>4. GuestMsr' = [GuestMsr EXCEPT ![x] = CPU!EdxEax]
  BY <1>1, <1>3 DEF Xsetbv, GuestMsr, EInv, TypeOK
<1> QED
  BY <1>2, <1>4 DEF Xsetbv, CPU!Xsetbv

(* CPUID gives the four words of the hardware, without VMX where the         *)
(* processor has to hide it, and no other register changes.                  *)
LEMMA CpuidExit ==
  ASSUME EInv, NEW len \in Lengths, Cpuid(len)
  PROVE  CPU!Cpuid(len)
<1>1. PICK info \in CpuInfos :
        gpr' = [r \in GpRegs |-> IF r \in CpuidRegs THEN Shown(info)[r] ELSE gpr[r]]
  BY DEF Cpuid
<1>2. DOMAIN gpr = GpRegs /\ CpuidRegs = {0, 1, 2, 3}
  BY DEF EInv, TypeOK, CpuidRegs, EAX, ECX, EDX, EBX
<1>3. \A r \in CpuidRegs :
        Shown(info)[r] = IF r = 1 /\ gpr[0] = {"bit 0"} /\ gpr[1] = {}
                         THEN info[1] \ {"VMX"} ELSE info[r]
  BY <1>2, CpuidAssumption DEF Shown, Leaf1, EAX, ECX
<1>4. gpr' = [r \in DOMAIN gpr |->
                IF r = 1 /\ gpr[0] = {"bit 0"} /\ gpr[1] = {} THEN info[1] \ {"VMX"}
                ELSE IF r \in {0, 3, 1, 2} THEN info[r]
                ELSE gpr[r]]
  BY <1>1, <1>2, <1>3
<1> QED
  BY <1>4 DEF Cpuid, CPU!Cpuid, CPU!EAX, CPU!EBX, CPU!ECX, CPU!EDX, Resume,
     CPU!Complete, GuestMsr

(* The exits that read and write none of the guest's registers.              *)
LEMMA OtherExits ==
  ASSUME NEW len \in Lengths
  PROVE  /\ Vmx(len) => CPU!VmxInstruction(len)
         /\ VmNull(len) => CPU!NoEffect(len)
<1> USE DEF Resume, CPU!Complete, GuestMsr
<1>2. ASSUME Vmx(len) PROVE CPU!VmxInstruction(len)
  <2>1. vmxFlags' \in CPU!Flags \ {CPU!VMsucceed}
    BY <1>2 DEF Vmx, FailureFlags, CPU!Flags, CPU!VMsucceed
  <2> QED
    BY <1>2, <2>1 DEF Vmx, CPU!VmxInstruction
<1>3. VmNull(len) => CPU!NoEffect(len)
  BY DEF VmNull, CPU!NoEffect
<1> QED
  BY <1>2, <1>3

(* Every exit the monitor handles and returns from is the guest's            *)
(* instruction on a processor without a monitor, a MOV DR that of a kernel,  *)
(* for any registers but RSP, MSRs, answers of CPUID, words and lengths.     *)
THEOREM Transparent ==
  ASSUME RSP \notin Operands PROVE Spec => ImplementsProcessor
<1> USE DEF ImplementsProcessor
<1>1. EInv =>
        /\ \A len \in Lengths :
             /\ \A n \in DrNumbers, r \in Operands :
                    /\ cpl = 0 /\ MovFromDr(n, r, len) => CPU!MovFromDr(n, r, len)
                    /\ cpl = 0 /\ MovToDr(n, r, len) => CPU!MovToDr(n, r, len)
             /\ \A m \in Msrs :
                    /\ MsrRead(m, len) => CPU!Rdmsr(m, len)
                    /\ MsrWrite(m, len) => CPU!Wrmsr(m, len)
             /\ \A x \in Xcrs : Xsetbv(x, len) => CPU!Xsetbv(x, len)
             /\ Cpuid(len) => CPU!Cpuid(len)
             /\ Vmx(len) => CPU!VmxInstruction(len)
             /\ VmNull(len) => CPU!NoEffect(len)
        /\ cpl = 0 /\ GeneralDetectFault => CPU!RaiseDB
        /\ \A n \in DrNumbers :
               cpl = 0 /\ UndefinedRegisterFault(n) => CPU!RaiseUD(n)
  BY DrExits, DrFaults, MsrExits, XsetbvExit, CpuidExit, OtherExits
<1> QED
  BY <1>1, Invariant, PTL

(* A monitor loaded in the guest, whose stubs are these same stubs, never    *)
(* takes a VMX instruction for a success.                                    *)
THEOREM SecondMonitor == Spec => SecondMonitorSeesFailure
<1>1. \A len \in Lengths : Vmx(len) => VmxResult(vmxFlags') # VMX_SUCCEED
  <2> SUFFICES ASSUME NEW len \in Lengths, Vmx(len)
               PROVE  VmxResult(vmxFlags') # VMX_SUCCEED
    OBVIOUS
  <2>1. vmxFlags' = [ZF |-> 1, CF |-> 1]
    BY DEF Vmx, FailureFlags
  <2>2. VmxResult(vmxFlags') = 3 % 4
    BY <2>1 DEF VmxResult
  <2> QED
    BY <2>2 DEF VMX_SUCCEED
<1> QED
  BY <1>1, PTL DEF SecondMonitorSeesFailure
=============================================================================
