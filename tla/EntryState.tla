------------------------------ MODULE EntryState ------------------------------
(***************************************************************************)
(* One processor from __vmx_start to the first instruction of its guest:   *)
(* the stack frame of the two assembly stubs, the fields __vmx_entry       *)
(* writes (vmx.c 604-926), and the resumption at the stub's label.         *)
(*                                                                         *)
(* It goes on from the control block that ControlBlock prepares.  Failing  *)
(* VMX instructions are VmxLaunch's matter: here each vmwrite succeeds.     *)
(* A value of a field is a number or a name; a base is <<low half, high    *)
(* half>>.  Selectors name the GDT, as those of the kernel do.              *)
(***************************************************************************)
EXTENDS ControlBlock

CONSTANTS
    Cpus,           \* register contents a processor is launched with
    HighFrame       \* the first frame a 32-bit EPTP cannot name, 2^20

ASSUME HighFrameAssumption == HighFrame \in Nat \ {0}

VARIABLES
    cpu,            \* x64, selector, gdt, fsBase, gsBase, fsBaseMsr, system, and
                    \* raw, CR0 and CR4 before VMX made its bits one
    stack,          \* the frame of __vmx_start, from its stack pointer upwards
    segment,        \* how many segments have been written
    vmcs            \* the fields written so far

vars == <<phase, machine, fixed, word, msrBitmap, ranges, ept, status,
          cpu, stack, segment, vmcs>>

launchVars == <<machine, fixed, word, msrBitmap, ranges, ept, status, cpu>>

-----------------------------------------------------------------------------
(* The fields                                                              *)

(* The order in which __vmx_entry takes them. *)
Segments == <<"ES", "CS", "SS", "DS", "FS", "GS", "LDTR", "TR">>

SegmentNames == {Segments[i] : i \in 1 .. 8}

SegmentFields ==
    ({"GUEST"} \X SegmentNames \X {"SELECTOR", "BASE", "LIMIT", "AR"})
        \cup ({"HOST"} \X (SegmentNames \ {"LDTR"}) \X {"SELECTOR"})
        \cup ({"HOST"} \X {"FS", "GS", "TR"} \X {"BASE"})

(* What guest and host have in common, and what is the guest's only. *)
SharedRegisters ==
    {"CR0", "CR3", "CR4", "SYSENTER_CS", "SYSENTER_ESP", "SYSENTER_EIP",
     "GDTR_BASE", "IDTR_BASE"}
GuestRegisters == {"GDTR_LIMIT", "IDTR_LIMIT", "DR7", "RFLAGS", "DEBUGCTL"}

SystemFields ==
    ({"GUEST"} \X (SharedRegisters \cup GuestRegisters \cup
                     {"RSP", "RIP", "INTERRUPTIBILITY", "ACTIVITY_STATE", "VMCS_LINK_PTR"}))
        \cup ({"HOST"} \X (SharedRegisters \cup {"RSP", "RIP"}))

PlainControls ==
    {"CR0_MASK", "CR0_READ_SHADOW", "CR4_MASK", "CR4_READ_SHADOW",
     "MSR_BITMAP", "EXCEPTION_BITMAP", "TSC_OFFSET"}

ControlFields == {"VMX"} \X (Words \cup PlainControls \cup {"EPTP", "VPID"})

Fields == SegmentFields \cup SystemFields \cup ControlFields

Write(writes) ==
    vmcs' = [f \in DOMAIN vmcs \cup DOMAIN writes |->
                IF f \in DOMAIN writes THEN writes[f] ELSE vmcs[f]]

-----------------------------------------------------------------------------
(* Segments                                                                *)

Unusable == 65536

(* The kernel runs in a segment of its own and has a task; the register of a *)
(* task or of an LDT holds a system descriptor, the others do not.           *)
CpuRuns(c) ==
    /\ \A s \in SegmentNames :
          LET selector == c.selector[s]
              slot == c.gdt[selector \div 8]
          IN  /\ selector \in Nat /\ selector % 8 < 4
              /\ selector >= 4 => /\ slot.ar \in Nat \ {0}
                                  /\ slot.system = (s \in {"LDTR", "TR"})
    /\ c.selector["CS"] >= 4 /\ c.selector["TR"] >= 4

ASSUME CpusAssumption == \A c \in Cpus : CpuRuns(c)

RplKept(selector) == selector

(* & ~RPL_MASK *)
RplMasked(selector) == selector - (selector % 4)

Null(selector) == selector < 4

Slot(selector) == cpu.gdt[selector \div 8]

(* LSL and LAR leave the register as it was if the selector names nothing.   *)
SegmentLimit(selector) ==
    IF Null(selector) THEN selector ELSE Slot(selector).limit

(* shr 8, and the "unusable" bit if nothing is left. *)
SegmentAr(selector) ==
    LET ar == IF Null(selector) THEN selector \div 256 ELSE Slot(selector).ar
    IN  IF ar = 0 THEN Unusable ELSE ar

NoUpper(selector) == 0

(* BaseUpper of the 64-bit descriptors, which are those of system segments.  *)
BaseUpper(selector) ==
    IF cpu.x64 /\ Slot(selector).system THEN cpu.gdt[selector \div 8 + 1].lowDword ELSE 0

(* The branch for null selectors is overwritten by what follows it.          *)
PrepareSegment(selector) ==
    [SELECTOR |-> selector,
     LIMIT |-> SegmentLimit(selector),
     BASE |-> <<Slot(selector).base, BaseUpper(selector)>>,
     AR |-> SegmentAr(selector)]

(* FS and GS take their base from the MSRs. *)
GdtEntry(s) ==
    LET entry == PrepareSegment(cpu.selector[s])
    IN  CASE s = "FS" -> [entry EXCEPT !.BASE = cpu.fsBase]
          [] s = "GS" -> [entry EXCEPT !.BASE = cpu.gsBase]
          [] OTHER -> entry

GuestValue(s, part) == GdtEntry(s)[part]

HostValue(s, part) ==
    IF part = "SELECTOR" THEN RplMasked(cpu.selector[s]) ELSE GdtEntry(s).BASE

SegmentValue(f) == IF f[1] = "GUEST" THEN GuestValue(f[2], f[3]) ELSE HostValue(f[2], f[3])

-----------------------------------------------------------------------------
(* The steps                                                               *)

(* What each stub pushes, last first. *)
Saved(x64) ==
    IF x64 THEN <<"r15", "r14", "r13", "r12", "rdi", "rsi", "rbp", "rbx", "rflags">>
    ELSE <<"ebp", "edi", "esi", "ebx", "eflags">>

(* The calling conventions: a C function owns the four slots above its       *)
(* return address on x64.  Those on x86 own their arguments, which are not   *)
(* part of this frame.                                                       *)
HomeArea(x64) == IF x64 THEN 1 .. 4 ELSE {}

Init ==
    /\ CsbInit
    /\ cpu \in {c \in Cpus : c.x64 = machine.x64}
    /\ stack = << >>
    /\ segment = 0
    /\ vmcs = << >>

Prepare == CsbNext /\ UNCHANGED <<cpu, stack, segment, vmcs>>

(* __vmx_start, up to the call of __vmx_entry, which may use its home area   *)
(* as the compiler likes.                                                    *)
Start ==
    /\ phase = "prepared"
    /\ \E spilled \in SUBSET HomeArea(machine.x64) :
          stack' = [i \in DOMAIN Saved(machine.x64) |->
                      IF i \in spilled THEN "scratch" ELSE Saved(machine.x64)[i]]
    /\ phase' = "segments"
    /\ UNCHANGED <<launchVars, segment, vmcs>>

ReadsMissingMsr == Segments[segment + 1] \in {"FS", "GS"} /\ ~cpu.fsBaseMsr

WriteSegment ==
    /\ phase = "segments"
    /\ IF ReadsMissingMsr
       THEN phase' = "fault" /\ UNCHANGED <<segment, vmcs>>
       ELSE /\ segment' = segment + 1
            /\ phase' = IF segment' = Len(Segments) THEN "system" ELSE phase
            /\ LET s == Segments[segment']
               IN  Write([f \in {g \in SegmentFields : g[2] = s} |-> SegmentValue(f)])
    /\ UNCHANGED <<launchVars, stack>>

(* A register the guest shares with the host goes to both.  &Registers is    *)
(* HOST_RSP, where __vmx_trap pushes.                                        *)
SystemValue(f) ==
    CASE f[2] = "RSP" -> IF f[1] = "GUEST" THEN "start frame" ELSE "registers"
      [] f[2] = "RIP" -> IF f[1] = "GUEST" THEN "resume" ELSE "__vmx_trap"
      [] f[2] \in {"INTERRUPTIBILITY", "ACTIVITY_STATE"} -> 0
      [] f[2] = "VMCS_LINK_PTR" -> "VMCS_NONE"
      [] OTHER -> cpu.system[f[2]]

WriteSystem ==
    /\ phase = "system"
    /\ Write([f \in SystemFields |-> SystemValue(f)])
    /\ phase' = "controls"
    /\ UNCHANGED <<launchVars, stack, segment>>

(* One vmwrite of a natural register: on x86 the high half of EPTP is lost.  *)
EptpFrame == IF machine.x64 THEN machine.phys[Pml4ePage] ELSE machine.phys[Pml4ePage] % HighFrame

Eptp == [Psmt |-> "WRITE_BACK", Pwl |-> 3, PageFrameNumber |-> EptpFrame]

NoVpid == {<<"VMX", "EPTP">>}

EptFields ==
    IF "ENABLE_EPT" \in word.Secondary THEN {<<"VMX", "EPTP">>, <<"VMX", "VPID">>} ELSE {}

ControlValue(f) ==
    CASE f[2] = "EPTP" -> Eptp
      [] f[2] = "VPID" -> 1
      [] f[2] = "MSR_BITMAP" -> machine.phys[MsrBitmapPage]
      [] f[2] \in {"EXCEPTION_BITMAP", "TSC_OFFSET"} -> 0
      [] f[2] = "CR0_MASK" -> {"PE", "NE", "PG"}
      [] f[2] = "CR4_MASK" -> {"VMXE"}
      [] f[2] \in {"CR0_READ_SHADOW", "CR4_READ_SHADOW"} -> cpu.raw[f[2]]
      [] OTHER -> word[f[2]]

(* The field of the secondary controls exists if they can be activated. *)
WriteControls ==
    /\ phase = "controls"
    /\ LET words == {w \in Words : w = "Secondary" =>
                                      "SECONDARY_CONTROLS" \in fixed.Primary.high}
       IN  Write([f \in ({"VMX"} \X (words \cup PlainControls)) \cup EptFields |->
                     ControlValue(f)])
    /\ phase' = "launching"
    /\ UNCHANGED <<launchVars, stack, segment>>

(* The guest begins at resume, with the frame as it is then; if vmlaunch     *)
(* fails __vmx_entry returns to the same place.                              *)
Vmlaunch ==
    /\ phase = "launching"
    /\ phase' \in {"guest", "native"}
    /\ UNCHANGED <<launchVars, stack, segment, vmcs>>

Next == Prepare \/ Start \/ WriteSegment \/ WriteSystem \/ WriteControls \/ Vmlaunch

Spec == Init /\ [][Next]_vars

-----------------------------------------------------------------------------
(* Properties                                                              *)

Phases ==
    {"cpuid", "fixed", "memory", "words", "failed", "fault", "prepared",
     "segments", "system", "controls", "launching", "guest", "native"}

(* The variables keep their types; the bits that EnableMsr sets stay inside  *)
(* the page of the bitmap, and only fields that exist are written.           *)
TypeOK ==
    /\ phase \in Phases
    /\ machine \in Machines /\ cpu \in Cpus
    /\ \A w \in Words : word[w] \subseteq Defined[w] \cup {"default1"}
    /\ msrBitmap \subseteq BitmapBits
    /\ status \in {"STATUS_SUCCESS", "STATUS_UNSUCCESSFUL", "STATUS_NOT_SUPPORTED"}
    /\ segment \in 0 .. Len(Segments)
    /\ DOMAIN vmcs \subseteq Fields

(* What the processor holds for a segment: the high half of a base comes     *)
(* from the second half of a system descriptor, or an MSR, on x64 only.      *)
HiddenBase(s) ==
    LET selector == cpu.selector[s]
    IN  CASE s = "FS" -> cpu.fsBase
          [] s = "GS" -> cpu.gsBase
          [] OTHER -> <<Slot(selector).base,
                        IF cpu.x64 /\ s \in {"LDTR", "TR"}
                        THEN cpu.gdt[selector \div 8 + 1].lowDword ELSE 0>>

(* The guest begins where the processor was: every segment with the hidden   *)
(* part the processor has (a null one unusable), every other register with   *)
(* its contents, and the stack pointer and label of __vmx_start.             *)
GuestContinues ==
    phase = "launching" =>
        /\ \A s \in SegmentNames :
              LET selector == cpu.selector[s]
                  Field(part) == vmcs[<<"GUEST", s, part>>]
              IN  /\ Field("SELECTOR") = selector
                  /\ IF Null(selector) THEN Field("AR") = Unusable
                     ELSE /\ Field("AR") = Slot(selector).ar
                          /\ Field("LIMIT") = Slot(selector).limit
                          /\ Field("BASE") = HiddenBase(s)
        /\ \A r \in SharedRegisters \cup GuestRegisters :
              vmcs[<<"GUEST", r>>] = cpu.system[r]
        /\ vmcs[<<"GUEST", "RSP">>] = "start frame"
        /\ vmcs[<<"GUEST", "RIP">>] = "resume"

FrameIsNameable == machine.x64 \/ machine.phys[Pml4ePage] < HighFrame

(* What vmlaunch checks and no single function establishes: all fields of    *)
(* guest and host are there, host selectors have neither RPL nor TI and CS   *)
(* and TR are not null, an enabled EPT comes with the pointer to the         *)
(* prepared tables and an enabled VPID with a VPID, the address space of     *)
(* guest and host is the build's.                                            *)
EntryChecksPass ==
    phase = "launching" =>
        LET Has(control) == control \in word.Secondary
            HostSelector(s) == vmcs[<<"HOST", s, "SELECTOR">>]
        IN  /\ SegmentFields \cup SystemFields \subseteq DOMAIN vmcs
            /\ \A s \in SegmentNames \ {"LDTR"} : HostSelector(s) % 8 = 0
            /\ HostSelector("CS") # 0 /\ HostSelector("TR") # 0
            /\ Has("ENABLE_VPID") => <<"VMX", "VPID">> \in DOMAIN vmcs
            /\ Has("ENABLE_EPT") =>
                  /\ <<"VMX", "EPTP">> \in DOMAIN vmcs
                  /\ FrameIsNameable =>
                        vmcs[<<"VMX", "EPTP">>].PageFrameNumber = machine.phys[Pml4ePage]
            /\ \A w \in {"Exit", "Entry"} :
                  machine.x64 <=> "ADDRESS_SPACE" \in vmcs[<<"VMX", w>>]

(* vmx.c 970: "store return address Non-volatile register & eflags": the     *)
(* caller of __vmx_start finds its registers again.                          *)
NonvolatileKept ==
    phase \in {"guest", "native"} => stack = Saved(machine.x64)
=============================================================================
