------------------------------- MODULE CrAccess -------------------------------
(***************************************************************************)
(* Control registers of a guest: which accesses exit, and __vm_cr_access   *)
(* (VmxHandler.c 306-344), which completes them from the register frame.   *)
(*                                                                         *)
(* CR0 and CR4 are sets of bits; CR2 and CR3 are addresses.  The operand   *)
(* is any general register but RSP, whose slot in the frame VmExit treats. *)
(***************************************************************************)
EXTENDS Naturals

CONSTANTS
    Cr0Bits, Cr4Bits,
    Addresses,          \* values of CR2 and CR3
    ZeroAddress

ASSUME BitsAssumption ==
    /\ {"PE", "NE", "PG"} \subseteq Cr0Bits /\ "VMXE" \in Cr4Bits
    /\ ZeroAddress \in Addresses

VARIABLES
    trueControls,   \* the processor has the TRUE registers: CR3 does not exit
    frame,          \* Tsb->Registers.Cr0, Cr2, Cr3, Cr4
    vmcs,           \* GUEST_CR0, GUEST_CR3, GUEST_CR4
    shadow,         \* the read shadows, which only the launch writes
    cr2,
    gpr,            \* the register that a MOV from a control register wrote
    last,           \* the guest's last instruction: <<direction, number, operand>>
    lost            \* a VM entry failed

vars == <<trueControls, frame, vmcs, shadow, cr2, gpr, last, lost>>

-----------------------------------------------------------------------------

Numbers == {0, 2, 3, 4}

Values(n) ==
    CASE n = 0 -> SUBSET Cr0Bits [] n = 4 -> SUBSET Cr4Bits [] OTHER -> Addresses

Frames == [Cr0 : SUBSET Cr0Bits, Cr2 : Addresses, Cr3 : Addresses, Cr4 : SUBSET Cr4Bits]

GuestCrs == [Cr0 : SUBSET Cr0Bits, Cr3 : Addresses, Cr4 : SUBSET Cr4Bits]

(* Tsb->Cr0Mask and Cr4Mask are also what VMX fixes to one. *)
Cr0Mask == {"PE", "NE", "PG"}
Cr4Mask == {"VMXE"}

Cr0Unsaved(cr0, cr3, cr4) == [Cr0 |-> {}, Cr2 |-> ZeroAddress, Cr3 |-> cr3, Cr4 |-> cr4]

(* An operating system has protected mode, paging and native x87 errors on. *)
LaunchFrame(cr0, cr3, cr4) == [Cr0 |-> cr0, Cr2 |-> ZeroAddress, Cr3 |-> cr3, Cr4 |-> cr4]

(* The raw registers go to the frame and the shadows, the adjusted ones to   *)
(* the VMCS.                                                                 *)
Init ==
    /\ trueControls \in BOOLEAN
    /\ \E cr0 \in {c \in SUBSET Cr0Bits : Cr0Mask \subseteq c},
          cr3 \in Addresses, cr4 \in SUBSET Cr4Bits :
          /\ frame = LaunchFrame(cr0, cr3, cr4)
          /\ vmcs = [Cr0 |-> cr0 \cup Cr0Mask, Cr3 |-> cr3, Cr4 |-> cr4 \cup Cr4Mask]
          /\ shadow = [Cr0 |-> cr0, Cr4 |-> cr4]
    /\ cr2 \in Addresses
    /\ gpr = ZeroAddress
    /\ last = <<"none", 0, ZeroAddress>>
    /\ lost = FALSE

-----------------------------------------------------------------------------
(* Without an exit                                                         *)

Differs(value, masked, mask) == value \cap mask # masked \cap mask

ToCr0Exits(value) == Differs(value, shadow.Cr0, Cr0Mask)
ToCr4Exits(value) == Differs(value, shadow.Cr4, Cr4Mask)

Merged(value, old, mask) == (value \ mask) \cup (old \cap mask)

Direct(n, value) ==
    /\ ~lost
    /\ last' = <<"to", n, value>>
    /\ UNCHANGED <<trueControls, frame, shadow, gpr, lost>>

DirectToCr0(value) ==
    /\ Direct(0, value) /\ ~ToCr0Exits(value)
    /\ vmcs' = [vmcs EXCEPT !.Cr0 = Merged(value, @, Cr0Mask)]
    /\ UNCHANGED cr2

DirectToCr4(value) ==
    /\ Direct(4, value) /\ ~ToCr4Exits(value)
    /\ vmcs' = [vmcs EXCEPT !.Cr4 = Merged(value, @, Cr4Mask)]
    /\ UNCHANGED cr2

DirectToCr3(value) ==
    /\ Direct(3, value) /\ trueControls
    /\ vmcs' = [vmcs EXCEPT !.Cr3 = value]
    /\ UNCHANGED cr2

(* By the guest, or by a page fault. *)
DirectToCr2(value) ==
    /\ Direct(2, value)
    /\ cr2' = value
    /\ UNCHANGED vmcs

-----------------------------------------------------------------------------
(* With an exit                                                            *)

Cr2SlotForCr3(n) == CASE n = 0 -> "Cr0" [] n \in {2, 3} -> "Cr2" [] n = 4 -> "Cr4"

(* Registers.Cr + Number: the array has a slot for CR1 too.                  *)
Field(n) == CASE n = 0 -> "Cr0" [] n = 2 -> "Cr2" [] n = 3 -> "Cr3" [] n = 4 -> "Cr4"

StoredNothing(n, value) == frame
NextSlot(n, value) == [frame EXCEPT ![IF n = 3 THEN "Cr4" ELSE "Cr3"] = value]

(* *Cr = *GpReg *)
Stored(n, value) == [frame EXCEPT ![Field(n)] = value]

EntryAllowed(crs) == Cr0Mask \subseteq crs.Cr0 /\ Cr4Mask \subseteq crs.Cr4

(* The frame, all of it, becomes the guest's registers. *)
MovToCr(n, value) ==
    /\ frame' = Stored(n, value)
    /\ vmcs' = [Cr0 |-> frame'.Cr0, Cr3 |-> frame'.Cr3, Cr4 |-> frame'.Cr4]
    /\ cr2' = frame'.Cr2
    /\ last' = <<"to", n, value>>
    /\ lost' = ~EntryAllowed(vmcs')
    /\ UNCHANGED <<trueControls, shadow, gpr>>

(* What the guest is, read back. *)
Refreshed == [Cr0 |-> vmcs.Cr0, Cr2 |-> cr2, Cr3 |-> vmcs.Cr3, Cr4 |-> vmcs.Cr4]

MovFromCr(n) ==
    /\ frame' = Refreshed
    /\ gpr' = frame'[Field(n)]
    /\ last' = <<"from", n, ZeroAddress>>
    /\ UNCHANGED <<trueControls, vmcs, shadow, cr2, lost>>

(* The guest may set CR4.VMXE, as a second monitor would; it leaves the bits *)
(* of CR0 that the driver masks alone, so MOV to CR0 does not exit.          *)
VmCrAccess ==
    /\ ~lost
    /\ \/ \E value \in SUBSET Cr4Bits :
             ToCr4Exits(value) /\ Cr4Mask \subseteq value /\ MovToCr(4, value)
       \/ \E value \in Addresses : ~trueControls /\ MovToCr(3, value)
       \/ ~trueControls /\ MovFromCr(3)

Next ==
    \/ \E value \in SUBSET Cr0Bits : DirectToCr0(value)
    \/ \E value \in SUBSET Cr4Bits : DirectToCr4(value)
    \/ \E value \in Addresses : DirectToCr2(value) \/ DirectToCr3(value)
    \/ VmCrAccess

Spec == Init /\ [][Next]_vars

-----------------------------------------------------------------------------
(* Properties                                                              *)

(* The registers keep their types, through the array Registers.Cr.           *)
TypeOK ==
    /\ trueControls \in BOOLEAN /\ lost \in BOOLEAN
    /\ frame \in Frames /\ vmcs \in GuestCrs
    /\ shadow \in [Cr0 : SUBSET Cr0Bits, Cr4 : SUBSET Cr4Bits]
    /\ cr2 \in Addresses /\ gpr \in Addresses
    /\ last[2] \in Numbers /\ last[3] \in Values(last[2]) \cup {ZeroAddress}

(* With TRUE registers no control-register exit makes the next VM entry fail *)
(* (VmxHandler.c 336-342 writes the frame without the bits VMX fixes), as    *)
(* long as the guest only sets VMXE.                                         *)
EntryStaysLegal == trueControls => ~lost /\ EntryAllowed(vmcs)

(* Whatever a MOV to a control register writes is there afterwards, up to    *)
(* the bits of CR0 and CR4 that the guest does not own.                      *)
NamedRegisterWritten ==
    last[1] = "to" =>
        CASE last[2] = 0 -> vmcs.Cr0 \ Cr0Mask = last[3] \ Cr0Mask
          [] last[2] = 2 -> cr2 = last[3]
          [] last[2] = 3 -> vmcs.Cr3 = last[3]
          [] last[2] = 4 -> vmcs.Cr4 \ Cr4Mask = last[3] \ Cr4Mask

(* A MOV from a control register gives the register as it is, not as it was  *)
(* at an earlier exit (VmxHandler.c 323-331).                                *)
ReadsAreCurrent ==
    [][last'[1] = "from" => gpr' = vmcs.Cr3]_vars

(* VmxHandler.c 334 says "MOV to CR": one register is written, and the       *)
(* others stay as they are.                                                  *)
OnlyNamedRegister ==
    [][last'[1] = "to" =>
        LET n == last'[2]
        IN  /\ n # 0 => vmcs'.Cr0 \ Cr0Mask = vmcs.Cr0 \ Cr0Mask
            /\ n # 2 => cr2' = cr2
            /\ n # 3 => vmcs'.Cr3 = vmcs.Cr3
            /\ n # 4 => vmcs'.Cr4 \ Cr4Mask = vmcs.Cr4 \ Cr4Mask]_vars
=============================================================================
