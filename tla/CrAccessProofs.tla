---------------------------- MODULE CrAccessProofs ----------------------------
(***************************************************************************)
(* What __vm_cr_access keeps right although it writes four registers where *)
(* the guest writes one, for any bits of CR0 and CR4 and any addresses.    *)
(*                                                                         *)
(* A stale frame does not cost the guest its next entry as long as the     *)
(* frame's CR0 has the bits VMX fixes, which it has from the launch on,    *)
(* and the exit is for CR4 only, so that VMXE is in the value written.     *)
(* With exits on CR3 the frame's CR4 may lack VMXE: hence the condition on *)
(* the TRUE registers.                                                     *)
(***************************************************************************)
EXTENDS CrAccess, TLAPS

FrameStaysLegal == trueControls => Cr0Mask \subseteq frame.Cr0

CInv == TypeOK /\ EntryStaysLegal /\ FrameStaysLegal /\ NamedRegisterWritten

LEMMA MasksAreBits == Cr0Mask \subseteq Cr0Bits /\ Cr4Mask \subseteq Cr4Bits
BY BitsAssumption DEF Cr0Mask, Cr4Mask

(* The mask keeps its bits of the old value, and the rest of the new one.    *)
LEMMA MergedBits ==
  ASSUME NEW mask, NEW all, NEW value \in SUBSET all, NEW old \in SUBSET all
  PROVE  /\ Merged(value, old, mask) \in SUBSET all
         /\ Merged(value, old, mask) \ mask = value \ mask
         /\ mask \subseteq old => mask \subseteq Merged(value, old, mask)
BY DEF Merged

LEMMA InitCInv == Init => CInv
<1> SUFFICES ASSUME Init PROVE CInv
  OBVIOUS
<1>1. PICK cr0 \in {c \in SUBSET Cr0Bits : Cr0Mask \subseteq c},
           cr3 \in Addresses, cr4 \in SUBSET Cr4Bits :
        /\ frame = LaunchFrame(cr0, cr3, cr4)
        /\ vmcs = [Cr0 |-> cr0 \cup Cr0Mask, Cr3 |-> cr3, Cr4 |-> cr4 \cup Cr4Mask]
        /\ shadow = [Cr0 |-> cr0, Cr4 |-> cr4]
  BY DEF Init
<1>2. frame \in Frames /\ vmcs \in GuestCrs
  BY <1>1, MasksAreBits, BitsAssumption DEF LaunchFrame, Frames, GuestCrs
<1>3. TypeOK
  BY <1>1, <1>2, BitsAssumption DEF Init, TypeOK, Numbers, Values
<1>4. EntryStaysLegal /\ FrameStaysLegal
  BY <1>1 DEF Init, EntryStaysLegal, FrameStaysLegal, EntryAllowed, LaunchFrame
<1>5. NamedRegisterWritten
  BY DEF Init, NamedRegisterWritten
<1> QED
  BY <1>3, <1>4, <1>5 DEF CInv

LEMMA DirectStep ==
  ASSUME CInv,
         \/ \E value \in SUBSET Cr0Bits : DirectToCr0(value)
         \/ \E value \in SUBSET Cr4Bits : DirectToCr4(value)
         \/ \E value \in Addresses : DirectToCr2(value) \/ DirectToCr3(value)
  PROVE  CInv'
<1> USE DEF CInv, Direct
<1>0. /\ vmcs \in GuestCrs /\ frame \in Frames
      /\ vmcs.Cr0 \in SUBSET Cr0Bits /\ vmcs.Cr4 \in SUBSET Cr4Bits
  BY DEF TypeOK, GuestCrs
<1>1. ASSUME NEW value \in SUBSET Cr0Bits, DirectToCr0(value) PROVE CInv'
  <2> DEFINE new == Merged(value, vmcs.Cr0, Cr0Mask)
  <2>1. /\ new \in SUBSET Cr0Bits /\ new \ Cr0Mask = value \ Cr0Mask
        /\ Cr0Mask \subseteq vmcs.Cr0 => Cr0Mask \subseteq new
    BY <1>0, MergedBits
  <2>2. /\ vmcs' \in GuestCrs /\ vmcs'.Cr0 = new
        /\ vmcs'.Cr3 = vmcs.Cr3 /\ vmcs'.Cr4 = vmcs.Cr4
    BY <1>0, <1>1, <2>1 DEF DirectToCr0, GuestCrs
  <2> HIDE DEF new
  <2>3. TypeOK'
    BY <1>1, <2>2 DEF DirectToCr0, TypeOK, Numbers, Values
  <2>4. EntryStaysLegal' /\ FrameStaysLegal'
    BY <1>1, <2>1, <2>2 DEF DirectToCr0, EntryStaysLegal, FrameStaysLegal, EntryAllowed
  <2>5. NamedRegisterWritten'
    BY <1>1, <2>1, <2>2 DEF DirectToCr0, NamedRegisterWritten
  <2> QED
    BY <2>3, <2>4, <2>5
<1>2. ASSUME NEW value \in SUBSET Cr4Bits, DirectToCr4(value) PROVE CInv'
  <2> DEFINE new == Merged(value, vmcs.Cr4, Cr4Mask)
  <2>1. /\ new \in SUBSET Cr4Bits /\ new \ Cr4Mask = value \ Cr4Mask
        /\ Cr4Mask \subseteq vmcs.Cr4 => Cr4Mask \subseteq new
    BY <1>0, MergedBits
  <2>2. /\ vmcs' \in GuestCrs /\ vmcs'.Cr4 = new
        /\ vmcs'.Cr3 = vmcs.Cr3 /\ vmcs'.Cr0 = vmcs.Cr0
    BY <1>0, <1>2, <2>1 DEF DirectToCr4, GuestCrs
  <2> HIDE DEF new
  <2>3. TypeOK'
    BY <1>2, <2>2 DEF DirectToCr4, TypeOK, Numbers, Values
  <2>4. EntryStaysLegal' /\ FrameStaysLegal'
    BY <1>2, <2>1, <2>2 DEF DirectToCr4, EntryStaysLegal, FrameStaysLegal, EntryAllowed
  <2>5. NamedRegisterWritten'
    BY <1>2, <2>1, <2>2 DEF DirectToCr4, NamedRegisterWritten
  <2> QED
    BY <2>3, <2>4, <2>5
<1>3. ASSUME NEW value \in Addresses, DirectToCr2(value) PROVE CInv'
  <2>1. TypeOK'
    BY <1>3 DEF DirectToCr2, TypeOK, Numbers, Values
  <2>2. EntryStaysLegal' /\ FrameStaysLegal' /\ NamedRegisterWritten'
    BY <1>3 DEF DirectToCr2, EntryStaysLegal, FrameStaysLegal, EntryAllowed,
       NamedRegisterWritten
  <2> QED
    BY <2>1, <2>2
<1>4. ASSUME NEW value \in Addresses, DirectToCr3(value) PROVE CInv'
  <2>1. /\ vmcs' \in GuestCrs /\ vmcs'.Cr3 = value
        /\ vmcs'.Cr0 = vmcs.Cr0 /\ vmcs'.Cr4 = vmcs.Cr4
    BY <1>0, <1>4 DEF DirectToCr3, GuestCrs
  <2>2. TypeOK'
    BY <1>4, <2>1 DEF DirectToCr3, TypeOK, Numbers, Values
  <2>3. EntryStaysLegal' /\ FrameStaysLegal' /\ NamedRegisterWritten'
    BY <1>4, <2>1 DEF DirectToCr3, EntryStaysLegal, FrameStaysLegal, EntryAllowed,
       NamedRegisterWritten
  <2> QED
    BY <2>2, <2>3
<1> QED
  BY <1>1, <1>2, <1>3, <1>4

(* The frame, with the register that is named, becomes the guest's.          *)
LEMMA MovToCrWrites ==
  ASSUME TypeOK, NEW n \in {3, 4}, NEW value \in Values(n), MovToCr(n, value)
  PROVE  /\ frame' \in Frames /\ vmcs' \in GuestCrs /\ cr2' \in Addresses
         /\ frame'.Cr0 = frame.Cr0
         /\ vmcs'.Cr0 = frame.Cr0
         /\ n = 3 => vmcs'.Cr3 = value
         /\ n = 4 => vmcs'.Cr4 = value
<1>1. frame \in Frames
  BY DEF TypeOK
<1>2. CASE n = 3
  BY <1>1, <1>2 DEF MovToCr, Stored, Field, Frames, GuestCrs, Values
<1>3. CASE n = 4
  BY <1>1, <1>3 DEF MovToCr, Stored, Field, Frames, GuestCrs, Values
<1> QED
  BY <1>2, <1>3

LEMMA ExitStep == CInv /\ VmCrAccess => CInv'
<1> SUFFICES ASSUME CInv, VmCrAccess PROVE CInv'
  OBVIOUS
<1> USE DEF CInv
<1>1. ASSUME NEW value \in SUBSET Cr4Bits, Cr4Mask \subseteq value, MovToCr(4, value)
      PROVE  CInv'
  <2>1. /\ frame' \in Frames /\ vmcs' \in GuestCrs /\ cr2' \in Addresses
        /\ frame'.Cr0 = frame.Cr0 /\ vmcs'.Cr0 = frame.Cr0 /\ vmcs'.Cr4 = value
    BY <1>1, MovToCrWrites DEF Values
  <2>2. TypeOK'
    BY <1>1, <2>1 DEF MovToCr, TypeOK, Numbers, Values
  <2>3. trueControls => EntryAllowed(vmcs')
    BY <1>1, <2>1 DEF EntryAllowed, FrameStaysLegal
  <2>4. EntryStaysLegal' /\ FrameStaysLegal'
    BY <1>1, <2>1, <2>3 DEF MovToCr, EntryStaysLegal, FrameStaysLegal, EntryAllowed
  <2>5. NamedRegisterWritten'
    BY <1>1, <2>1 DEF MovToCr, NamedRegisterWritten
  <2> QED
    BY <2>2, <2>4, <2>5
<1>2. ASSUME NEW value \in Addresses, ~trueControls, MovToCr(3, value) PROVE CInv'
  <2>1. /\ frame' \in Frames /\ vmcs' \in GuestCrs /\ cr2' \in Addresses
        /\ vmcs'.Cr3 = value
    BY <1>2, MovToCrWrites DEF Values
  <2>2. TypeOK'
    BY <1>2, <2>1 DEF MovToCr, TypeOK, Numbers, Values
  <2>3. EntryStaysLegal' /\ FrameStaysLegal' /\ NamedRegisterWritten'
    BY <1>2, <2>1 DEF MovToCr, EntryStaysLegal, FrameStaysLegal, NamedRegisterWritten
  <2> QED
    BY <2>2, <2>3
<1>3. ASSUME ~trueControls, MovFromCr(3) PROVE CInv'
  <2>1. frame' \in Frames /\ gpr' \in Addresses
    BY <1>3 DEF MovFromCr, Refreshed, Field, TypeOK, Frames, GuestCrs
  <2>2. TypeOK'
    BY <1>3, <2>1 DEF MovFromCr, TypeOK, Numbers
  <2>3. EntryStaysLegal' /\ FrameStaysLegal' /\ NamedRegisterWritten'
    BY <1>3 DEF MovFromCr, EntryStaysLegal, FrameStaysLegal, NamedRegisterWritten
  <2> QED
    BY <2>2, <2>3
<1> QED
  BY <1>1, <1>2, <1>3 DEF VmCrAccess

LEMMA NextCInv == CInv /\ [Next]_vars => CInv'
<1>1. ASSUME CInv, UNCHANGED vars PROVE CInv'
  <2>1. TypeOK'
    BY <1>1 DEF CInv, vars, TypeOK, Numbers, Values
  <2>2. EntryStaysLegal' /\ FrameStaysLegal'
    BY <1>1 DEF CInv, vars, EntryStaysLegal, EntryAllowed, FrameStaysLegal
  <2>3. NamedRegisterWritten'
    BY <1>1 DEF CInv, vars, NamedRegisterWritten
  <2> QED
    BY <2>1, <2>2, <2>3 DEF CInv
<1> QED
  BY <1>1, DirectStep, ExitStep DEF Next

LEMMA Invariance == Spec => []CInv
BY InitCInv, NextCInv, PTL DEF Spec

-----------------------------------------------------------------------------

(* The registers keep their types, for any bits and addresses.               *)
THEOREM TypeCorrect == Spec => []TypeOK
<1>1. CInv => TypeOK
  BY DEF CInv
<1> QED
  BY <1>1, Invariance, PTL

(* With TRUE registers no exit on CR4 takes from the guest a bit that VMX    *)
(* requires, however stale the frame is.                                     *)
THEOREM EntryAlwaysLegal == Spec => []EntryStaysLegal
<1>1. CInv => EntryStaysLegal
  BY DEF CInv
<1> QED
  BY <1>1, Invariance, PTL

(* The register a MOV names is always written.                               *)
THEOREM NamedWritten == Spec => []NamedRegisterWritten
<1>1. CInv => NamedRegisterWritten
  BY DEF CInv
<1> QED
  BY <1>1, Invariance, PTL

(* A read never comes from an old frame.                                     *)
THEOREM CurrentReads == Spec => ReadsAreCurrent
<1>1. CInv /\ [Next]_vars => [last'[1] = "from" => gpr' = vmcs.Cr3]_vars
  <2> SUFFICES ASSUME CInv, Next, last'[1] = "from" PROVE gpr' = vmcs.Cr3
    BY DEF vars
  <2>1. MovFromCr(3)
    BY DEF Next, DirectToCr0, DirectToCr4, DirectToCr2, DirectToCr3, Direct,
       VmCrAccess, MovToCr
  <2> QED
    BY <2>1 DEF MovFromCr, Refreshed, Field
<1> QED
  BY <1>1, Invariance, PTL DEF Spec, ReadsAreCurrent
=============================================================================
