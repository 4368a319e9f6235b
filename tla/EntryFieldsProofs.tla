--------------------------- MODULE EntryFieldsProofs ---------------------------
(***************************************************************************)
(* What a processor's VMCS holds when vmlaunch is executed, for any        *)
(* machines and any register contents that satisfy the assumptions on      *)
(* them.                                                                   *)
(*                                                                         *)
(* The fields are written segment by segment, then the system registers,   *)
(* then the controls.  The invariant says which have been written at each  *)
(* phase and that no later write has changed one of them.                  *)
(***************************************************************************)
EXTENDS EntryStateProofs

SegmentWritten(s) ==
    \A f \in SegmentFields : f[2] = s => f \in DOMAIN vmcs /\ vmcs[f] = SegmentValue(f)

SystemWritten == \A f \in SystemFields : f \in DOMAIN vmcs /\ vmcs[f] = SystemValue(f)

WrittenControls ==
    ({"VMX"} \X ({w \in Words : w = "Secondary" =>
                                  "SECONDARY_CONTROLS" \in fixed.Primary.high}
                   \cup PlainControls))
        \cup EptFields

ControlsWritten == \A f \in WrittenControls : f \in DOMAIN vmcs /\ vmcs[f] = ControlValue(f)

FieldsInv ==
    /\ phase = "segments" => \A i \in 1 .. segment : SegmentWritten(Segments[i])
    /\ phase \in {"system", "controls", "launching"} =>
          \A s \in SegmentNames : SegmentWritten(s)
    /\ phase \in {"controls", "launching"} => SystemWritten
    /\ phase = "launching" => ControlsWritten

-----------------------------------------------------------------------------
(* A later write does not touch an earlier field: the three kinds of field   *)
(* are apart, and so are the segments.                                       *)

LEMMA KindOfSegment == ASSUME NEW f \in SegmentFields PROVE f[2] \in SegmentNames /\ f[1] # "VMX"
  BY DEF SegmentFields, SegmentNames, Segments

LEMMA KindOfSystem == ASSUME NEW f \in SystemFields PROVE f[2] \notin SegmentNames /\ f[1] # "VMX"
  BY DEF SystemFields, SharedRegisters, GuestRegisters, SegmentNames, Segments

LEMMA KindOfControl == ASSUME NEW f \in ControlFields PROVE f[1] = "VMX"
  BY DEF ControlFields

LEMMA SameSegmentValues == ASSUME UNCHANGED cpu, NEW f PROVE SegmentValue(f)' = SegmentValue(f)
  BY DEF SegmentValue, GuestValue, HostValue, GdtEntry, PrepareSegment, SegmentLimit,
     SegmentAr, BaseUpper, Slot

LEMMA SegmentKept ==
  ASSUME NEW s, SegmentWritten(s), UNCHANGED cpu, NEW writes, Write(writes),
         \A f \in DOMAIN writes : f \notin SegmentFields \/ f[2] # s
  PROVE  SegmentWritten(s)'
<1> SUFFICES ASSUME NEW f \in SegmentFields, f[2] = s
             PROVE  f \in DOMAIN vmcs' /\ vmcs'[f] = SegmentValue(f)'
  BY DEF SegmentWritten
<1>1. f \in DOMAIN vmcs \ DOMAIN writes /\ vmcs[f] = SegmentValue(f)
  BY DEF SegmentWritten
<1> QED
  BY <1>1, Written, SameSegmentValues

LEMMA SystemKept ==
  ASSUME SystemWritten, UNCHANGED cpu, NEW writes, Write(writes),
         \A f \in DOMAIN writes : f \notin SystemFields
  PROVE  SystemWritten'
<1> SUFFICES ASSUME NEW f \in SystemFields
             PROVE  f \in DOMAIN vmcs' /\ vmcs'[f] = SystemValue(f)'
  BY DEF SystemWritten
<1>1. f \in DOMAIN vmcs \ DOMAIN writes /\ vmcs[f] = SystemValue(f)
  BY DEF SystemWritten
<1>2. SystemValue(f)' = SystemValue(f)
  BY DEF SystemValue
<1> QED
  BY <1>1, <1>2, Written

LEMMA FieldsStand ==
  ASSUME FieldsInv, UNCHANGED <<phase, launchVars, segment, vmcs>>
  PROVE  FieldsInv'
<1>1. \A s : SegmentWritten(s)' <=> SegmentWritten(s)
  BY SameSegmentValues DEF SegmentWritten, launchVars
<1>2. SystemWritten' <=> SystemWritten
  BY DEF SystemWritten, SystemValue, launchVars
<1>3. ControlsWritten' <=> ControlsWritten
  BY DEF ControlsWritten, WrittenControls, EptFields, ControlValue, Eptp, EptpFrame, launchVars
<1> QED
  BY <1>1, <1>2, <1>3 DEF FieldsInv

-----------------------------------------------------------------------------

LEMMA InitFields == Init => FieldsInv
  BY DEF Init, CsbInit, FieldsInv

LEMMA WriteSegmentKeepsFields ==
  ASSUME LaunchInv, FieldsInv, WriteSegment PROVE FieldsInv'
<1>1. CASE ReadsMissingMsr
  BY <1>1 DEF WriteSegment, FieldsInv
<1>2. CASE ~ReadsMissingMsr
  <2>1. PICK s : s = Segments[segment']
    OBVIOUS
  <2> DEFINE writes == [f \in {g \in SegmentFields : g[2] = s} |-> SegmentValue(f)]
  <2>2. Write(writes) /\ segment' = segment + 1 /\ UNCHANGED cpu
    BY <1>2, <2>1 DEF WriteSegment, launchVars
  <2>3. segment \in 0 .. 7 /\ phase = "segments"
        /\ phase' = IF segment' = 8 THEN "system" ELSE "segments"
    BY <1>2, EightSegments DEF WriteSegment, LaunchInv
  <2>4. \A i \in 1 .. segment : Segments[i] # s
    BY <2>1, <2>2, <2>3 DEF Segments
  <2>5. \A i \in 1 .. segment : SegmentWritten(Segments[i])'
    <3> SUFFICES ASSUME NEW i \in 1 .. segment PROVE SegmentWritten(Segments[i])'
      OBVIOUS
    <3>1. SegmentWritten(Segments[i])
      BY <2>3 DEF FieldsInv
    <3>2. \A f \in DOMAIN writes : f[2] # Segments[i]
      BY <2>4
    <3> HIDE DEF writes
    <3> QED
      BY <2>2, <3>1, <3>2, SegmentKept
  <2>6. SegmentWritten(s)'
    <3> SUFFICES ASSUME NEW f \in SegmentFields, f[2] = s
                 PROVE  f \in DOMAIN vmcs' /\ vmcs'[f] = SegmentValue(f)'
      BY DEF SegmentWritten
    <3>1. f \in DOMAIN writes /\ writes[f] = SegmentValue(f)
      OBVIOUS
    <3> HIDE DEF writes
    <3>2. f \in DOMAIN vmcs' /\ vmcs'[f] = writes[f]
      BY <2>2, <3>1, Written
    <3> QED
      BY <2>2, <3>1, <3>2, SameSegmentValues
  <2>7. ASSUME NEW i \in 1 .. segment' PROVE SegmentWritten(Segments[i])'
    <3>1. CASE i = segment'
      BY <2>1, <2>6, <3>1
    <3>2. CASE i # segment'
      BY <2>2, <2>3, <2>5, <3>2
    <3> QED
      BY <3>1, <3>2
  <2>8. segment' = 8 => \A t \in SegmentNames : SegmentWritten(t)'
    BY <2>7 DEF SegmentNames
  <2> QED
    BY <2>3, <2>7, <2>8 DEF FieldsInv
<1> QED
  BY <1>1, <1>2

LEMMA WriteSystemKeepsFields ==
  ASSUME FieldsInv, WriteSystem PROVE FieldsInv'
<1> DEFINE writes == [f \in SystemFields |-> SystemValue(f)]
<1>1. Write(writes) /\ UNCHANGED cpu /\ phase = "system" /\ phase' = "controls"
  BY DEF WriteSystem, launchVars
<1>2. ASSUME NEW s \in SegmentNames PROVE SegmentWritten(s)'
  <2>1. \A f \in DOMAIN writes : f[2] # s
    BY KindOfSystem
  <2>2. SegmentWritten(s)
    BY <1>1 DEF FieldsInv
  <2> HIDE DEF writes
  <2> QED
    BY <1>1, <2>1, <2>2, SegmentKept
<1>3. SystemWritten'
  <2>1. \A f \in SystemFields : f \in DOMAIN writes /\ writes[f] = SystemValue(f)
    OBVIOUS
  <2>2. \A f : SystemValue(f)' = SystemValue(f)
    BY <1>1 DEF SystemValue
  <2> HIDE DEF writes
  <2> QED
    BY <1>1, <2>1, <2>2, Written DEF SystemWritten
<1> QED
  BY <1>1, <1>2, <1>3 DEF FieldsInv

LEMMA WriteControlsKeepsFields ==
  ASSUME FieldsInv, WriteControls PROVE FieldsInv'
<1> DEFINE writes == [f \in WrittenControls |-> ControlValue(f)]
<1>1. UNCHANGED <<cpu, fixed, word, machine>> /\ phase = "controls" /\ phase' = "launching"
  BY DEF WriteControls, launchVars
<1>2. Write(writes)
  BY DEF WriteControls, WrittenControls
<1>3. \A f \in DOMAIN writes : f[1] = "VMX"
  BY DEF WrittenControls, EptFields
<1>4. ASSUME NEW s \in SegmentNames PROVE SegmentWritten(s)'
  <2>1. \A f \in DOMAIN writes : f \notin SegmentFields
    BY <1>3, KindOfSegment
  <2>2. SegmentWritten(s)
    BY <1>1 DEF FieldsInv
  <2> HIDE DEF writes
  <2> QED
    BY <1>1, <1>2, <2>1, <2>2, SegmentKept
<1>5. SystemWritten'
  <2>1. \A f \in DOMAIN writes : f \notin SystemFields
    BY <1>3, KindOfSystem
  <2>2. SystemWritten
    BY <1>1 DEF FieldsInv
  <2> HIDE DEF writes
  <2> QED
    BY <1>1, <1>2, <2>1, <2>2, SystemKept
<1>6. ControlsWritten'
  <2>1. WrittenControls' = WrittenControls /\ \A f : ControlValue(f)' = ControlValue(f)
    BY <1>1 DEF WrittenControls, EptFields, ControlValue, Eptp, EptpFrame
  <2>2. \A f \in WrittenControls : f \in DOMAIN writes /\ writes[f] = ControlValue(f)
    OBVIOUS
  <2> HIDE DEF writes
  <2>3. \A f \in WrittenControls : f \in DOMAIN vmcs' /\ vmcs'[f] = ControlValue(f)
    BY <1>2, <2>2, Written
  <2> QED
    BY <2>1, <2>3 DEF ControlsWritten
<1> QED
  BY <1>1, <1>4, <1>5, <1>6 DEF FieldsInv

LEMMA NextFields == LaunchInv /\ FieldsInv /\ [Next]_vars => FieldsInv'
<1> SUFFICES ASSUME LaunchInv, FieldsInv, [Next]_vars PROVE FieldsInv'
  OBVIOUS
<1>1. CASE Prepare
  BY <1>1 DEF Prepare, CsbNext, ReadFeatures, Refuse, ReadFixedControls, MapMemory, NoDatabase,
     NoEpt, MemoryFault, ComputeWords, FieldsInv
<1>2. CASE Start
  BY <1>2 DEF Start, LaunchInv, FieldsInv
<1>3. CASE WriteSegment
  BY <1>3, WriteSegmentKeepsFields
<1>4. CASE WriteSystem
  BY <1>4, WriteSystemKeepsFields
<1>5. CASE WriteControls
  BY <1>5, WriteControlsKeepsFields
<1>6. CASE Vmlaunch
  BY <1>6 DEF Vmlaunch, FieldsInv
<1>7. CASE UNCHANGED vars
  BY <1>7, FieldsStand DEF vars, launchVars
<1> QED
  BY <1>1, <1>2, <1>3, <1>4, <1>5, <1>6, <1>7 DEF Next

LEMMA FieldsInvariance == Spec => [](CsbInv /\ LaunchInv /\ FieldsInv)
<1>1. CsbInv /\ LaunchInv /\ FieldsInv /\ [Next]_vars => (CsbInv /\ LaunchInv /\ FieldsInv)'
  BY NextCsbInv, LaunchKeeps, NextFields
<1> QED
  BY <1>1, InitCsbInv, InitLaunchInv, InitFields, PTL DEF Spec

-----------------------------------------------------------------------------
(* What PrepareSegment makes of a selector is what the processor holds.      *)

LEMMA ItsSelector ==
  ASSUME LaunchInv, NEW s \in SegmentNames
  PROVE  LET selector == cpu.selector[s]
         IN  /\ selector \in Nat /\ selector % 8 < 4
             /\ ~Null(selector) => /\ Slot(selector).ar \in Nat \ {0}
                                   /\ Slot(selector).system = (s \in {"LDTR", "TR"})
  BY CpusAssumption DEF LaunchInv, CpuRuns, Null, Slot

LEMMA SegmentAccess ==
  ASSUME NEW selector \in Nat
  PROVE  /\ Null(selector) => SegmentAr(selector) = Unusable
         /\ ~Null(selector) /\ Slot(selector).ar \in Nat \ {0}
               => SegmentAr(selector) = Slot(selector).ar
<1>1. CASE Null(selector)
  <2>1. selector \div 256 = 0
    BY <1>1 DEF Null
  <2> QED
    BY <1>1, <2>1 DEF SegmentAr
<1>2. CASE ~Null(selector)
  BY <1>2 DEF SegmentAr
<1> QED
  BY <1>1, <1>2

LEMMA GuestParts ==
  ASSUME LaunchInv, NEW s \in SegmentNames
  PROVE  LET selector == cpu.selector[s]
         IN  /\ GuestValue(s, "SELECTOR") = selector
             /\ Null(selector) => GuestValue(s, "AR") = Unusable
             /\ ~Null(selector) =>
                   /\ GuestValue(s, "AR") = Slot(selector).ar
                   /\ GuestValue(s, "LIMIT") = Slot(selector).limit
                   /\ GuestValue(s, "BASE") = HiddenBase(s)
<1> DEFINE selector == cpu.selector[s]
           entry == PrepareSegment(selector)
<1>1. /\ selector \in Nat
      /\ ~Null(selector) => /\ Slot(selector).ar \in Nat \ {0}
                            /\ Slot(selector).system = (s \in {"LDTR", "TR"})
  BY ItsSelector
<1>2. /\ GdtEntry(s).SELECTOR = entry.SELECTOR
      /\ GdtEntry(s).AR = entry.AR
      /\ GdtEntry(s).LIMIT = entry.LIMIT
      /\ s \notin {"FS", "GS"} => GdtEntry(s).BASE = entry.BASE
      /\ s = "FS" => GdtEntry(s).BASE = cpu.fsBase
      /\ s = "GS" => GdtEntry(s).BASE = cpu.gsBase
  BY DEF GdtEntry, PrepareSegment
<1>3. /\ entry.SELECTOR = selector /\ entry.AR = SegmentAr(selector)
      /\ entry.LIMIT = SegmentLimit(selector)
      /\ entry.BASE = <<Slot(selector).base, BaseUpper(selector)>>
  BY DEF PrepareSegment
<1>4. ~Null(selector) => GdtEntry(s).BASE = HiddenBase(s)
  BY <1>1, <1>2, <1>3 DEF HiddenBase, BaseUpper
<1> QED
  BY <1>1, <1>2, <1>3, <1>4, SegmentAccess DEF GuestValue, SegmentLimit

LEMMA GuestFields ==
  ASSUME FieldsInv, phase = "launching", NEW s \in SegmentNames,
         NEW part \in {"SELECTOR", "BASE", "LIMIT", "AR"}
  PROVE  vmcs[<<"GUEST", s, part>>] = GuestValue(s, part)
<1>1. <<"GUEST", s, part>> \in SegmentFields
  BY DEF SegmentFields
<1>2. SegmentWritten(s)
  BY DEF FieldsInv
<1> QED
  BY <1>1, <1>2 DEF SegmentWritten, SegmentValue

(* For any registers the guest begins as the processor it was launched on:   *)
(* every segment, every register, and the frame and label of __vmx_start.    *)
THEOREM GuestBeginsAsProcessor == Spec => []GuestContinues
<1>1. LaunchInv /\ FieldsInv => GuestContinues
  <2> SUFFICES ASSUME LaunchInv, FieldsInv, phase = "launching" PROVE GuestContinues
    BY DEF GuestContinues
  <2>1. ASSUME NEW s \in SegmentNames
        PROVE  LET selector == cpu.selector[s]
                   Field(part) == vmcs[<<"GUEST", s, part>>]
               IN  /\ Field("SELECTOR") = selector
                   /\ IF Null(selector) THEN Field("AR") = Unusable
                      ELSE /\ Field("AR") = Slot(selector).ar
                           /\ Field("LIMIT") = Slot(selector).limit
                           /\ Field("BASE") = HiddenBase(s)
    BY GuestFields, GuestParts
  <2>2. SystemWritten
    BY DEF FieldsInv
  <2>3. ASSUME NEW r \in SharedRegisters \cup GuestRegisters
        PROVE  vmcs[<<"GUEST", r>>] = cpu.system[r]
    <3>1. <<"GUEST", r>> \in SystemFields
      BY DEF SystemFields
    <3>2. r \notin {"RSP", "RIP", "INTERRUPTIBILITY", "ACTIVITY_STATE", "VMCS_LINK_PTR"}
      BY DEF SharedRegisters, GuestRegisters
    <3> QED
      BY <2>2, <3>1, <3>2 DEF SystemWritten, SystemValue
  <2>4. vmcs[<<"GUEST", "RSP">>] = "start frame" /\ vmcs[<<"GUEST", "RIP">>] = "resume"
    <3>1. <<"GUEST", "RSP">> \in SystemFields /\ <<"GUEST", "RIP">> \in SystemFields
      BY DEF SystemFields
    <3> QED
      BY <2>2, <3>1 DEF SystemWritten, SystemValue
  <2> QED
    BY <2>1, <2>3, <2>4 DEF GuestContinues
<1> QED
  BY <1>1, FieldsInvariance, PTL

-----------------------------------------------------------------------------
(* What vmlaunch checks.                                                     *)

LEMMA RplMaskedIsAligned ==
  ASSUME NEW selector \in Nat, selector % 8 < 4
  PROVE  RplMasked(selector) % 8 = 0 /\ (~Null(selector) => RplMasked(selector) # 0)
<1>1. PICK q \in Nat, r \in 0 .. 3 : selector = 8 * q + r
  <2>1. selector \div 8 \in Nat /\ selector % 8 \in 0 .. 3
        /\ selector = 8 * (selector \div 8) + (selector % 8)
    OBVIOUS
  <2> QED
    BY <2>1
<1>2. selector % 4 = r
  BY <1>1
<1>3. RplMasked(selector) = 8 * q
  BY <1>1, <1>2 DEF RplMasked
<1> QED
  BY <1>1, <1>3 DEF Null

LEMMA HostSelectors ==
  ASSUME FieldsInv, phase = "launching", NEW s \in SegmentNames \ {"LDTR"}
  PROVE  vmcs[<<"HOST", s, "SELECTOR">>] = RplMasked(cpu.selector[s])
<1>1. <<"HOST", s, "SELECTOR">> \in SegmentFields
  BY DEF SegmentFields
<1>2. SegmentWritten(s)
  BY DEF FieldsInv
<1> QED
  BY <1>1, <1>2 DEF SegmentWritten, SegmentValue, HostValue

(* An EPT or a VPID that is on is one the driver wished for.                 *)
LEMMA EptWords ==
  ASSUME CsbInv, Prepared, "ENABLE_EPT" \in word.Secondary \/ "ENABLE_VPID" \in word.Secondary
  PROVE  "ENABLE_EPT" \in word.Secondary
<1>0. machine \in Machines /\ fixed = FixedOfMachine
      /\ word = [w \in Words |-> Fit(Wish[w], fixed[w])]
      /\ (ept # NoMap => EptCapable)
  BY PreparedIsPhase DEF CsbInv, ControlsFollow, EptFollows
<1>1. "Secondary" \in Words
  BY DEF Words
<1>2. fixed.Secondary.low = {}
  BY <1>0, <1>1, MachinesAssumption DEF FixedOfMachine, Zero
<1>3. EptReady
  BY <1>0, <1>1, <1>2 DEF Fit, Wish
<1>4. EptCapable
  BY <1>0, <1>3 DEF EptReady
<1>5. "SECONDARY_CONTROLS" \in FixedOf("Primary").high /\ machine.cap # {}
  BY <1>4 DEF EptCapable, HasEptVpidCap, EPT_CAPABILITIES
<1>6. "ENABLE_EPT" \in fixed.Secondary.high
  BY <1>0, <1>1, <1>5, MachinesAssumption DEF FixedOfMachine
<1> QED
  BY <1>0, <1>1, <1>3, <1>6 DEF Fit, Wish

LEMMA AddressSpaceWord ==
  ASSUME CsbInv, Prepared, NEW w \in {"Exit", "Entry"}
  PROVE  machine.x64 <=> "ADDRESS_SPACE" \in word[w]
<1>1. machine \in Machines /\ fixed = FixedOfMachine
      /\ word = [v \in Words |-> Fit(Wish[v], fixed[v])]
  BY PreparedIsPhase DEF CsbInv, ControlsFollow
<1>2. fixed[w] = FixedOf(w) /\ w \in Words
  BY <1>1 DEF FixedOfMachine, Words
<1>3. word[w] = Fit(Wish[w], FixedOf(w))
  BY <1>1, <1>2
<1>4. CASE machine.x64
  <2>1. "ADDRESS_SPACE" \in FixedOf(w).high
    BY <1>1, <1>4, MachinesAssumption DEF FixedOf
  <2>2. "ADDRESS_SPACE" \in Wish[w]
    BY <1>4 DEF Wish
  <2> QED
    BY <1>3, <1>4, <2>1, <2>2 DEF Fit
<1>5. CASE ~machine.x64
  <2>1. "ADDRESS_SPACE" \in Defined[w]
    BY DEF Defined, EXIT_CONTROLS_DEFINED, ENTRY_CONTROLS_DEFINED
  <2>2. "ADDRESS_SPACE" \notin FixedOf(w).low
    BY <1>1, <1>5, <2>1, MachinesAssumption DEF FixedOf, LowPart
  <2>3. "ADDRESS_SPACE" \notin Wish[w]
    BY <1>5 DEF Wish
  <2> QED
    BY <1>3, <1>5, <2>2, <2>3 DEF Fit
<1> QED
  BY <1>4, <1>5

(* On any machine and for any registers vmlaunch finds the fields it needs,  *)
(* and they agree with one another.                                          *)
THEOREM EntryChecked == Spec => []EntryChecksPass
<1>1. CsbInv /\ LaunchInv /\ FieldsInv => EntryChecksPass
  <2> SUFFICES ASSUME CsbInv, LaunchInv, FieldsInv, phase = "launching"
               PROVE  EntryChecksPass
    BY DEF EntryChecksPass
  <2>0. Prepared /\ SystemWritten /\ ControlsWritten
    BY DEF Prepared, FieldsInv
  <2>1. SegmentFields \cup SystemFields \subseteq DOMAIN vmcs
    <3>1. ASSUME NEW f \in SegmentFields PROVE f \in DOMAIN vmcs
      BY KindOfSegment DEF FieldsInv, SegmentWritten
    <3> QED
      BY <2>0, <3>1 DEF SystemWritten
  <2>2. ASSUME NEW s \in SegmentNames \ {"LDTR"}
        PROVE  vmcs[<<"HOST", s, "SELECTOR">>] % 8 = 0
    BY HostSelectors, ItsSelector, RplMaskedIsAligned
  <2>3. ASSUME NEW s \in {"CS", "TR"} PROVE vmcs[<<"HOST", s, "SELECTOR">>] # 0
    <3>1. s \in SegmentNames \ {"LDTR"}
      BY DEF SegmentNames, Segments
    <3>2. ~Null(cpu.selector[s])
      <4>1. cpu.selector[s] >= 4 /\ cpu.selector[s] \in Nat
        BY <3>1, CpusAssumption, ItsSelector DEF LaunchInv, CpuRuns
      <4> QED
        BY <4>1 DEF Null
    <3>3. cpu.selector[s] \in Nat /\ cpu.selector[s] % 8 < 4
      BY <3>1, ItsSelector
    <3>4. RplMasked(cpu.selector[s]) # 0
      BY <3>2, <3>3, RplMaskedIsAligned
    <3> QED
      BY <3>1, <3>4, HostSelectors
  <2>4. ASSUME "ENABLE_EPT" \in word.Secondary \/ "ENABLE_VPID" \in word.Secondary
        PROVE  /\ <<"VMX", "VPID">> \in DOMAIN vmcs /\ <<"VMX", "EPTP">> \in DOMAIN vmcs
               /\ vmcs[<<"VMX", "EPTP">>] = Eptp
    <3>1. "ENABLE_EPT" \in word.Secondary
      BY <2>0, <2>4, EptWords
    <3>2. {<<"VMX", "VPID">>, <<"VMX", "EPTP">>} \subseteq WrittenControls
      BY <3>1 DEF WrittenControls, EptFields
    <3>3. ControlValue(<<"VMX", "EPTP">>) = Eptp
      BY DEF ControlValue
    <3> QED
      BY <2>0, <3>2, <3>3 DEF ControlsWritten
  <2>5. FrameIsNameable => Eptp.PageFrameNumber = machine.phys[Pml4ePage]
    <3>1. Pml4ePage \in RegionPages
      BY PerPageAssumption DEF Pml4ePage, RegionPages, FirstPdePage
    <3>2. machine.phys[Pml4ePage] \in Nat
      BY <3>1, MachinesAssumption DEF CsbInv
    <3>3. FrameIsNameable => EptpFrame = machine.phys[Pml4ePage]
      BY <3>2, HighFrameAssumption DEF FrameIsNameable, EptpFrame
    <3> QED
      BY <3>3 DEF Eptp
  <2>6. ASSUME NEW w \in {"Exit", "Entry"}
        PROVE  machine.x64 <=> "ADDRESS_SPACE" \in vmcs[<<"VMX", w>>]
    <3>1. <<"VMX", w>> \in WrittenControls
      BY DEF WrittenControls, Words
    <3>2. ControlValue(<<"VMX", w>>) = word[w]
      BY DEF ControlValue
    <3>3. vmcs[<<"VMX", w>>] = word[w]
      BY <2>0, <3>1, <3>2 DEF ControlsWritten
    <3> QED
      BY <2>0, <3>3, AddressSpaceWord
  <2> QED
    BY <2>1, <2>2, <2>3, <2>4, <2>5, <2>6 DEF EntryChecksPass
<1> QED
  BY <1>1, FieldsInvariance, PTL
=============================================================================
