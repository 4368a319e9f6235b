--------------------------- MODULE EntryStateProofs ---------------------------
(***************************************************************************)
(* What the control block is, and what of it the launch relies on, for any *)
(* machines that satisfy MachinesAssumption and any tables.                *)
(*                                                                         *)
(* The invariant follows __vmx_prepare_csb: each phase has computed the    *)
(* part of the control block that it leaves to the next, as a function of  *)
(* the machine alone, and the launch changes none of it.                   *)
(***************************************************************************)
EXTENDS EntryState, MtrrProofs

Started == {"segments", "system", "controls", "launching", "guest", "native"}
PreparedPhases == {"prepared"} \cup Started

FixedOfMachine ==
    [w \in Words |->
        IF w # "Secondary" THEN FixedOf(w)
        ELSE IF "SECONDARY_CONTROLS" \in FixedOf("Primary").high
        THEN machine.fixed.Secondary
        ELSE Zero]

BitmapOfMsrs == UNION {EnableMsr(m) : m \in EnabledMsrs}

ControlsFollow ==
    /\ phase \in {"memory", "words"} \cup PreparedPhases => fixed = FixedOfMachine
    /\ phase \in PreparedPhases => word = [w \in Words |-> Fit(Wish[w], fixed[w])]

EptFollows ==
    /\ phase \in {"cpuid", "fixed", "memory"} => ept = NoMap /\ status = "STATUS_SUCCESS"
    /\ phase \in {"words"} \cup PreparedPhases =>
          /\ ept # NoMap => /\ EptCapable
                            /\ ranges = Ranges(machine.mtrrs, machine.x64)
                            /\ ept = PrepareEpt(ranges, machine.phys)
          /\ status = "STATUS_SUCCESS" => (EptCapable => ept # NoMap)
    /\ phase \in PreparedPhases => status = "STATUS_SUCCESS"

BitmapFollows ==
    /\ msrBitmap \in {{}, BitmapOfMsrs}
    /\ phase \in {"fixed", "memory", "words"} \cup PreparedPhases => msrBitmap = BitmapOfMsrs

WordsNamed == \A w \in Words : word[w] \subseteq Defined[w] \cup {"default1"}

CsbInv ==
    /\ phase \in Phases /\ machine \in Machines
    /\ status \in {"STATUS_SUCCESS", "STATUS_UNSUCCESSFUL", "STATUS_NOT_SUPPORTED"}
    /\ WordsNamed
    /\ ControlsFollow /\ EptFollows /\ BitmapFollows

-----------------------------------------------------------------------------

LEMMA InitCsbInv == Init => CsbInv
  BY DEF Init, CsbInit, CsbInv, Phases, PreparedPhases, Started, WordsNamed, ControlsFollow,
     EptFollows, BitmapFollows

(* A launch that goes on leaves the control block alone. *)
LEMMA LaunchStep ==
  ASSUME CsbInv, phase \in PreparedPhases, phase' \in PreparedPhases \cup {"fault"},
         UNCHANGED <<machine, fixed, word, msrBitmap, ranges, ept, status>>
  PROVE  CsbInv'
<1>1. ControlsFollow'
  BY DEF CsbInv, ControlsFollow, PreparedPhases, Started, FixedOfMachine, FixedOf, Wish,
     EptReady
<1>2. EptFollows'
  BY DEF CsbInv, EptFollows, PreparedPhases, Started, EptCapable, HasEptVpidCap, FixedOf
<1>3. BitmapFollows' /\ WordsNamed'
  BY DEF CsbInv, BitmapFollows, WordsNamed, PreparedPhases, Started
<1> QED
  BY <1>1, <1>2, <1>3 DEF CsbInv, Phases, PreparedPhases, Started

(* No control is on that the word does not name. *)
LEMMA FixedNamed ==
  ASSUME CsbInv, NEW w \in Words
  PROVE  /\ FixedOfMachine[w].low \subseteq FixedOfMachine[w].high
         /\ FixedOfMachine[w].high \subseteq Defined[w] \cup {"default1"}
<1>1. machine \in Machines
  BY DEF CsbInv
<1>2. CASE w = "Secondary"
  BY <1>1, <1>2, MachinesAssumption DEF FixedOfMachine, Zero
<1>3. CASE w # "Secondary"
  <2>1. FixedOfMachine[w] = FixedOf(w)
    BY <1>3 DEF FixedOfMachine
  <2>2. CASE machine.trueCtls
    <3>1. machine.trueFixed[w].low \cup machine.fixed[w].low
            \subseteq machine.trueFixed[w].high
      BY <1>1, <1>3, MachinesAssumption
    <3>2. machine.trueFixed[w].high \subseteq Defined[w] \cup {"default1"}
      BY <1>1, <1>3, MachinesAssumption
    <3> QED
      BY <2>1, <2>2, <3>1, <3>2 DEF FixedOf, LowPart
  <2>3. CASE ~machine.trueCtls
    BY <1>1, <2>1, <2>3, MachinesAssumption DEF FixedOf
  <2> QED
    BY <2>2, <2>3
<1> QED
  BY <1>2, <1>3

LEMMA MapIsNotNone == ASSUME NEW r, NEW p PROVE PrepareEpt(r, p) # NoMap
<1>1. 0 \in LargePages
  BY PerPageAssumption DEF LargePages
<1>2. DOMAIN PrepareEpt(r, p).Pde = LargePages
  BY DEF PrepareEpt
<1>3. DOMAIN NoMap.Pde = {}
  BY DEF NoMap
<1> QED
  BY <1>1, <1>2, <1>3

LEMMA PrepareStep == CsbInv /\ CsbNext => CsbInv'
<1> SUFFICES ASSUME CsbInv, CsbNext PROVE CsbInv'
  OBVIOUS
<1> USE DEF PreparedPhases, Started
<1>0. UNCHANGED machine
  BY DEF CsbNext, ReadFeatures, Refuse, ReadFixedControls, MapMemory, NoDatabase, NoEpt,
     MemoryFault, ComputeWords
<1>a. FixedOfMachine' = FixedOfMachine /\ EptCapable' = EptCapable
  BY <1>0 DEF FixedOfMachine, FixedOf, EptCapable, HasEptVpidCap
<1>1. CASE ReadFeatures
  BY <1>1 DEF ReadFeatures, Refuse, CsbInv, Phases, WordsNamed, ControlsFollow, EptFollows,
     BitmapFollows, BitmapOfMsrs
<1>2. CASE ReadFixedControls
  <2>1. ControlsFollow'
    BY <1>2, <1>a DEF ReadFixedControls, ControlsFollow, FixedOfMachine
  <2> QED
    BY <1>2, <2>1 DEF ReadFixedControls, CsbInv, Phases, WordsNamed, EptFollows,
       BitmapFollows
<1>3. CASE MapMemory
  <2>1. ControlsFollow'
    BY <1>3, <1>a DEF MapMemory, CsbInv, ControlsFollow
  <2>2. EptFollows'
    BY <1>3, <1>a, MapIsNotNone DEF MapMemory, CsbInv, EptFollows
  <2> QED
    BY <1>3, <2>1, <2>2 DEF MapMemory, CsbInv, Phases, WordsNamed, BitmapFollows
<1>4. CASE NoDatabase
  <2>1. ControlsFollow' /\ EptFollows'
    BY <1>4, <1>a DEF NoDatabase, CsbInv, ControlsFollow, EptFollows
  <2> QED
    BY <1>4, <2>1 DEF NoDatabase, CsbInv, Phases, WordsNamed, BitmapFollows
<1>5. CASE NoEpt
  <2>1. ControlsFollow' /\ EptFollows'
    BY <1>5, <1>a DEF NoEpt, CsbInv, ControlsFollow, EptFollows
  <2> QED
    BY <1>5, <2>1 DEF NoEpt, CsbInv, Phases, WordsNamed, BitmapFollows
<1>6. CASE MemoryFault
  BY <1>6 DEF MemoryFault, CsbInv, Phases, WordsNamed, ControlsFollow, EptFollows,
     BitmapFollows
<1>7. CASE ComputeWords
  <2>1. fixed' = FixedOfMachine /\ fixed = FixedOfMachine
    BY <1>7 DEF ComputeWords, CsbInv, ControlsFollow
  <2>2. Wish' = Wish
    BY <1>7 DEF ComputeWords, Wish, EptReady
  <2>3. ControlsFollow'
    BY <1>7, <1>a, <2>1, <2>2 DEF ComputeWords, ControlsFollow
  <2>4. WordsNamed'
    BY <1>7, <2>1, FixedNamed DEF ComputeWords, WordsNamed, Fit
  <2>5. EptFollows'
    BY <1>7, <1>a DEF ComputeWords, CsbInv, EptFollows
  <2> QED
    BY <1>7, <2>3, <2>4, <2>5 DEF ComputeWords, CsbInv, Phases, BitmapFollows
<1> QED
  BY <1>1, <1>2, <1>3, <1>4, <1>5, <1>6, <1>7 DEF CsbNext

LEMMA NextCsbInv == CsbInv /\ [Next]_vars => CsbInv'
<1> SUFFICES ASSUME CsbInv, [Next]_vars PROVE CsbInv'
  OBVIOUS
<1> USE DEF PreparedPhases, Started, launchVars
<1>1. CASE Prepare
  BY <1>1, PrepareStep DEF Prepare
<1>2. CASE Start
  BY <1>2, LaunchStep DEF Start
<1>3. CASE WriteSegment
  <2>1. phase' \in {"segments", "system", "fault"}
    BY <1>3 DEF WriteSegment
  <2> QED
    BY <1>3, <2>1, LaunchStep DEF WriteSegment
<1>4. CASE WriteSystem
  BY <1>4, LaunchStep DEF WriteSystem
<1>5. CASE WriteControls
  BY <1>5, LaunchStep DEF WriteControls
<1>6. CASE Vmlaunch
  BY <1>6, LaunchStep DEF Vmlaunch
<1>7. CASE UNCHANGED vars
  <2>1. ControlsFollow'
    BY <1>7 DEF vars, CsbInv, ControlsFollow, FixedOfMachine, FixedOf, Wish, EptReady
  <2>2. EptFollows'
    BY <1>7 DEF vars, CsbInv, EptFollows, EptCapable, HasEptVpidCap, FixedOf
  <2> QED
    BY <1>7, <2>1, <2>2 DEF vars, CsbInv, WordsNamed, BitmapFollows
<1> QED
  BY <1>1, <1>2, <1>3, <1>4, <1>5, <1>6, <1>7 DEF Next

LEMMA Invariance == Spec => []CsbInv
BY InitCsbInv, NextCsbInv, PTL DEF Spec

LEMMA PreparedIsPhase == CsbInv /\ Prepared => phase \in PreparedPhases
  BY DEF CsbInv, Prepared, Phases, PreparedPhases, Started

-----------------------------------------------------------------------------

(* On any machine the words are what the processor requires and allows.      *)
THEOREM ControlsLegal == Spec => []ControlWordsLegal
<1>1. CsbInv => ControlWordsLegal
  <2> SUFFICES ASSUME CsbInv, Prepared PROVE ControlWordsLegal
    BY DEF ControlWordsLegal
  <2>0. machine \in Machines /\ fixed = FixedOfMachine
        /\ word = [w \in Words |-> Fit(Wish[w], fixed[w])]
    BY PreparedIsPhase DEF CsbInv, ControlsFollow
  <2> DEFINE Required(w) == IF machine.trueCtls /\ w # "Secondary" THEN machine.trueFixed[w]
                            ELSE machine.fixed[w]
  <2>1. ASSUME NEW w \in Words, w # "Secondary"
        PROVE  Required(w).low \subseteq word[w] /\ word[w] \subseteq Required(w).high
    <3>1. fixed[w] = FixedOf(w)
      BY <2>0, <2>1 DEF FixedOfMachine
    <3>2. Required(w).low \subseteq fixed[w].low /\ fixed[w].high = Required(w).high
      BY <3>1, <2>1 DEF FixedOf, LowPart
    <3>3. fixed[w].low \subseteq fixed[w].high
      BY <2>0, FixedNamed
    <3> QED
      BY <2>0, <3>2, <3>3 DEF Fit
  <2>2. "Primary" \in Words /\ "Secondary" \in Words
    BY DEF Words
  <2>3. "SECONDARY_CONTROLS" \in FixedOf("Primary").high => "SECONDARY_CONTROLS" \in word.Primary
    BY <2>0, <2>2 DEF FixedOfMachine, Fit, Wish
  <2>4. CASE "SECONDARY_CONTROLS" \in FixedOf("Primary").high
    <3>1. fixed.Secondary = machine.fixed.Secondary
      BY <2>0, <2>2, <2>4 DEF FixedOfMachine
    <3>2. fixed["Secondary"].low \subseteq fixed["Secondary"].high
      BY <2>0, <2>2, FixedNamed
    <3>3. /\ machine.fixed["Secondary"].low \subseteq word["Secondary"]
          /\ word["Secondary"] \subseteq machine.fixed["Secondary"].high
      BY <2>0, <2>2, <3>1, <3>2 DEF Fit
    <3>4. \A w \in Words : Required(w).low \subseteq word[w] /\ word[w] \subseteq Required(w).high
      <4> SUFFICES ASSUME NEW w \in Words
                   PROVE  Required(w).low \subseteq word[w] /\ word[w] \subseteq Required(w).high
        OBVIOUS
      <4>1. CASE w = "Secondary"
        BY <3>3, <4>1
      <4>2. CASE w # "Secondary"
        BY <2>1, <4>2
      <4> QED
        BY <4>1, <4>2
    <3>5. "SECONDARY_CONTROLS" \in word.Primary
      BY <2>3, <2>4
    <3> DEFINE used == IF "SECONDARY_CONTROLS" \in word.Primary THEN Words
                       ELSE Words \ {"Secondary"}
    <3>6. /\ \A w \in used : Required(w).low \subseteq word[w] /\ word[w] \subseteq Required(w).high
          /\ "Secondary" \notin used => word.Secondary = {}
      BY <2>2, <3>4, <3>5
    <3> QED
      BY <3>6, Zenon DEF ControlWordsLegal
  <2>5. CASE "SECONDARY_CONTROLS" \notin FixedOf("Primary").high
    <3>1. word.Secondary = {}
      BY <2>0, <2>2, <2>5 DEF FixedOfMachine, Fit, Zero
    <3>2. word["Primary"] \subseteq Required("Primary").high
      BY <2>1, <2>2
    <3>3. "SECONDARY_CONTROLS" \notin word.Primary
      BY <2>5, <3>2 DEF FixedOf
    <3> QED
      BY <2>1, <3>1, <3>3 DEF ControlWordsLegal
  <2> QED
    BY <2>4, <2>5
<1> QED
  BY <1>1, Invariance, PTL

(* A control that is on is wished for or required.                           *)
THEOREM WishedOnly == Spec => []OnlyWishedControls
<1>1. CsbInv => OnlyWishedControls
  <2> SUFFICES ASSUME CsbInv, Prepared, machine.trueCtls, NEW w \in Words \ {"Secondary"}
               PROVE  word[w] \cap Defined[w] \subseteq Wish[w] \cup machine.trueFixed[w].low
    BY DEF OnlyWishedControls
  <2>1. word[w] = Fit(Wish[w], FixedOf(w))
    BY PreparedIsPhase DEF CsbInv, ControlsFollow, FixedOfMachine
  <2> QED
    BY <2>1 DEF Fit, FixedOf, LowPart
<1> QED
  BY <1>1, Invariance, PTL

(* A processor with the capabilities has EPT on, and no other has.           *)
THEOREM EptOrNone == Spec => []EptOrNothing
<1>1. CsbInv => EptOrNothing
  <2> SUFFICES ASSUME CsbInv, Prepared PROVE EptOrNothing
    BY DEF EptOrNothing
  <2>0. /\ machine \in Machines /\ fixed = FixedOfMachine
        /\ word = [w \in Words |-> Fit(Wish[w], fixed[w])]
        /\ ept # NoMap => EptCapable
        /\ EptCapable => ept # NoMap
    BY PreparedIsPhase DEF CsbInv, ControlsFollow, EptFollows
  <2>1. CASE EPT_CAPABILITIES \subseteq machine.cap
    <3>1. machine.cap # {}
      BY <2>1 DEF EPT_CAPABILITIES
    <3>2. /\ "SECONDARY_CONTROLS" \in FixedOf("Primary").high
          /\ "ENABLE_EPT" \in machine.fixed.Secondary.high
      BY <2>0, <3>1, MachinesAssumption DEF FixedOf
    <3>3. EptReady
      BY <2>0, <2>1, <3>2 DEF EptReady, EptCapable, HasEptVpidCap
    <3>4. "ENABLE_EPT" \in Wish["Secondary"]
      BY <3>3 DEF Wish
    <3>5. fixed["Secondary"] = machine.fixed.Secondary
      BY <2>0, <3>2 DEF FixedOfMachine, Words
    <3>6. "ENABLE_EPT" \in word["Secondary"]
      BY <2>0, <3>2, <3>4, <3>5 DEF Fit, Words
    <3> QED
      BY <2>1, <3>3, <3>6 DEF EptOrNothing
  <2>2. CASE ~(EPT_CAPABILITIES \subseteq machine.cap)
    BY <2>0, <2>2 DEF EptOrNothing, EptReady, EptCapable
  <2> QED
    BY <2>1, <2>2
<1> QED
  BY <1>1, Invariance, PTL

-----------------------------------------------------------------------------

LEMMA PageFound ==
  ASSUME CsbInv, NEW p \in RegionPages
  PROVE  PageAt(machine.phys, machine.phys[p]) = p
<1>1. \A q \in RegionPages : machine.phys[q] = machine.phys[p] => q = p
  BY MachinesAssumption DEF CsbInv
<1> QED
  BY <1>1 DEF PageAt

LEMMA EntryIndex ==
  ASSUME NEW i \in Entries, NEW j \in Entries
  PROVE  /\ i * PerPage + j \in LargePages
         /\ PdePage(i) \in RegionPages /\ PdePage(i) - FirstPdePage = i
         /\ PdePage(i) # Pml4ePage /\ PdePage(i) # PdptePage
<1>1. PerPage \in Nat \ {0} /\ i \in Nat /\ j \in Nat /\ i <= PerPage - 1 /\ j <= PerPage - 1
  BY PerPageAssumption DEF Entries
<1>2. i * PerPage <= (PerPage - 1) * PerPage /\ i * PerPage \in Nat
  BY <1>1
<1>3. (PerPage - 1) * PerPage = PerPage * PerPage - PerPage
  BY <1>1
<1>4. i * PerPage + j \in LargePages
  BY <1>1, <1>2, <1>3 DEF LargePages
<1> QED
  BY <1>1, <1>4 DEF PdePage, FirstPdePage, RegionPages, Pml4ePage, PdptePage

(* The tables map every large page to itself, for tables of any size and     *)
(* wherever their pages are.                                                 *)
THEOREM MapsToItself == Spec => []EptMapIsIdentity
<1>1. CsbInv => EptMapIsIdentity
  <2> SUFFICES ASSUME CsbInv, Prepared, EptReady, NEW i \in Entries, NEW j \in Entries
               PROVE  Walk(ept, machine.phys, machine.phys[Pml4ePage], i, j).PageFrameNumber
                        = (i * PerPage + j) * LargePage
    BY DEF EptMapIsIdentity
  <2>1. ept = PrepareEpt(ranges, machine.phys)
    BY PreparedIsPhase DEF CsbInv, EptFollows, EptReady
  <2>2. Pml4ePage \in RegionPages /\ PdptePage \in RegionPages
    BY PerPageAssumption DEF Pml4ePage, PdptePage, RegionPages, FirstPdePage
  <2>3. TableEntry(ept, PageAt(machine.phys, machine.phys[Pml4ePage]), 0)
          = machine.phys[PdptePage]
    BY <2>1, <2>2, PageFound DEF TableEntry, PrepareEpt
  <2>4. TableEntry(ept, PageAt(machine.phys, machine.phys[PdptePage]), i)
          = machine.phys[PdePage(i)]
    BY <2>1, <2>2, PageFound DEF TableEntry, PrepareEpt, Pml4ePage, PdptePage
  <2>5. TableEntry(ept, PageAt(machine.phys, machine.phys[PdePage(i)]), j)
          = ept.Pde[i * PerPage + j]
    BY EntryIndex, PageFound DEF TableEntry
  <2>6. ept.Pde[i * PerPage + j].PageFrameNumber = (i * PerPage + j) * LargePage
    BY <2>1, EntryIndex DEF PrepareEpt
  <2> QED
    BY <2>3, <2>4, <2>5, <2>6 DEF Walk
<1> QED
  BY <1>1, Invariance, PTL

-----------------------------------------------------------------------------
(* Each range of the database holds the addresses that its MTRR matches, if  *)
(* that has a power of two for a size: on x64 for every such MTRR, on x86    *)
(* for those that match memory below 4 GB.                                   *)
THEOREM RangesMatch == Spec => []RangesAreTheMtrrs
<1>1. CsbInv => RangesAreTheMtrrs
  <2> SUFFICES ASSUME CsbInv, Prepared, EptReady, NEW r \in DOMAIN ranges,
                      NEW page \in 0 .. 2 ^ (MtrrMaxRangeShift - PageShift) - 1,
                      machine.mtrrs[r].valid,
                      machine.x64 \/ Below4GB(machine.mtrrs[r])
               PROVE  page * 2 ^ PageShift \in ranges[r].Base .. ranges[r].Limit
                         <=> Matches(machine.mtrrs[r], page * 2 ^ PageShift)
    BY DEF RangesAreTheMtrrs
  <2>1. machine \in Machines /\ ranges = Ranges(machine.mtrrs, machine.x64)
    BY PreparedIsPhase DEF CsbInv, EptFollows, EptReady
  <2>2. r \in DOMAIN machine.mtrrs /\ ranges[r] = OneRange(machine.mtrrs[r], machine.x64)
    BY <2>1 DEF Ranges
  <2>3. PowerOfTwoSized(machine.mtrrs[r]) /\ machine.x64 \in BOOLEAN
    BY <2>1, <2>2, MachinesAssumption
  <2>4. page * 2 ^ PageShift \in Nat /\ page * 2 ^ PageShift < Power(MtrrMaxRangeShift)
    <3> DEFINE rest == MtrrMaxRangeShift - PageShift
    <3>1. PageShift \in Nat /\ rest \in Nat /\ PageShift + rest = MtrrMaxRangeShift
      BY ShiftAssumption
    <3>2. PICK d \in Nat \ {0} : d = Power(PageShift)
      BY <3>1, PowerFacts
    <3>3. PICK e \in Nat \ {0} : e = Power(rest)
      BY <3>1, PowerFacts
    <3>4. Power(MtrrMaxRangeShift) = d * e
      BY <3>1, <3>2, <3>3, PowerAdds
    <3>5. page \in 0 .. e - 1
      BY <3>3 DEF Power
    <3>6. page * d \in Nat /\ page * d < d * e
      BY <3>5
    <3> QED
      BY <3>2, <3>4, <3>6 DEF Power
  <2>5. ~machine.x64 =>
           /\ machine.mtrrs[r].mask \cap WordBits(FALSE) # {}
           /\ machine.mtrrs[r].base \cap machine.mtrrs[r].mask \subseteq WordBits(FALSE)
    BY DEF Below4GB
  <2> QED
    BY <2>2, <2>3, <2>4, <2>5, RangeMatches
<1> QED
  BY <1>1, Invariance, PTL

-----------------------------------------------------------------------------

(* An MSR's bits are its index in one of four tables of 8192 bits.           *)
LEMMA BitPosition ==
  ASSUME NEW byte \in Nat, NEW h, NEW i \in Nat
  PROVE  BitOf(byte, <<h, i>>) = 8 * byte + i
<1>1. i = (8 * (i \div 8)) + (i % 8)
  OBVIOUS
<1>2. 8 * (byte + (i \div 8)) + (i % 8) = 8 * byte + i
  BY <1>1
<1> QED
  BY <1>2 DEF BitOf

LEMMA MsrBits ==
  ASSUME NEW h \in MsrHalves, NEW i \in Nat
  PROVE  /\ h = "high" => EnableMsr(<<h, i>>) = {8192 + i, 24576 + i}
         /\ h # "high" => EnableMsr(<<h, i>>) = {i, 16384 + i}
<1>1. CASE h = "high"
  <2>1. EnableMsr(<<h, i>>) = {BitOf(1024, <<h, i>>), BitOf(3072, <<h, i>>)}
    BY <1>1 DEF EnableMsr, EnableMsrRead, EnableMsrWrite
  <2>2. BitOf(1024, <<h, i>>) = 8192 + i /\ BitOf(3072, <<h, i>>) = 24576 + i
    BY BitPosition
  <2> QED
    BY <1>1, <2>1, <2>2
<1>2. CASE h # "high"
  <2>1. EnableMsr(<<h, i>>) = {BitOf(0, <<h, i>>), BitOf(2048, <<h, i>>)}
    BY <1>2 DEF EnableMsr, EnableMsrRead, EnableMsrWrite
  <2>2. BitOf(0, <<h, i>>) = i /\ BitOf(2048, <<h, i>>) = 16384 + i
    BY BitPosition
  <2> QED
    BY <1>2, <2>1, <2>2
<1> QED
  BY <1>1, <1>2

LEMMA ExitBits ==
  ASSUME NEW bits, NEW h \in MsrHalves, NEW i \in Nat
  PROVE  /\ h = "high" => /\ ReadExits(bits, <<h, i>>) <=> 8192 + i \in bits
                          /\ WriteExits(bits, <<h, i>>) <=> 24576 + i \in bits
         /\ h # "high" => /\ ReadExits(bits, <<h, i>>) <=> i \in bits
                          /\ WriteExits(bits, <<h, i>>) <=> 16384 + i \in bits
<1>1. 0 + i = i
  OBVIOUS
<1>2. CASE h = "high"
  BY <1>2 DEF ReadExits, WriteExits
<1>3. CASE h # "high"
  BY <1>1, <1>3 DEF ReadExits, WriteExits
<1> QED
  BY <1>2, <1>3

LEMMA Apart ==
  ASSUME NEW i \in Nat, NEW j \in Nat, i < 8192, j < 8192
  PROVE  /\ 8192 + i \in {8192 + j, 24576 + j} <=> i = j
         /\ 24576 + i \in {8192 + j, 24576 + j} <=> i = j
         /\ i \in {j, 16384 + j} <=> i = j
         /\ 16384 + i \in {j, 16384 + j} <=> i = j
         /\ i \notin {8192 + j, 24576 + j} /\ 16384 + i \notin {8192 + j, 24576 + j}
         /\ 8192 + i \notin {j, 16384 + j} /\ 24576 + i \notin {j, 16384 + j}
OBVIOUS

(* A bit that the processor tests for an MSR is one that EnableMsr sets for  *)
(* this MSR only.                                                            *)
LEMMA BitIsOwn ==
  ASSUME NEW m \in Msrs, NEW n \in Msrs
  PROVE  /\ ReadExits(EnableMsr(n), m) <=> m = n
         /\ WriteExits(EnableMsr(n), m) <=> m = n
<1>1. PICK h \in MsrHalves, i \in MsrIndexes : m = <<h, i>>
  BY DEF Msrs
<1>2. PICK g \in MsrHalves, j \in MsrIndexes : n = <<g, j>>
  BY DEF Msrs
<1>3. i \in Nat /\ i < 8192 /\ j \in Nat /\ j < 8192
  BY DEF MsrIndexes
<1>4. m = n <=> h = g /\ i = j
  BY <1>1, <1>2
<1> DEFINE bits == EnableMsr(<<g, j>>)
<1>5. /\ g = "high" => bits = {8192 + j, 24576 + j}
      /\ g # "high" => bits = {j, 16384 + j}
  BY <1>3, MsrBits
<1> HIDE DEF bits
<1>6. CASE h = "high"
  <2>1. ReadExits(bits, <<h, i>>) <=> 8192 + i \in bits
    BY <1>6, <1>3, ExitBits
  <2>2. WriteExits(bits, <<h, i>>) <=> 24576 + i \in bits
    BY <1>6, <1>3, ExitBits
  <2>3. /\ 8192 + i \in bits <=> h = g /\ i = j
        /\ 24576 + i \in bits <=> h = g /\ i = j
    BY <1>3, <1>5, <1>6, Apart
  <2> QED
    BY <1>1, <1>2, <1>4, <2>1, <2>2, <2>3 DEF bits
<1>7. CASE h # "high"
  <2>1. ReadExits(bits, <<h, i>>) <=> i \in bits
    BY <1>7, <1>3, ExitBits
  <2>2. WriteExits(bits, <<h, i>>) <=> 16384 + i \in bits
    BY <1>7, <1>3, ExitBits
  <2>3. /\ i \in bits <=> h = g /\ i = j
        /\ 16384 + i \in bits <=> h = g /\ i = j
    BY <1>3, <1>5, <1>7, Apart DEF MsrHalves
  <2> QED
    BY <1>1, <1>2, <1>4, <2>1, <2>2, <2>3 DEF bits
<1> QED
  BY <1>6, <1>7

LEMMA EnabledAreMsrs == EnabledMsrs \subseteq Msrs
<1>1. {372, 373, 374, 473, 256, 257, 58} \subseteq MsrIndexes
  BY DEF MsrIndexes
<1> QED
  BY <1>1 DEF EnabledMsrs, Msrs, MsrHalves, IA32_DEBUGCTL, IA32_SYSENTER_CS,
     IA32_SYSENTER_ESP, IA32_SYSENTER_EIP, IA32_FS_BASE, IA32_GS_BASE, IA32_FEATURE_CONTROL

LEMMA PreparedBitmap == ASSUME CsbInv, Prepared PROVE ExitsAreEnabled
<1> SUFFICES ASSUME NEW m \in Msrs
             PROVE  /\ ReadExits(msrBitmap, m) <=> m \in EnabledMsrs
                    /\ WriteExits(msrBitmap, m) <=> m \in EnabledMsrs
  BY DEF ExitsAreEnabled
<1>1. msrBitmap = UNION {EnableMsr(n) : n \in EnabledMsrs}
  BY PreparedIsPhase DEF CsbInv, BitmapFollows, BitmapOfMsrs
<1>2. /\ ReadExits(msrBitmap, m) <=> \E n \in EnabledMsrs : ReadExits(EnableMsr(n), m)
      /\ WriteExits(msrBitmap, m) <=> \E n \in EnabledMsrs : WriteExits(EnableMsr(n), m)
  <2>1. \A x : x \in msrBitmap <=> \E n \in EnabledMsrs : x \in EnableMsr(n)
    BY <1>1
  <2> QED
    BY <2>1 DEF ReadExits, WriteExits
<1> QED
  BY <1>2, EnabledAreMsrs, BitIsOwn

(* Of all 16384 MSRs that the bitmap covers, the enabled ones exit.          *)
THEOREM BitmapExact == Spec => []BitmapIsExact
<1>1. CsbInv => BitmapIsExact
  BY PreparedBitmap DEF BitmapIsExact, Prepared
<1> QED
  BY <1>1, Invariance, PTL

(* And so it is whenever a processor is launched with it, and after that.    *)
THEOREM BitmapStaysExact == Spec => [](Prepared => ExitsAreEnabled)
<1>1. CsbInv => (Prepared => ExitsAreEnabled)
  BY PreparedBitmap
<1> QED
  BY <1>1, Invariance, PTL

-----------------------------------------------------------------------------

LaunchInv ==
    /\ cpu \in Cpus
    /\ segment \in 0 .. Len(Segments)
    /\ phase = "segments" => segment < Len(Segments)
    /\ phase \in {"cpuid", "fixed", "memory", "words", "prepared"} => segment = 0
    /\ DOMAIN vmcs \subseteq Fields

LEMMA EightSegments == Len(Segments) = 8
  BY DEF Segments

(* What is written is in the domain afterwards, with what was there.         *)
LEMMA Written ==
  ASSUME NEW writes, Write(writes)
  PROVE  /\ DOMAIN vmcs' = DOMAIN vmcs \cup DOMAIN writes
         /\ \A f \in DOMAIN writes : vmcs'[f] = writes[f]
         /\ \A f \in DOMAIN vmcs \ DOMAIN writes : vmcs'[f] = vmcs[f]
  BY DEF Write

LEMMA InitLaunchInv == Init => LaunchInv
  BY EightSegments DEF Init, CsbInit, LaunchInv, PreparedPhases, Started

LEMMA PrepareKeeps == CsbInv /\ LaunchInv /\ Prepare => LaunchInv'
<1> SUFFICES ASSUME CsbInv, LaunchInv, Prepare PROVE LaunchInv'
  OBVIOUS
<1>1. phase' \notin Started /\ phase \in {"cpuid", "fixed", "memory", "words"}
  BY DEF Prepare, CsbNext, ReadFeatures, Refuse, ReadFixedControls, MapMemory, NoDatabase,
     NoEpt, MemoryFault, ComputeWords, Started
<1> QED
  BY <1>1 DEF Prepare, LaunchInv, Started

LEMMA LaunchKeeps == CsbInv /\ LaunchInv /\ [Next]_vars => LaunchInv'
<1> SUFFICES ASSUME CsbInv, LaunchInv, [Next]_vars PROVE LaunchInv'
  OBVIOUS
<1> USE EightSegments DEF LaunchInv, PreparedPhases, Started, launchVars
<1>1. CASE Prepare
  BY <1>1, PrepareKeeps
<1>2. CASE Start
  BY <1>2 DEF Start
<1>3. CASE WriteSegment
  <2>1. DOMAIN vmcs' \subseteq Fields
    <3>1. CASE ReadsMissingMsr
      BY <1>3, <3>1 DEF WriteSegment
    <3>2. CASE ~ReadsMissingMsr
      <4> DEFINE writes == [f \in {g \in SegmentFields : g[2] = Segments[segment']} |->
                              SegmentValue(f)]
      <4>1. Write(writes)
        BY <1>3, <3>2 DEF WriteSegment
      <4>2. DOMAIN writes \subseteq Fields
        BY DEF Fields
      <4> QED
        BY <4>1, <4>2, Written
    <3> QED
      BY <3>1, <3>2
  <2>2. segment < 8 /\ machine' = machine /\ cpu' = cpu /\ stack' = stack
    BY <1>3 DEF WriteSegment
  <2>3. CASE ReadsMissingMsr
    BY <1>3, <2>1, <2>2, <2>3 DEF WriteSegment
  <2>4. CASE ~ReadsMissingMsr
    <3>1. /\ segment' = segment + 1 /\ phase = "segments"
          /\ phase' = IF segment' = 8 THEN "system" ELSE phase
      BY <1>3, <2>4 DEF WriteSegment
    <3> QED
      BY <2>1, <2>2, <3>1
  <2> QED
    BY <2>3, <2>4
<1>4. CASE WriteSystem
  <2>1. DOMAIN vmcs' \subseteq Fields
    BY <1>4, Written DEF WriteSystem, Fields
  <2> QED
    BY <1>4, <2>1 DEF WriteSystem
<1>5. CASE WriteControls
  <2>1. DOMAIN vmcs' \subseteq Fields
    <3> DEFINE words == {w \in Words : w = "Secondary" =>
                                        "SECONDARY_CONTROLS" \in fixed.Primary.high}
               writes == [f \in ({"VMX"} \X (words \cup PlainControls)) \cup EptFields |->
                            ControlValue(f)]
    <3>1. Write(writes)
      BY <1>5 DEF WriteControls
    <3>2. DOMAIN writes \subseteq ControlFields
      BY DEF ControlFields, EptFields
    <3> QED
      BY <3>1, <3>2, Written DEF Fields
  <2> QED
    BY <1>5, <2>1 DEF WriteControls
<1>6. CASE Vmlaunch
  BY <1>6 DEF Vmlaunch
<1>7. CASE UNCHANGED vars
  BY <1>7 DEF vars
<1> QED
  BY <1>1, <1>2, <1>3, <1>4, <1>5, <1>6, <1>7 DEF Next

LEMMA LaunchInvariance == Spec => [](CsbInv /\ LaunchInv)
<1>1. CsbInv /\ LaunchInv /\ [Next]_vars => (CsbInv /\ LaunchInv)'
  BY NextCsbInv, LaunchKeeps
<1> QED
  BY <1>1, InitCsbInv, InitLaunchInv, PTL DEF Spec

(* Every variable keeps its type.                                            *)
THEOREM TypeCorrect == Spec => []TypeOK
<1>1. ASSUME NEW i \in Nat, i < 8192
      PROVE  /\ i \in BitmapBits /\ 8192 + i \in BitmapBits
             /\ 16384 + i \in BitmapBits /\ 24576 + i \in BitmapBits
  BY <1>1 DEF BitmapBits
<1>2. CsbInv => msrBitmap \subseteq BitmapBits
  <2>1. ASSUME NEW m \in EnabledMsrs PROVE EnableMsr(m) \subseteq BitmapBits
    <3>1. PICK h \in MsrHalves, i \in MsrIndexes : m = <<h, i>>
      BY EnabledAreMsrs DEF Msrs
    <3>2. i \in Nat /\ i < 8192
      BY DEF MsrIndexes
    <3>3. CASE h = "high"
      <4>1. EnableMsr(<<h, i>>) = {8192 + i, 24576 + i}
        BY <3>2, <3>3, MsrBits
      <4> QED
        BY <1>1, <3>1, <3>2, <4>1
    <3>4. CASE h # "high"
      <4>1. EnableMsr(<<h, i>>) = {i, 16384 + i}
        BY <3>2, <3>4, MsrBits
      <4> QED
        BY <1>1, <3>1, <3>2, <4>1
    <3> QED
      BY <3>3, <3>4
  <2> QED
    BY <2>1 DEF CsbInv, BitmapFollows, BitmapOfMsrs
<1>3. ASSUME CsbInv, LaunchInv PROVE TypeOK
  <2>1. \A w \in Words : word[w] \subseteq Defined[w] \cup {"default1"}
    BY <1>3, Zenon DEF CsbInv, WordsNamed
  <2>2. msrBitmap \subseteq BitmapBits
    BY <1>2, <1>3
  <2>3. /\ phase \in Phases /\ machine \in Machines
        /\ status \in {"STATUS_SUCCESS", "STATUS_UNSUCCESSFUL", "STATUS_NOT_SUPPORTED"}
    BY <1>3, Zenon DEF CsbInv
  <2>4. cpu \in Cpus /\ segment \in 0 .. Len(Segments) /\ DOMAIN vmcs \subseteq Fields
    BY <1>3, Zenon DEF LaunchInv
  <2> QED
    BY <2>1, <2>2, <2>3, <2>4, Zenon DEF TypeOK
<1> QED
  BY <1>3, LaunchInvariance, PTL
=============================================================================
