--------------------------- MODULE VmxAccessProofs ---------------------------
(***************************************************************************)
(* What the results of the VMX stubs and of the split 64-bit accesses mean,*)
(* for any fields, any widths and any halves of values.                    *)
(*                                                                         *)
(* The properties speak of calls that have returned.  The invariant says   *)
(* what is true half way: between the two accesses the low half has been   *)
(* moved and the high half has not.  It also needs that a field, and the   *)
(* variable it is read into, never hold more than the field's width, and    *)
(* that the error of a failed vmlaunch stays in the VMCS until it is read.  *)
(***************************************************************************)
EXTENDS VmxAccess, TLAPS

(* A result is zero for success only, and one exactly for ZF alone. *)
LEMMA ResultOfFlags ==
  ASSUME NEW flags \in Flags
  PROVE  /\ VmxResult(flags) \in 0 .. 3
         /\ VmxResult(flags) = VMX_SUCCEED <=> flags = VMsucceed
         /\ VmxResult(flags) = VMX_FAIL_INVALID <=> flags = VMfailValid
<1>1. flags.ZF \in {0, 1} /\ flags.CF \in {0, 1} /\ flags = [ZF |-> flags.ZF, CF |-> flags.CF]
  BY DEF Flags
<1> USE DEF VmxResult, VMX_SUCCEED, VMX_FAIL_INVALID, VMsucceed, VMfailValid
<1>2. 0 % 4 = 0 /\ 1 % 4 = 1 /\ 2 % 4 = 2 /\ 3 % 4 = 3
  OBVIOUS
<1>3. CASE flags.ZF = 0 /\ flags.CF = 0
  BY <1>1, <1>2, <1>3
<1>4. CASE flags.ZF = 1 /\ flags.CF = 0
  BY <1>1, <1>2, <1>4
<1>5. CASE flags.ZF = 0 /\ flags.CF = 1
  BY <1>1, <1>2, <1>5
<1>6. CASE flags.ZF = 1 /\ flags.CF = 1
  BY <1>1, <1>2, <1>6
<1> QED
  BY <1>1, <1>3, <1>4, <1>5, <1>6

LEMMA OutcomesAreFlags == Outcomes \subseteq Flags
BY DEF Outcomes, Flags, VMsucceed, VMfailValid, VMfailInvalid

LEMMA AnyFieldExists == AnyField \in Fields
BY FieldsAssumption DEF AnyField

-----------------------------------------------------------------------------
(* The invariant                                                           *)

Tall(f) ==
    Width[f] = "ENCODE_64" \/ (Width[f] = "ENCODE_NATURAL" /\ build = "x64")

(* A field without a high half has none, and neither does what is read. *)
WidthsKept == \A f \in Fields : Tall(f) \/ (vmcs[f][2] = 0 /\ dest[f][2] = 0)

BeforeFirst == call.at = "first" => vmcs[call.field] = call.old

BetweenHalves ==
    call.at = "second" =>
        /\ TwoAccesses(call.field)
        /\ call.op = "vmwrite" => vmcs[call.field] = <<call.value[1], call.old[2]>>
        /\ call.op = "vmread" => dest[call.field][1] = vmcs[call.field][1]

(* Until vmxoff, a call other than vmptrld has a current VMCS. *)
Loaded ==
    call.at \in {"first", "second", "reading"} /\ call.op # "vmptrld" => valid

(* From the failure of vmlaunch to vmxoff. *)
LaunchTail ==
    /\ call.at \in {"reading", "leaving"} =>
           /\ call.op = "vmlaunch"
           /\ call.result # VMX_SUCCEED /\ call.flags # VMsucceed
    /\ call.at = "reading" => error = "vmlaunch"
    /\ call.at = "leaving" => call.number = "vmlaunch" \/ call.refused

IInv ==
    /\ TypeOK /\ WidthsKept
    /\ BeforeFirst /\ BetweenHalves /\ Loaded /\ LaunchTail
    /\ SuccessIsZero /\ SuccessMeansAllOfIt /\ FailedWriteKeepsHighHalf
    /\ LaunchErrorIsReported

(* In an idle state, and in the middle of a call, the properties of returned *)
(* calls say nothing.                                                        *)
LEMMA NotReturned ==
  ASSUME call.at # "returned"
  PROVE  SuccessIsZero /\ SuccessMeansAllOfIt /\ FailedWriteKeepsHighHalf
           /\ LaunchErrorIsReported
BY DEF SuccessIsZero, SuccessMeansAllOfIt, FailedWriteKeepsHighHalf,
       LaunchErrorIsReported, Returned

LEMMA InitIInv == Init => IInv
<1> SUFFICES ASSUME Init PROVE IInv
  OBVIOUS
<1>1. call.at = "idle"
  BY DEF Init, NoCall
<1>2. TypeOK
  BY HalvesAssumption DEF Init, TypeOK, Values, Zero
<1>3. WidthsKept
  BY DEF Init, WidthsKept, Zero
<1> QED
  BY <1>1, <1>2, <1>3, NotReturned DEF IInv, BeforeFirst, BetweenHalves, Loaded, LaunchTail

(* A call in progress is one of the Calls. *)
LEMMA InCall ==
  ASSUME TypeOK, call.at # "idle"
  PROVE  call \in Calls
BY DEF TypeOK, NoCall

(* What Conclude makes of the call. *)
LEMMA ConcludedCall ==
  ASSUME TypeOK, call.at \in {"first", "second"}, NEW flags \in Flags, NEW more \in BOOLEAN,
         Conclude(flags, more)
  PROVE  /\ call' \in Calls
         /\ call'.op = call.op /\ call'.field = call.field
         /\ call'.value = call.value /\ call'.old = call.old
         /\ call'.flags = flags /\ call'.result = VmxResult(flags)
         /\ call'.at = IF more /\ flags = VMsucceed THEN "second" ELSE "returned"
         /\ error' \in Ops \cup {"none"}
<1>1. call \in Calls
  BY InCall
<1>2. /\ VmxResult(flags) \in 0 .. 3
      /\ GoOn(VmxResult(flags)) <=> flags = VMsucceed
  BY ResultOfFlags DEF GoOn
<1>3. error' \in Ops \cup {"none"}
  BY <1>1 DEF Conclude, Number, Calls, TypeOK
<1> QED
  BY <1>1, <1>2, <1>3 DEF Conclude, Calls

LEMMA BeginStep ==
  ASSUME IInv, NEW op \in Ops, NEW f \in Fields, NEW v \in Values, Begin(op, f, v)
  PROVE  IInv'
<1>1. vmcs[f] \in Values
  BY DEF IInv, TypeOK
<1>2. call' \in Calls
  BY <1>1 DEF Begin, Calls, Flags, VMsucceed, VMX_SUCCEED
<1>3. TypeOK'
  BY <1>2 DEF IInv, TypeOK, Begin
<1>4. WidthsKept'
  BY DEF IInv, WidthsKept, Tall, Begin
<1>5. BeforeFirst' /\ BetweenHalves' /\ call'.at = "first"
  BY DEF Begin, BeforeFirst, BetweenHalves
<1>7. Loaded' /\ LaunchTail'
  BY <1>5 DEF Begin, Loaded, LaunchTail
<1>6. /\ SuccessIsZero' /\ SuccessMeansAllOfIt' /\ FailedWriteKeepsHighHalf'
      /\ LaunchErrorIsReported'
  BY <1>5 DEF SuccessIsZero, SuccessMeansAllOfIt, FailedWriteKeepsHighHalf,
     LaunchErrorIsReported, Returned
<1> QED
  BY <1>3, <1>4, <1>5, <1>6, <1>7 DEF IInv

LEMMA ReturnStep == IInv /\ Return => IInv'
<1> SUFFICES ASSUME IInv, Return PROVE IInv'
  OBVIOUS
<1>1. call'.at = "idle"
  BY DEF Return, NoCall
<1>2. TypeOK' /\ WidthsKept'
  BY DEF IInv, TypeOK, WidthsKept, Tall, Return
<1>3. /\ SuccessIsZero' /\ SuccessMeansAllOfIt' /\ FailedWriteKeepsHighHalf'
      /\ LaunchErrorIsReported'
  BY <1>1 DEF SuccessIsZero, SuccessMeansAllOfIt, FailedWriteKeepsHighHalf,
     LaunchErrorIsReported, Returned
<1> QED
  BY <1>1, <1>2, <1>3 DEF IInv, BeforeFirst, BetweenHalves, Loaded, LaunchTail

(* The two properties that only the results decide.                          *)
LEMMA ResultsAgree ==
  ASSUME NEW flags \in Flags, call'.flags = flags, call'.result = VmxResult(flags),
         call'.op # "vmlaunch"
  PROVE  SuccessIsZero' /\ LaunchErrorIsReported'
BY ResultOfFlags DEF SuccessIsZero, LaunchErrorIsReported, Returned

LEMMA LoadStep == IInv /\ LoadVmcs => IInv'
<1> SUFFICES ASSUME IInv, LoadVmcs PROVE IInv'
  OBVIOUS
<1>1. PICK flags \in Outcomes : valid' = (flags = VMsucceed) /\ Conclude(flags, FALSE)
  BY DEF LoadVmcs
<1>2. flags \in Flags
  BY OutcomesAreFlags
<1>3. /\ call' \in Calls /\ call'.op = "vmptrld" /\ call'.at = "returned"
      /\ call'.flags = flags /\ call'.result = VmxResult(flags)
      /\ error' \in Ops \cup {"none"}
  BY <1>1, <1>2, ConcludedCall DEF LoadVmcs, IInv
<1>4. TypeOK' /\ WidthsKept'
  BY <1>1, <1>3 DEF IInv, TypeOK, WidthsKept, Tall, LoadVmcs
<1>5. SuccessIsZero' /\ LaunchErrorIsReported'
  BY <1>2, <1>3, ResultsAgree
<1>6. SuccessMeansAllOfIt' /\ FailedWriteKeepsHighHalf'
  BY <1>3 DEF SuccessMeansAllOfIt, FailedWriteKeepsHighHalf, Returned
<1> QED
  BY <1>3, <1>4, <1>5, <1>6 DEF IInv, BeforeFirst, BetweenHalves, Loaded, LaunchTail

(* The first access moves the low half, or all of what there is.             *)
LEMMA WriteFirstStep == IInv /\ WriteFirst => IInv'
<1> SUFFICES ASSUME IInv, WriteFirst PROVE IInv'
  OBVIOUS
<1> DEFINE f == call.field
           v == call.value
           put == IF WholeInOne(f) THEN v ELSE LowHalfFirst(vmcs[f], v)
<1>1. PICK flags \in Outcomes :
        /\ vmcs' = IF flags # VMsucceed THEN vmcs ELSE [vmcs EXCEPT ![f] = put]
        /\ Conclude(flags, TwoAccesses(f))
  BY DEF WriteFirst
<1>2. flags \in Flags
  BY OutcomesAreFlags
<1>3. call \in Calls /\ f \in Fields /\ v \in Values
  BY InCall DEF WriteFirst, IInv, Calls
<1>4. TwoAccesses(f) \in BOOLEAN
  BY DEF TwoAccesses
<1>5. /\ call' \in Calls /\ call'.op = "vmwrite" /\ call'.field = f
      /\ call'.value = v /\ call'.old = call.old
      /\ call'.flags = flags /\ call'.result = VmxResult(flags)
      /\ call'.at = IF TwoAccesses(f) /\ flags = VMsucceed THEN "second" ELSE "returned"
      /\ error' \in Ops \cup {"none"}
  BY <1>1, <1>2, <1>4, ConcludedCall DEF WriteFirst, IInv
<1>6. put \in Values /\ (put[2] = 0 \/ Tall(f))
  <2>1. vmcs[f] \in Values /\ (Tall(f) \/ vmcs[f][2] = 0)
    BY <1>3 DEF IInv, TypeOK, WidthsKept
  <2> QED
    BY <1>3, <2>1 DEF LowHalfFirst, Values, WholeInOne, Tall
<1>7. TypeOK'
  BY <1>1, <1>3, <1>5, <1>6 DEF IInv, TypeOK, WriteFirst
<1>8. WidthsKept'
  BY <1>1, <1>3, <1>6 DEF IInv, TypeOK, WidthsKept, Tall, WriteFirst
<1>9. SuccessIsZero' /\ LaunchErrorIsReported'
  BY <1>2, <1>5, ResultsAgree
<1>10. vmcs'[f] = IF flags # VMsucceed THEN call.old ELSE put
  BY <1>1, <1>3 DEF IInv, TypeOK, BeforeFirst, WriteFirst
<1>11. vmcs[f] = call.old /\ call.old[2] = vmcs[f][2]
  BY DEF IInv, BeforeFirst, WriteFirst
<1>12. build' = build /\ (TwoAccesses(f)' <=> TwoAccesses(f))
  BY <1>5 DEF WriteFirst, TwoAccesses
<1>13. BetweenHalves'
  <2> SUFFICES ASSUME TwoAccesses(f), flags = VMsucceed PROVE BetweenHalves'
    BY <1>5 DEF BetweenHalves
  <2>1. vmcs'[f] = <<v[1], call.old[2]>>
    BY <1>10, <1>11 DEF WholeInOne, TwoAccesses, LowHalfFirst
  <2> QED
    BY <1>5, <1>12, <2>1 DEF BetweenHalves, TwoAccesses
<1>14. SuccessMeansAllOfIt'
  <2> SUFFICES ASSUME ~TwoAccesses(f), flags = VMsucceed PROVE SuccessMeansAllOfIt'
    BY <1>2, <1>5, ResultOfFlags DEF SuccessMeansAllOfIt
  <2>1. put = Fit(f, v)
    <3>1. CASE WholeInOne(f)
      BY <3>1 DEF WholeInOne, Fit
    <3>2. CASE ~WholeInOne(f)
      <4>1. ~Tall(f) /\ vmcs[f][2] = 0
        BY <1>3, <3>2, ~TwoAccesses(f) DEF WholeInOne, TwoAccesses, Tall, IInv, TypeOK,
           Builds, WidthsKept
      <4> QED
        BY <3>2, <4>1 DEF Fit, Tall, Low, LowHalfFirst
    <3> QED
      BY <3>1, <3>2
  <2>2. Fit(f, v)' = Fit(f, v)
    BY <1>5, <1>12 DEF Fit
  <2> QED
    BY <1>5, <1>10, <1>12, <2>1 DEF SuccessMeansAllOfIt, Fit
<1>15. FailedWriteKeepsHighHalf'
  BY <1>2, <1>5, <1>10, ResultOfFlags DEF FailedWriteKeepsHighHalf, Returned
<1>16. Loaded' /\ LaunchTail'
  BY <1>5 DEF IInv, Loaded, LaunchTail, WriteFirst
<1> QED
  BY <1>5, <1>7, <1>8, <1>9, <1>13, <1>14, <1>15, <1>16 DEF IInv, BeforeFirst

(* The second access moves the high half, and finds the low half moved.      *)
LEMMA WriteSecondStep == IInv /\ WriteSecond => IInv'
<1> SUFFICES ASSUME IInv, WriteSecond PROVE IInv'
  OBVIOUS
<1> DEFINE f == call.field
           v == call.value
<1>1. PICK flags \in Outcomes :
        /\ vmcs' = IF flags # VMsucceed THEN vmcs
                   ELSE [vmcs EXCEPT ![f] = <<@[1], v[2]>>]
        /\ Conclude(flags, FALSE)
  BY DEF WriteSecond
<1>2. flags \in Flags
  BY OutcomesAreFlags
<1>3. call \in Calls /\ f \in Fields /\ v \in Values
  BY InCall DEF WriteSecond, IInv, Calls
<1>4. /\ call' \in Calls /\ call'.op = "vmwrite" /\ call'.field = f
      /\ call'.value = v /\ call'.old = call.old /\ call'.at = "returned"
      /\ call'.flags = flags /\ call'.result = VmxResult(flags)
      /\ error' \in Ops \cup {"none"}
  BY <1>1, <1>2, ConcludedCall DEF WriteSecond, IInv
<1>5. TwoAccesses(f) /\ Tall(f) /\ vmcs[f] = <<v[1], call.old[2]>>
  BY DEF IInv, BetweenHalves, WriteSecond, TwoAccesses, Tall
<1>6. vmcs'[f] = IF flags # VMsucceed THEN <<v[1], call.old[2]>> ELSE <<v[1], v[2]>>
  BY <1>1, <1>3, <1>5 DEF IInv, TypeOK
<1>7. TypeOK'
  <2>1. <<v[1], v[2]>> \in Values /\ vmcs[f][1] = v[1]
    BY <1>3, <1>5 DEF Values
  <2>2. vmcs' \in [Fields -> Values]
    BY <1>1, <1>3, <2>1 DEF IInv, TypeOK
  <2> QED
    BY <1>4, <2>2 DEF IInv, TypeOK, WriteSecond
<1>8. WidthsKept'
  BY <1>1, <1>3, <1>5 DEF IInv, TypeOK, WidthsKept, Tall, WriteSecond
<1>9. SuccessIsZero' /\ LaunchErrorIsReported'
  BY <1>2, <1>4, ResultsAgree
<1>10. SuccessMeansAllOfIt'
  <2> SUFFICES ASSUME flags = VMsucceed PROVE SuccessMeansAllOfIt'
    BY <1>2, <1>4, ResultOfFlags DEF SuccessMeansAllOfIt
  <2>1. vmcs'[f] = v
    BY <1>3, <1>6 DEF Values
  <2> QED
    BY <1>4, <1>5, <2>1 DEF SuccessMeansAllOfIt, Fit, TwoAccesses
<1>11. FailedWriteKeepsHighHalf'
  <2> SUFFICES ASSUME flags # VMsucceed PROVE FailedWriteKeepsHighHalf'
    BY <1>2, <1>4, ResultOfFlags DEF FailedWriteKeepsHighHalf, Returned
  <2> QED
    BY <1>4, <1>5, <1>6 DEF FailedWriteKeepsHighHalf, TwoAccesses, WriteSecond
<1> QED
  BY <1>4, <1>7, <1>8, <1>9, <1>10, <1>11
     DEF IInv, BeforeFirst, BetweenHalves, Loaded, LaunchTail

(* A read that fails stores zero; the property is about those that do not.   *)
LEMMA ReadFirstStep == IInv /\ ReadFirst => IInv'
<1> SUFFICES ASSUME IInv, ReadFirst PROVE IInv'
  OBVIOUS
<1> DEFINE f == call.field
           Got(flags) == IF flags = VMsucceed THEN vmcs[f] ELSE Zero
           Store(got) == IF build = "x86" THEN <<got[1], dest[f][2]>>
                         ELSE IF WholeInOne(f) THEN got ELSE Low(got)
<1>1. PICK flags \in Outcomes :
        /\ dest' = [dest EXCEPT ![f] = Store(Got(flags))]
        /\ Conclude(flags, TwoAccesses(f))
  BY DEF ReadFirst
<1>2. flags \in Flags
  BY OutcomesAreFlags
<1>3. call \in Calls /\ f \in Fields
  BY InCall DEF ReadFirst, IInv, Calls
<1>4. TwoAccesses(f) \in BOOLEAN
  BY DEF TwoAccesses
<1>5. /\ call' \in Calls /\ call'.op = "vmread" /\ call'.field = f
      /\ call'.flags = flags /\ call'.result = VmxResult(flags)
      /\ call'.at = IF TwoAccesses(f) /\ flags = VMsucceed THEN "second" ELSE "returned"
      /\ error' \in Ops \cup {"none"}
  BY <1>1, <1>2, <1>4, ConcludedCall DEF ReadFirst, IInv
<1>6. /\ vmcs[f] \in Values /\ dest[f] \in Values
      /\ Tall(f) \/ (vmcs[f][2] = 0 /\ dest[f][2] = 0)
  BY <1>3 DEF IInv, TypeOK, WidthsKept
<1>7. Got(flags) \in Values /\ (Tall(f) \/ Got(flags)[2] = 0)
  BY <1>6, HalvesAssumption DEF Values, Zero
<1>8. Store(Got(flags)) \in Values /\ (Tall(f) \/ Store(Got(flags))[2] = 0)
  <2>1. CASE build = "x86"
    BY <1>6, <1>7, <2>1 DEF Values
  <2>2. CASE build # "x86" /\ WholeInOne(f)
    BY <1>7, <2>2
  <2>3. CASE build # "x86" /\ ~WholeInOne(f)
    BY <1>7, <2>3, HalvesAssumption DEF Values, Low
  <2> QED
    BY <2>1, <2>2, <2>3
<1>9. dest' = [dest EXCEPT ![f] = Store(Got(flags))] /\ dest'[f] = Store(Got(flags))
  BY <1>1, <1>3 DEF IInv, TypeOK
<1> HIDE DEF Store, Got
<1>10. TypeOK'
  BY <1>3, <1>5, <1>8, <1>9 DEF IInv, TypeOK, ReadFirst
<1>11. WidthsKept'
  BY <1>3, <1>8, <1>9 DEF IInv, TypeOK, WidthsKept, Tall, ReadFirst
<1>12. SuccessIsZero' /\ LaunchErrorIsReported'
  BY <1>2, <1>5, ResultsAgree
<1>13. BetweenHalves'
  <2> SUFFICES ASSUME TwoAccesses(f), flags = VMsucceed PROVE BetweenHalves'
    BY <1>5 DEF BetweenHalves
  <2>1. dest'[f][1] = vmcs[f][1]
    BY <1>9 DEF TwoAccesses, Store, Got
  <2> QED
    BY <1>5, <2>1 DEF BetweenHalves, TwoAccesses, ReadFirst
<1>14. SuccessMeansAllOfIt'
  <2> SUFFICES ASSUME ~TwoAccesses(f), flags = VMsucceed PROVE SuccessMeansAllOfIt'
    BY <1>2, <1>5, ResultOfFlags DEF SuccessMeansAllOfIt
  <2>1. Got(flags) = vmcs[f]
    BY DEF Got
  <2>2. dest'[f] = vmcs[f]
    <3>1. CASE WholeInOne(f)
      BY <1>9, <2>1, <3>1 DEF Store, WholeInOne
    <3>2. CASE ~WholeInOne(f)
      <4>1. ~Tall(f)
        BY <1>3, <3>2, ~TwoAccesses(f) DEF WholeInOne, TwoAccesses, Tall, IInv, TypeOK, Builds
      <4> QED
        BY <1>6, <1>9, <2>1, <3>2, <4>1 DEF Store, Low, Values
    <3> QED
      BY <3>1, <3>2
  <2> QED
    BY <1>5, <2>2 DEF SuccessMeansAllOfIt, ReadFirst
<1>15. FailedWriteKeepsHighHalf'
  BY <1>5 DEF FailedWriteKeepsHighHalf, Returned
<1>16. Loaded' /\ LaunchTail'
  BY <1>5 DEF IInv, Loaded, LaunchTail, ReadFirst
<1> QED
  BY <1>5, <1>10, <1>11, <1>12, <1>13, <1>14, <1>15, <1>16 DEF IInv, BeforeFirst

LEMMA ReadSecondStep == IInv /\ ReadSecond => IInv'
<1> SUFFICES ASSUME IInv, ReadSecond PROVE IInv'
  OBVIOUS
<1> DEFINE f == call.field
           Half(flags) == IF flags = VMsucceed THEN vmcs[f][2] ELSE 0
<1>1. PICK flags \in Outcomes :
        /\ dest' = [dest EXCEPT ![f] = <<@[1], Half(flags)>>]
        /\ Conclude(flags, FALSE)
  BY DEF ReadSecond, StoreSecond
<1>2. flags \in Flags
  BY OutcomesAreFlags
<1>3. call \in Calls /\ f \in Fields
  BY InCall DEF ReadSecond, IInv, Calls
<1>4. /\ call' \in Calls /\ call'.op = "vmread" /\ call'.field = f /\ call'.at = "returned"
      /\ call'.flags = flags /\ call'.result = VmxResult(flags)
      /\ error' \in Ops \cup {"none"}
  BY <1>1, <1>2, ConcludedCall DEF ReadSecond, IInv
<1>5. Tall(f) /\ dest[f][1] = vmcs[f][1]
  BY DEF IInv, BetweenHalves, ReadSecond, TwoAccesses, Tall
<1>6. vmcs[f] \in Values /\ dest[f] \in Values
  BY <1>3 DEF IInv, TypeOK
<1>7. Half(flags) \in Halves
  BY <1>6, HalvesAssumption DEF Values
<1>8. dest' = [dest EXCEPT ![f] = <<dest[f][1], Half(flags)>>]
  BY <1>1, <1>3 DEF IInv, TypeOK
<1>9. TypeOK'
  BY <1>3, <1>4, <1>6, <1>7, <1>8 DEF IInv, TypeOK, Values, ReadSecond
<1>10. WidthsKept'
  BY <1>3, <1>5, <1>8 DEF IInv, TypeOK, WidthsKept, Tall, ReadSecond
<1>11. SuccessIsZero' /\ LaunchErrorIsReported'
  BY <1>2, <1>4, ResultsAgree
<1>12. SuccessMeansAllOfIt'
  <2> SUFFICES ASSUME flags = VMsucceed PROVE SuccessMeansAllOfIt'
    BY <1>2, <1>4, ResultOfFlags DEF SuccessMeansAllOfIt
  <2>1. dest'[f] = <<vmcs[f][1], vmcs[f][2]>>
    BY <1>3, <1>5, <1>8 DEF IInv, TypeOK
  <2> QED
    BY <1>4, <1>6, <2>1 DEF SuccessMeansAllOfIt, ReadSecond, Values
<1>13. FailedWriteKeepsHighHalf'
  BY <1>4 DEF FailedWriteKeepsHighHalf, Returned
<1> QED
  BY <1>4, <1>9, <1>10, <1>11, <1>12, <1>13
     DEF IInv, BeforeFirst, BetweenHalves, Loaded, LaunchTail

(* The properties of vmread and vmwrite say nothing of a vmlaunch.           *)
LEMMA NotAnAccess ==
  ASSUME call'.op = "vmlaunch", call'.at # "second"
  PROVE  SuccessMeansAllOfIt' /\ FailedWriteKeepsHighHalf' /\ BetweenHalves'
BY DEF SuccessMeansAllOfIt, FailedWriteKeepsHighHalf, Returned, BetweenHalves

(* __vmx_entry's test is for the name that comes with ZF, and a VMCS is      *)
(* current: the read is made.                                               *)
LEMMA LaunchStep == IInv /\ LaunchFails => IInv'
<1> SUFFICES ASSUME IInv, LaunchFails PROVE IInv'
  OBVIOUS
<1>1. PICK flags \in Outcomes \ {VMsucceed} :
        /\ Number("vmlaunch", flags)
        /\ call' = [call EXCEPT !.flags = flags, !.result = VmxResult(flags),
                                !.at = IF ErrorCodeWanted(VmxResult(flags)) THEN "reading"
                                       ELSE "leaving"]
  BY DEF LaunchFails
<1>2. flags \in Flags
  BY OutcomesAreFlags
<1>3. call \in Calls /\ valid
  BY InCall DEF LaunchFails, IInv, Loaded
<1>4. flags = VMfailValid
  BY <1>1, <1>3 DEF Outcomes
<1>5. /\ VmxResult(flags) \in 0 .. 3 /\ VmxResult(flags) # VMX_SUCCEED
      /\ ErrorCodeWanted(VmxResult(flags))
  BY <1>1, <1>2, <1>4, ResultOfFlags DEF ErrorCodeWanted
<1>6. /\ call' \in Calls /\ call'.op = "vmlaunch" /\ call'.at = "reading"
      /\ call'.flags = flags /\ call'.result # VMX_SUCCEED
      /\ error' = "vmlaunch"
  BY <1>1, <1>2, <1>3, <1>4, <1>5 DEF LaunchFails, Calls, Number
<1>7. TypeOK' /\ WidthsKept'
  BY <1>6 DEF IInv, TypeOK, WidthsKept, Tall, LaunchFails, Ops
<1>8. Loaded' /\ LaunchTail'
  BY <1>1, <1>3, <1>6 DEF Loaded, LaunchTail, LaunchFails
<1>9. SuccessIsZero' /\ LaunchErrorIsReported'
  BY <1>6 DEF SuccessIsZero, LaunchErrorIsReported, Returned
<1> QED
  BY <1>6, <1>7, <1>8, <1>9, NotAnAccess DEF IInv, BeforeFirst

(* The vmread finds the VMCS, and in it vmlaunch's error or it is refused.   *)
LEMMA ReadErrorStep == IInv /\ ReadErrorCode => IInv'
<1> SUFFICES ASSUME IInv, ReadErrorCode PROVE IInv'
  OBVIOUS
<1>1. PICK flags \in Outcomes :
        /\ Number("vmread", flags)
        /\ call' = [call EXCEPT !.number = IF flags = VMsucceed THEN error ELSE "none",
                                !.refused = (flags = VMfailValid),
                                !.at = "leaving"]
  BY DEF ReadErrorCode
<1>2. call \in Calls /\ call.op = "vmlaunch" /\ valid /\ error = "vmlaunch"
  BY InCall DEF ReadErrorCode, IInv, Loaded, LaunchTail
<1>3. flags = VMsucceed \/ flags = VMfailValid
  BY <1>1, <1>2 DEF Outcomes
<1>4. /\ call' \in Calls /\ call'.op = "vmlaunch" /\ call'.at = "leaving"
      /\ call'.flags = call.flags /\ call'.result = call.result
      /\ error' \in Ops \cup {"none"}
  <2>1. (flags = VMfailValid) \in BOOLEAN
    OBVIOUS
  <2> QED
    BY <1>1, <1>2, <2>1 DEF Calls, Ops, Number
<1>5. call'.number = "vmlaunch" \/ call'.refused
  BY <1>1, <1>2, <1>3 DEF Calls
<1>6. TypeOK' /\ WidthsKept'
  BY <1>4 DEF IInv, TypeOK, WidthsKept, Tall, ReadErrorCode
<1>7. Loaded' /\ LaunchTail'
  BY <1>4, <1>5 DEF IInv, Loaded, LaunchTail, ReadErrorCode
<1>8. SuccessIsZero' /\ LaunchErrorIsReported'
  BY <1>4 DEF SuccessIsZero, LaunchErrorIsReported, Returned
<1> QED
  BY <1>4, <1>6, <1>7, <1>8, NotAnAccess DEF IInv, BeforeFirst

(* vmxoff comes after the read.                                              *)
LEMMA VmxOffStep == IInv /\ VmxOff => IInv'
<1> SUFFICES ASSUME IInv, VmxOff PROVE IInv'
  OBVIOUS
<1>1. call \in Calls
  BY InCall DEF VmxOff, IInv
<1>2. /\ call' \in Calls /\ call'.op = "vmlaunch" /\ call'.at = "returned"
      /\ call'.flags # VMsucceed /\ call'.result # VMX_SUCCEED
      /\ call'.number = "vmlaunch" \/ call'.refused
  BY <1>1 DEF IInv, LaunchTail, VmxOff, Calls
<1>3. TypeOK' /\ WidthsKept'
  BY <1>2 DEF IInv, TypeOK, WidthsKept, Tall, VmxOff
<1>4. Loaded' /\ LaunchTail' /\ BeforeFirst'
  BY <1>2 DEF Loaded, LaunchTail, BeforeFirst
<1>5. SuccessIsZero' /\ LaunchErrorIsReported'
  BY <1>2 DEF SuccessIsZero, LaunchErrorIsReported
<1> QED
  BY <1>2, <1>3, <1>4, <1>5, NotAnAccess DEF IInv

LEMMA NextIInv == IInv /\ [Next]_vars => IInv'
<1> SUFFICES ASSUME IInv, [Next]_vars PROVE IInv'
  OBVIOUS
<1>1. CASE UNCHANGED vars
  BY <1>1 DEF IInv, vars, TypeOK, WidthsKept, Tall, BeforeFirst, BetweenHalves, TwoAccesses,
     Loaded, LaunchTail,
     SuccessIsZero, SuccessMeansAllOfIt, Fit, FailedWriteKeepsHighHalf,
     LaunchErrorIsReported, Returned
<1>2. ASSUME NEW f \in Fields, NEW v \in Values, Begin("vmwrite", f, v) PROVE IInv'
  BY <1>2, BeginStep DEF Ops
<1>3. ASSUME NEW f \in Fields, NEW op \in Ops, Begin(op, f, Zero) PROVE IInv'
  BY <1>3, BeginStep, HalvesAssumption DEF Values, Zero
<1> QED
  BY <1>1, <1>2, <1>3, AnyFieldExists, LoadStep, WriteFirstStep, WriteSecondStep,
     ReadFirstStep, ReadSecondStep, LaunchStep, ReadErrorStep, VmxOffStep, ReturnStep
     DEF Next, Ops

-----------------------------------------------------------------------------
(* The theorems                                                            *)

LEMMA Invariance == Spec => []IInv
BY InitIInv, NextIInv, PTL DEF Spec

(* Types, with VMX_RESULT confined to two bits, for any fields and halves.   *)
THEOREM TypeCorrect == Spec => []TypeOK
<1>1. IInv => TypeOK
  BY DEF IInv
<1> QED
  BY <1>1, Invariance, PTL

(* The stubs never report a failure as VMX_SUCCEED, nor a success as one.    *)
THEOREM ZeroIsSuccess == Spec => []SuccessIsZero
<1>1. IInv => SuccessIsZero
  BY DEF IInv
<1> QED
  BY <1>1, Invariance, PTL

(* A successful access moved the whole field, on both builds and for every   *)
(* encoding of its width.                                                    *)
THEOREM WholeFieldMoved == Spec => []SuccessMeansAllOfIt
<1>1. IInv => SuccessMeansAllOfIt
  BY DEF IInv
<1> QED
  BY <1>1, Invariance, PTL

(* A failed write leaves the high half as it was.                            *)
THEOREM HighHalfKept == Spec => []FailedWriteKeepsHighHalf
<1>1. IInv => FailedWriteKeepsHighHalf
  BY DEF IInv
<1> QED
  BY <1>1, Invariance, PTL

(* The number reported for a failed vmlaunch is vmlaunch's: it is read, from *)
(* a VMCS that is still there, unless the processor refuses the vmread.      *)
THEOREM LaunchErrorReported == Spec => []LaunchErrorIsReported
<1>1. IInv => LaunchErrorIsReported
  BY DEF IInv
<1> QED
  BY <1>1, Invariance, PTL
=============================================================================
