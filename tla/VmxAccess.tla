------------------------------ MODULE VmxAccess ------------------------------
(***************************************************************************)
(* How the monitor talks to the processor about the VMCS: the stubs behind *)
(* __vmx_vmwrite_common and __vmx_vmread_common (vmx.c), which split a     *)
(* 64-bit field in two on the x86 build, and the tail of __vmx_entry,      *)
(* which reads the instruction error when vmlaunch fails and leaves VMX    *)
(* operation.                                                              *)
(*                                                                         *)
(* A value is a pair <<low half, high half>>.  A call is one or two        *)
(* instructions; each may fail, and the processor reports a failure as     *)
(* VMfailValid if there is a current VMCS and as VMfailInvalid if not.     *)
(***************************************************************************)
EXTENDS VmxFlags

CONSTANTS
    Fields,     \* VMCS fields
    Width,      \* Width[f]: ENCODE_16, ENCODE_32, ENCODE_64, ENCODE_NATURAL
    Halves      \* what half of a value can hold

Widths == {"ENCODE_16", "ENCODE_32", "ENCODE_64", "ENCODE_NATURAL"}

ASSUME FieldsAssumption == Fields # {} /\ Width \in [Fields -> Widths]
ASSUME HalvesAssumption == 0 \in Halves

Values == Halves \X Halves
Zero == <<0, 0>>
Low(v) == <<v[1], 0>>

Builds == {"x86", "x64"}

-----------------------------------------------------------------------------

VARIABLES
    build,      \* which of the two builds runs
    valid,      \* the current-VMCS pointer is valid
    vmcs,       \* the fields of the current VMCS
    error,      \* its VM-instruction error field: whose failure it tells of
    dest,       \* for each field, the caller's u64 variable read into
    call        \* the call in progress

vars == <<build, valid, vmcs, error, dest, call>>

Ops == {"vmptrld", "vmwrite", "vmread", "vmlaunch"}

AnyField == CHOOSE f \in Fields : TRUE

(* `old` is the field when the call began; it is read by properties only.   *)
(* `number` is ErrorCode of __vmx_entry: whose error it is, "none" for its   *)
(* initial zero; `refused` says that the vmread for it failed with one.      *)
NoCall == [at |-> "idle"]

Calls ==
    [at : {"first", "second", "reading", "leaving", "returned"}, op : Ops,
     field : Fields, value : Values, old : Values, flags : Flags, result : 0 .. 3,
     number : Ops \cup {"none"}, refused : BOOLEAN]

(* Everything keeps its type, and VMX_RESULT its two bits.                   *)
TypeOK ==
    /\ build \in Builds
    /\ valid \in BOOLEAN
    /\ vmcs \in [Fields -> Values]
    /\ error \in Ops \cup {"none"}
    /\ dest \in [Fields -> Values]
    /\ call = NoCall \/ call \in Calls

Init ==
    /\ build \in Builds
    /\ valid = FALSE
    /\ vmcs = [f \in Fields |-> Zero]
    /\ error = "none"
    /\ dest = [f \in Fields |-> Zero]
    /\ call = NoCall

(* Outcomes of one VMX instruction. *)
Outcomes == {VMsucceed, IF valid THEN VMfailValid ELSE VMfailInvalid}

(* A failure with a current VMCS leaves its number there. *)
Number(op, flags) == error' = IF flags = VMfailValid THEN op ELSE error

(* __vmx_prepare_vmcs loads the VMCS before anything accesses it, and the    *)
(* driver gives up on a processor where that fails.                         *)
Begin(op, f, v) ==
    /\ call.at = "idle"
    /\ valid <=> op # "vmptrld"
    /\ call' = [at |-> "first", op |-> op, field |-> f, value |-> v, old |-> vmcs[f],
                flags |-> VMsucceed, result |-> VMX_SUCCEED,
                number |-> "none", refused |-> FALSE]
    /\ UNCHANGED <<build, valid, vmcs, error, dest>>

Return ==
    /\ call.at = "returned"
    /\ call' = NoCall
    /\ UNCHANGED <<build, valid, vmcs, error, dest>>

(* How much of a field one instruction reaches: a register is 32 bits wide *)
(* on x86, and 16- and 32-bit fields have no high half.                    *)
WholeInOne(f) ==
    build = "x64" /\ Width[f] \in {"ENCODE_64", "ENCODE_NATURAL"}

TwoAccesses(f) == build = "x86" /\ Width[f] = "ENCODE_64"

(* The second access is made only if the first one succeeded. *)
GoOn(result) == result = VMX_SUCCEED

Conclude(flags, more) ==
    /\ Number(call.op, flags)
    /\ call' = [call EXCEPT !.flags = flags,
                            !.result = VmxResult(flags),
                            !.at = IF more /\ GoOn(VmxResult(flags)) THEN "second"
                                   ELSE "returned"]

HighHalfFirst(old, v) == <<old[1], v[2]>>

(* What an access through a 32-bit register leaves of the field. *)
LowHalfFirst(old, v) == <<v[1], old[2]>>

(* vmxon, vmclear and vmptrld in one: the first two precede a current VMCS. *)
LoadVmcs ==
    /\ call.at = "first" /\ call.op = "vmptrld"
    /\ \E flags \in Outcomes :
          /\ valid' = (flags = VMsucceed)
          /\ Conclude(flags, FALSE)
    /\ UNCHANGED <<build, vmcs, dest>>

WriteFirst ==
    /\ call.at = "first" /\ call.op = "vmwrite"
    /\ \E flags \in Outcomes :
          /\ vmcs' = IF flags # VMsucceed THEN vmcs
                     ELSE [vmcs EXCEPT ![call.field] =
                             IF WholeInOne(call.field) THEN call.value
                             ELSE LowHalfFirst(@, call.value)]
          /\ Conclude(flags, TwoAccesses(call.field))
    /\ UNCHANGED <<build, valid, dest>>

WriteSecond ==
    /\ call.at = "second" /\ call.op = "vmwrite"
    /\ \E flags \in Outcomes :
          /\ vmcs' = IF flags # VMsucceed THEN vmcs
                     ELSE [vmcs EXCEPT ![call.field] = <<@[1], call.value[2]>>]
          /\ Conclude(flags, FALSE)
    /\ UNCHANGED <<build, valid, dest>>

(* The stub clears its accumulator, and stores it whether vmread succeeded  *)
(* or not; on x86 it stores 32 bits.                                        *)
ReadFirst ==
    /\ call.at = "first" /\ call.op = "vmread"
    /\ \E flags \in Outcomes :
          LET got == IF flags = VMsucceed THEN vmcs[call.field] ELSE Zero
          IN  /\ dest' = [dest EXCEPT ![call.field] =
                            IF build = "x86" THEN <<got[1], @[2]>>
                            ELSE IF WholeInOne(call.field) THEN got ELSE Low(got)]
              /\ Conclude(flags, TwoAccesses(call.field))
    /\ UNCHANGED <<build, valid, vmcs>>

SecondHalfOverFirst(old, half) == <<half, old[2]>>

(* (u32ptr)Value + 1: where the second vmread of a 64-bit field stores. *)
StoreSecond(old, half) == <<old[1], half>>

ReadSecond ==
    /\ call.at = "second" /\ call.op = "vmread"
    /\ \E flags \in Outcomes :
          /\ dest' = [dest EXCEPT ![call.field] =
                        StoreSecond(@, IF flags = VMsucceed THEN vmcs[call.field][2]
                                       ELSE 0)]
          /\ Conclude(flags, FALSE)
    /\ UNCHANGED <<build, valid, vmcs>>

ErrorCodeWhenDocumented(result) == result = VMX_FAIL_VALID

(* __vmx_entry: `if (VMX_FAIL_INVALID == Result)' read the error code: the   *)
(* value the stubs return for VMfailValid, though vmx.h gives VMfailInvalid  *)
(* this name.                                                                *)
ErrorCodeWanted(result) == result = VMX_FAIL_INVALID

LaunchFails ==
    /\ call.at = "first" /\ call.op = "vmlaunch"
    /\ \E flags \in Outcomes \ {VMsucceed} :
          /\ Number("vmlaunch", flags)
          /\ call' = [call EXCEPT !.flags = flags,
                                  !.result = VmxResult(flags),
                                  !.at = IF ErrorCodeWanted(VmxResult(flags)) THEN "reading"
                                         ELSE "leaving"]
    /\ UNCHANGED <<build, valid, vmcs, dest>>

ReadErrorCode ==
    /\ call.at = "reading"
    /\ \E flags \in Outcomes :
          /\ Number("vmread", flags)
          /\ call' = [call EXCEPT !.number = IF flags = VMsucceed THEN error ELSE "none",
                                  !.refused = (flags = VMfailValid),
                                  !.at = "leaving"]
    /\ UNCHANGED <<build, valid, vmcs, dest>>

(* There is no current VMCS any more. *)
VmxOff ==
    /\ call.at = "leaving"
    /\ valid' = FALSE
    /\ call' = [call EXCEPT !.at = "returned"]
    /\ UNCHANGED <<build, vmcs, error, dest>>

Next ==
    \/ \E f \in Fields, v \in Values : Begin("vmwrite", f, v)
    \/ \E f \in Fields : Begin("vmread", f, Zero)
    \/ \E op \in {"vmptrld", "vmlaunch"} : Begin(op, AnyField, Zero)
    \/ LoadVmcs \/ WriteFirst \/ WriteSecond \/ ReadFirst \/ ReadSecond
    \/ LaunchFails \/ ReadErrorCode \/ VmxOff
    \/ Return

Spec == Init /\ [][Next]_vars

-----------------------------------------------------------------------------
(* Properties                                                              *)

Returned(op) == call.at = "returned" /\ call.op = op

(* The callers test a result against VMX_SUCCEED only: it is VMX_SUCCEED     *)
(* exactly when the (last) instruction of the call succeeded, whichever      *)
(* flag reports the failure.                                                 *)
SuccessIsZero ==
    call.at = "returned" => (call.result = VMX_SUCCEED <=> call.flags = VMsucceed)

(* What of a value can be in field f: all of it, or its low half.            *)
Fit(f, v) ==
    IF Width[f] = "ENCODE_64" \/ (Width[f] = "ENCODE_NATURAL" /\ build = "x64")
    THEN v ELSE Low(v)

(* A vmwrite call that succeeds has written the whole field, and a vmread    *)
(* call that succeeds has read the whole field, on both builds: no half is   *)
(* lost, doubled or swapped.                                                 *)
SuccessMeansAllOfIt ==
    call.at = "returned" /\ call.result = VMX_SUCCEED =>
        /\ call.op = "vmwrite" => vmcs[call.field] = Fit(call.field, call.value)
        /\ call.op = "vmread" => dest[call.field] = vmcs[call.field]

(* The handlers ignore the results of vmwrite: a call that fails may leave a *)
(* new low half in a 64-bit field, and never a new high half over an old low *)
(* one.                                                                      *)
FailedWriteKeepsHighHalf ==
    Returned("vmwrite") /\ call.result # VMX_SUCCEED =>
        /\ vmcs[call.field][2] = call.old[2]
        /\ TwoAccesses(call.field) \/ vmcs[call.field] = call.old

(* When vmlaunch fails, the number __vmx_entry reports is the one that        *)
(* vmlaunch left in the VM-instruction error field, unless the processor     *)
(* refuses the vmread itself: the field is read, by a test that picks the     *)
(* right one of the two failures, while there is still a VMCS to read it     *)
(* from, and before another instruction's failure has replaced it.          *)
LaunchErrorIsReported ==
    Returned("vmlaunch") => call.number = "vmlaunch" \/ call.refused
=============================================================================
