------------------------------ MODULE VmxLaunch ------------------------------
(***************************************************************************)
(* Loading the monitor: DriverEntry (Daat.c), the system worker that runs  *)
(* VmxStartAllProcessors, and on every processor the DPC that runs         *)
(* VmxStartProcessors, __vmx_start, __vmx_entry and __vmx_prepare_vmcs     *)
(* (vmx.c) down to vmlaunch.                                               *)
(*                                                                         *)
(* Two threads and one DPC routine per processor interleave.  The worker   *)
(* owns ONE Dpc object and ONE notification event, both on its stack, and  *)
(* uses them again for every processor; the work item and the event        *)
(* DriverEntry waits for are on DriverEntry's stack.  Each processor       *)
(* carries the state the VMX instructions test and change: CR4.VMXE, VMX   *)
(* operation, the current-VMCS pointer and the launch state of each VMCS.  *)
(*                                                                         *)
(* An instruction's failure is a choice of the processor; what the code    *)
(* does about it is not.                                                   *)
(***************************************************************************)
EXTENDS Integers

CONSTANTS
    NumberProcessors,   \* KeNumberProcessors, a CCHAR
    X64,                \* TRUE: the AMD64 build, FALSE: the I386 build
    EntryFailures       \* TRUE: a processor may reject the guest state that
                        \* __vmx_entry has written, after leaving the caller

ASSUME NumberProcessorsAssumption == NumberProcessors \in 1 .. 127
ASSUME X64Assumption == X64 \in BOOLEAN
ASSUME EntryFailuresAssumption == EntryFailures \in BOOLEAN

Processors == 0 .. NumberProcessors - 1

NoTsb == -1             \* a null pointer where a TSB is expected

(* A TSB is named by its index in Csb->Tsb[]. *)
Tsbs == Processors

DriverEntry == "DriverEntry"
Worker == "VmxStartAllProcessors"
Threads == {DriverEntry, Worker}

VARIABLES
    at,         \* where each thread is
    objects,    \* the device object and symbolic link that exist
    signal,     \* SignalState of the KEVENT each thread waits on
    csb,        \* the control block: "NULL", "zeroed", "prepared"
    Index,      \* the worker's loop variable
    linked,     \* TSBs whose Number and Csb fields have been set
    dpc         \* the worker's KDPC: in a queue or not, and its fields

VARIABLES
    pc,         \* where the DPC routine of each processor is
    Tsb,        \* that routine's copy of Dpc->DeferredContext
    vmxe,       \* CR4.VMXE
    mode,       \* "off", "root" or "guest"
    current     \* the current VMCS: the TSB whose Region.Vmcs it is

VARIABLES
    revision,   \* TSBs whose two regions carry the revision identifier
    launch,     \* launch state of each TSB's VMCS
    hostRsp     \* the TSB whose frame HOST_RSP of each VMCS points to

threadVars == <<at, objects, signal, csb, Index, linked>>
cpuVars == <<pc, Tsb, vmxe, mode, current>>
vmcsVars == <<revision, launch, hostRsp>>
vars == <<at, objects, signal, csb, Index, linked, dpc,
          pc, Tsb, vmxe, mode, current, revision, launch, hostRsp>>

-----------------------------------------------------------------------------

EntrySteps == {"IoCreateDevice", "IoCreateSymbolicLink", "ExQueueWorkItem",
               "KeWaitForSingleObject", "returned"}

WorkerSteps == {"idle", "__malloc", "__vmx_prepare_csb", "for",
                "KeInsertQueueDpc", "KeWaitForSingleObject", "returned"}

DpcSteps == {"idle", "VmxStartProcessors", "__vmx_prepare_vmcs", "vmxon",
             "vmclear", "vmptrld", "vmwrite", "vmlaunch", "__vmx_trap",
             "vmxoff", "KeSetEvent", "lost", "done"}

Init ==
    /\ at = [t \in Threads |-> IF t = DriverEntry THEN "IoCreateDevice" ELSE "idle"]
    /\ objects = {}
    /\ signal = [t \in Threads |-> 0]
    /\ csb = "NULL"
    /\ Index = 0
    /\ linked = {}
    /\ dpc = [queued |-> FALSE, target |-> 0, context |-> NoTsb]
    /\ pc = [c \in Processors |-> "idle"]
    /\ Tsb = [c \in Processors |-> NoTsb]
    /\ vmxe = [c \in Processors |-> FALSE]
    /\ mode = [c \in Processors |-> "off"]
    /\ current = [c \in Processors |-> NoTsb]
    /\ revision = {}
    /\ launch = [i \in Tsbs |-> "undefined"]
    /\ hostRsp = [i \in Tsbs |-> NoTsb]

Goto(t, step) == at' = [at EXCEPT ![t] = step]

-----------------------------------------------------------------------------
(* DriverEntry                                                             *)

IoCreateDevice ==
    /\ at[DriverEntry] = "IoCreateDevice"
    /\ \/ /\ objects' = {"device"}
          /\ Goto(DriverEntry, "IoCreateSymbolicLink")
       \/ /\ UNCHANGED objects
          /\ Goto(DriverEntry, "returned")
    /\ UNCHANGED <<signal, csb, Index, linked, dpc, cpuVars, vmcsVars>>

LinkFailureKeepsDevice(existing) == existing

(* The error path of DriverEntry: what is left when no link was created. *)
AfterLinkFailure(existing) == existing \ {"device"}

IoCreateSymbolicLink ==
    /\ at[DriverEntry] = "IoCreateSymbolicLink"
    /\ \/ /\ objects' = objects \cup {"link"}
          /\ Goto(DriverEntry, "ExQueueWorkItem")
       \/ /\ objects' = AfterLinkFailure(objects)
          /\ Goto(DriverEntry, "returned")
    /\ UNCHANGED <<signal, csb, Index, linked, dpc, cpuVars, vmcsVars>>

NoWaitForWorker == "returned"

(* What DriverEntry does once the work item is queued. *)
AfterQueueWorkItem == "KeWaitForSingleObject"

ExQueueWorkItem ==
    /\ at[DriverEntry] = "ExQueueWorkItem"
    /\ at' = [at EXCEPT ![DriverEntry] = AfterQueueWorkItem, ![Worker] = "__malloc"]
    /\ signal' = [signal EXCEPT ![DriverEntry] = 0]
    /\ UNCHANGED <<objects, csb, Index, linked, dpc, cpuVars, vmcsVars>>

-----------------------------------------------------------------------------
(* VmxStartAllProcessors                                                   *)

Malloc ==
    /\ at[Worker] = "__malloc"
    /\ \/ /\ csb' = "zeroed"
          /\ Goto(Worker, "__vmx_prepare_csb")
       \/ /\ UNCHANGED csb
          /\ Goto(Worker, "returned")
    /\ UNCHANGED <<objects, signal, Index, linked, dpc, cpuVars, vmcsVars>>

PrepareCsb ==
    /\ at[Worker] = "__vmx_prepare_csb"
    /\ \/ /\ csb' = "prepared"
          /\ signal' = [signal EXCEPT ![Worker] = 0]
          /\ Index' = 0
          /\ Goto(Worker, "for")
       \/ /\ Goto(Worker, "returned")
          /\ UNCHANGED <<csb, signal, Index>>
    /\ UNCHANGED <<objects, linked, dpc, cpuVars, vmcsVars>>

OnePastTheEnd == Index <= NumberProcessors

InRange == Index < NumberProcessors

SharedTsb == 0

(* &Csb->Tsb[Index], the DeferredContext of the DPC. *)
ContextOfIndex == Index

(* One turn of the loop, up to the queueing of the Dpc. *)
InitializeDpc ==
    /\ at[Worker] = "for"
    /\ InRange
    /\ linked' = linked \cup {Index}
    /\ signal' = [signal EXCEPT ![Worker] = 0]
    /\ dpc' = [queued |-> FALSE, target |-> Index, context |-> ContextOfIndex]
    /\ Goto(Worker, "KeInsertQueueDpc")
    /\ UNCHANGED <<objects, csb, Index, cpuVars, vmcsVars>>

NeverWait(inserted) == FALSE

WaitForDpc(inserted) == inserted

(* KeInsertQueueDpc refuses a Dpc that is already in a queue; the loop waits *)
(* for the routine only if the Dpc went in.                                 *)
InsertQueueDpc ==
    LET inserted == ~dpc.queued
    IN  /\ at[Worker] = "KeInsertQueueDpc"
        /\ dpc' = [dpc EXCEPT !.queued = TRUE]
        /\ Goto(Worker, IF WaitForDpc(inserted) THEN "KeWaitForSingleObject" ELSE "for")
        /\ Index' = IF WaitForDpc(inserted) THEN Index ELSE Index + 1
        /\ UNCHANGED <<objects, signal, csb, linked, cpuVars, vmcsVars>>

(* The assignment *Block = Csb.  Block is the address of the KEVENT that    *)
(* DriverEntry waits for, so it lands on the event's header: its first four *)
(* bytes on x86; on x64 the upper half of a kernel address, a negative      *)
(* number, becomes SignalState.                                             *)
Publish ==
    /\ at[Worker] = "for"
    /\ ~InRange
    /\ signal' = IF X64 THEN [signal EXCEPT ![DriverEntry] = -1] ELSE signal
    /\ Goto(Worker, "returned")
    /\ UNCHANGED <<objects, csb, Index, linked, dpc, cpuVars, vmcsVars>>

(* The two waits, both on a synchronization event and without a timeout.    *)
KeWaitForSingleObject(t) ==
    /\ at[t] = "KeWaitForSingleObject"
    /\ signal[t] > 0
    /\ signal' = [signal EXCEPT ![t] = 0]
    /\ Goto(t, IF t = Worker THEN "for" ELSE "returned")
    /\ Index' = IF t = Worker THEN Index + 1 ELSE Index
    /\ UNCHANGED <<objects, csb, linked, dpc, cpuVars, vmcsVars>>

-----------------------------------------------------------------------------
(* The DPC routine on processor c                                          *)

Step(c, next) == pc' = [pc EXCEPT ![c] = next]

(* The kernel takes the Dpc off the target's queue and calls its routine. *)
RetireDpc(c) ==
    /\ dpc.queued /\ dpc.target = c
    /\ pc[c] \in {"idle", "done"}
    /\ dpc' = [dpc EXCEPT !.queued = FALSE]
    /\ Step(c, "VmxStartProcessors")
    /\ UNCHANGED <<threadVars, Tsb, vmxe, mode, current, vmcsVars>>

(* The routine reads its arguments back out of the Dpc object. *)
VmxStartProcessors(c) ==
    /\ pc[c] = "VmxStartProcessors"
    /\ Tsb' = [Tsb EXCEPT ![c] = dpc.context]
    /\ Step(c, "__vmx_prepare_vmcs")
    /\ UNCHANGED <<threadVars, dpc, vmxe, mode, current, vmcsVars>>

Cr4Unwritten(c) == vmxe

(* CR4 after the fixed bits are applied: IA32_VMX_CR4_FIXED0 has VMXE set. *)
Cr4Adjusted(c) == [vmxe EXCEPT ![c] = TRUE]

PrepareVmcs(c) ==
    /\ pc[c] = "__vmx_prepare_vmcs"
    /\ revision' = revision \cup {Tsb[c]}
    /\ vmxe' = Cr4Adjusted(c)
    /\ Step(c, "vmxon")
    /\ UNCHANGED <<threadVars, dpc, Tsb, mode, current, launch, hostRsp>>

(* The states in which the processor can carry the instructions out.       *)
CanVmxon(c) == vmxe[c] /\ mode[c] = "off" /\ Tsb[c] \in revision
CanVmclear(c) == mode[c] = "root"
CanVmptrld(c) == mode[c] = "root" /\ Tsb[c] \in revision
CanVmwrite(c) == mode[c] = "root" /\ current[c] # NoTsb
CanVmlaunch(c) ==
    /\ mode[c] = "root"
    /\ current[c] # NoTsb
    /\ launch[current[c]] = "clear"
    /\ hostRsp[current[c]] # NoTsb
CanVmxoff(c) == mode[c] = "root"

Vmxon(c) ==
    /\ pc[c] = "vmxon"
    /\ \/ /\ CanVmxon(c)
          /\ mode' = [mode EXCEPT ![c] = "root"]
          /\ Step(c, "vmclear")
       \/ /\ UNCHANGED mode
          /\ Step(c, "KeSetEvent")
    /\ UNCHANGED <<threadVars, dpc, Tsb, vmxe, current, vmcsVars>>

Vmclear(c) ==
    /\ pc[c] = "vmclear"
    /\ \/ /\ CanVmclear(c)
          /\ launch' = [launch EXCEPT ![Tsb[c]] = "clear"]
          /\ Step(c, "vmptrld")
       \/ /\ UNCHANGED launch
          /\ Step(c, "vmxoff")
    /\ UNCHANGED <<threadVars, dpc, Tsb, vmxe, mode, current, revision, hostRsp>>

Vmptrld(c) ==
    /\ pc[c] = "vmptrld"
    /\ \/ /\ CanVmptrld(c)
          /\ current' = [current EXCEPT ![c] = Tsb[c]]
          /\ Step(c, "vmwrite")
       \/ /\ UNCHANGED current
          /\ Step(c, "vmxoff")
    /\ UNCHANGED <<threadVars, dpc, Tsb, vmxe, mode, vmcsVars>>

(* __vmx_entry fills the current VMCS; HOST_RSP is &Tsb->Registers. *)
WriteVmcs(c) ==
    /\ pc[c] = "vmwrite"
    /\ hostRsp' = [i \in Tsbs |-> IF CanVmwrite(c) /\ i = current[c]
                                  THEN Tsb[c] ELSE hostRsp[i]]
    /\ Step(c, "vmlaunch")
    /\ UNCHANGED <<threadVars, dpc, Tsb, vmxe, mode, current, revision, launch>>

LaunchFailureReturns == "KeSetEvent"

RetryAfterFailure == "vmclear"

(* Where __vmx_entry goes when vmlaunch returns to it. *)
AfterLaunchFailure == "vmxoff"

(* vmlaunch succeeds and the rest of the routine runs as a guest; or it     *)
(* fails and returns; or the processor has already left the caller when it  *)
(* finds the guest state invalid, and "exits" to HOST_RIP.                  *)
Vmlaunch(c) ==
    /\ pc[c] = "vmlaunch"
    /\ \/ /\ CanVmlaunch(c)
          /\ mode' = [mode EXCEPT ![c] = "guest"]
          /\ launch' = [launch EXCEPT ![current[c]] = "launched"]
          /\ Step(c, "KeSetEvent")
       \/ /\ UNCHANGED <<mode, launch>>
          /\ Step(c, AfterLaunchFailure)
       \/ /\ EntryFailures /\ CanVmlaunch(c)
          /\ UNCHANGED <<mode, launch>>
          /\ Step(c, "__vmx_trap")
    /\ UNCHANGED <<threadVars, dpc, Tsb, vmxe, current, revision, hostRsp>>

(* __vmx_trap dispatches the failed entry to __vm_null and resumes.  The    *)
(* VMCS was never launched, vmresume fails, and its ret takes the first     *)
(* word of the register frame for a return address.                         *)
TrapFailedEntry(c) ==
    /\ pc[c] = "__vmx_trap"
    /\ launch[current[c]] # "launched"
    /\ Step(c, "lost")
    /\ UNCHANGED <<threadVars, dpc, Tsb, vmxe, mode, current, vmcsVars>>

Vmxoff(c) ==
    /\ pc[c] = "vmxoff"
    /\ mode' = IF CanVmxoff(c) THEN [mode EXCEPT ![c] = "off"] ELSE mode
    /\ current' = [current EXCEPT ![c] = NoTsb]
    /\ Step(c, "KeSetEvent")
    /\ UNCHANGED <<threadVars, dpc, Tsb, vmxe, vmcsVars>>

SignalGuestsOnly(c) == mode[c] = "guest"

(* VmxStartProcessors ignores the result of __vmx_start. *)
SignalAlways(c) == TRUE

KeSetEvent(c) ==
    /\ pc[c] = "KeSetEvent"
    /\ signal' = IF SignalAlways(c) THEN [signal EXCEPT ![Worker] = 1] ELSE signal
    /\ Step(c, "done")
    /\ UNCHANGED <<at, objects, csb, Index, linked, dpc, Tsb, vmxe, mode, current,
                   vmcsVars>>

-----------------------------------------------------------------------------

EntryNext == IoCreateDevice \/ IoCreateSymbolicLink \/ ExQueueWorkItem

WorkerNext == Malloc \/ PrepareCsb \/ InitializeDpc \/ InsertQueueDpc \/ Publish

ThreadNext == EntryNext \/ WorkerNext \/ \E t \in Threads : KeWaitForSingleObject(t)

DpcNext(c) ==
    \/ RetireDpc(c) \/ VmxStartProcessors(c) \/ PrepareVmcs(c)
    \/ Vmxon(c) \/ Vmclear(c) \/ Vmptrld(c) \/ WriteVmcs(c) \/ Vmlaunch(c)
    \/ TrapFailedEntry(c) \/ Vmxoff(c) \/ KeSetEvent(c)

Next == ThreadNext \/ \E c \in Processors : DpcNext(c)

Spec == Init /\ [][Next]_vars

(* The threads are scheduled, and the DPC runs: it is queued with high      *)
(* importance, and nothing outranks a DPC but interrupts, which end.        *)
Fairness ==
    /\ WF_vars(EntryNext)
    /\ WF_vars(WorkerNext)
    /\ \A t \in Threads : WF_vars(KeWaitForSingleObject(t))
    /\ \A c \in Processors : WF_vars(DpcNext(c))

FairSpec == Spec /\ Fairness

-----------------------------------------------------------------------------
(* Properties                                                              *)

(* Every variable has its type; in particular Index never runs past the    *)
(* array of TSBs, and neither the Dpc nor a routine names a TSB outside it. *)
TypeOK ==
    /\ at \in [Threads -> EntrySteps \cup WorkerSteps]
    /\ at[DriverEntry] \in EntrySteps /\ at[Worker] \in WorkerSteps
    /\ objects \subseteq {"device", "link"}
    /\ signal \in [Threads -> {-1, 0, 1}]
    /\ csb \in {"NULL", "zeroed", "prepared"}
    /\ Index \in 0 .. NumberProcessors
    /\ linked \subseteq Tsbs
    /\ dpc \in [queued : BOOLEAN, target : Processors, context : Tsbs \cup {NoTsb}]
    /\ pc \in [Processors -> DpcSteps]
    /\ Tsb \in [Processors -> Tsbs \cup {NoTsb}]
    /\ vmxe \in [Processors -> BOOLEAN]
    /\ mode \in [Processors -> {"off", "root", "guest"}]
    /\ current \in [Processors -> Tsbs \cup {NoTsb}]
    /\ revision \subseteq Tsbs
    /\ launch \in [Tsbs -> {"undefined", "clear", "launched"}]
    /\ hostRsp \in [Tsbs -> Tsbs \cup {NoTsb}]

Running(c) == pc[c] \notin {"idle", "done"}

(* VmxStartProcessors reads Dpc->DeferredContext from the Dpc object, not    *)
(* from its parameters, and the worker re-initialises that object for every *)
(* processor: when the routine on c reads it, it still describes c, is in   *)
(* no queue, and names a TSB whose Number and Csb fields are set.           *)
DpcDescribesItsProcessor ==
    \A c \in Processors :
        pc[c] = "VmxStartProcessors" =>
            /\ ~dpc.queued
            /\ dpc.target = c /\ dpc.context = c
            /\ c \in linked
            /\ csb = "prepared"

(* Nobody holds a pointer into a stack frame that is gone: while the Dpc is  *)
(* queued or a routine runs (it will set the worker's event) the worker is  *)
(* waiting, and while the worker runs (its work item and its Block are on   *)
(* DriverEntry's stack) DriverEntry is waiting.                             *)
StackFramesOutliveTheirUsers ==
    /\ dpc.queued \/ (\E c \in Processors : Running(c))
           => at[Worker] = "KeWaitForSingleObject"
    /\ at[Worker] \notin {"idle", "returned"}
           => at[DriverEntry] = "KeWaitForSingleObject"

(* DriverEntry returns only from an error path, with the device object and   *)
(* link it created deleted and no work item queued: after such a return the *)
(* driver image and the stack frame go away.                                *)
FailedLoadLeavesNothing ==
    at[DriverEntry] = "returned" => objects = {} /\ at[Worker] = "idle"

(* Bring-up is strictly sequential: while one processor is in the routine,  *)
(* those before it have finished and those after it have not begun.         *)
OneProcessorAtATime ==
    \A c, d \in Processors :
        Running(c) /\ c # d => pc[d] = IF d < c THEN "done" ELSE "idle"

(* Each VMX instruction is executed only in a state in which the processor  *)
(* accepts it: vmxon with CR4.VMXE set, outside VMX operation and on a      *)
(* region with the revision identifier, vmlaunch on a current VMCS that is  *)
(* clear and has its host state, and so on.                                 *)
VmxInstructionsAreLegal ==
    \A c \in Processors :
        /\ pc[c] = "vmxon" => CanVmxon(c)
        /\ pc[c] = "vmclear" => CanVmclear(c)
        /\ pc[c] = "vmptrld" => CanVmptrld(c)
        /\ pc[c] = "vmwrite" => CanVmwrite(c)
        /\ pc[c] = "vmlaunch" => CanVmlaunch(c)
        /\ pc[c] = "vmxoff" => CanVmxoff(c)

(* When the routine is over, its processor is either a guest whose VMCS is  *)
(* launched, current and returns to its own register frame, or is out of    *)
(* VMX operation with no current VMCS: never in root operation with nothing *)
(* to run.                                                                  *)
Virtualised(c) ==
    /\ mode[c] = "guest" /\ vmxe[c]
    /\ current[c] = c /\ launch[c] = "launched" /\ hostRsp[c] = c

NoneOrAll ==
    \A c \in Processors :
        pc[c] = "done" => Virtualised(c) \/ (mode[c] = "off" /\ current[c] = NoTsb)

(* A VMCS belongs to one processor: it is current nowhere else, its exits   *)
(* never land on another processor's frame, and it is launched only while   *)
(* its processor is the guest.                                              *)
VmcsBelongsToItsProcessor ==
    \A c \in Processors :
        /\ current[c] \in {c, NoTsb}
        /\ hostRsp[c] \in {c, NoTsb}
        /\ launch[c] = "launched" => mode[c] = "guest" /\ current[c] = c

(* No wake-up is lost: while the worker waits, its event is set, or its Dpc  *)
(* is in a queue, or a routine that will set the event is on its way.  The  *)
(* loop clears the event before it queues the Dpc, the routine sets it      *)
(* whatever became of the launch, and the Dpc is never refused.             *)
NoLostWakeup ==
    at[Worker] = "KeWaitForSingleObject" =>
        signal[Worker] = 1 \/ dpc.queued \/ \E c \in Processors : Running(c)

(* How many steps are still to come at most: those of DriverEntry, of the    *)
(* loop (TurnSteps for each processor left) and of the routine waited for.  *)
EntryLeft == [IoCreateDevice |-> 4, IoCreateSymbolicLink |-> 3, ExQueueWorkItem |-> 2,
              KeWaitForSingleObject |-> 1, returned |-> 0]

RoutineDone == [idle |-> 0, VmxStartProcessors |-> 1, __vmx_prepare_vmcs |-> 2,
                vmxon |-> 3, vmclear |-> 4, vmptrld |-> 5, vmwrite |-> 6, vmlaunch |-> 7,
                __vmx_trap |-> 8, vmxoff |-> 8, lost |-> 9, KeSetEvent |-> 9, done |-> 10]

TurnSteps == 13

TurnsLeft == TurnSteps * (NumberProcessors - Index)

WorkerLeft ==
    CASE at[Worker] = "idle" -> TurnSteps * NumberProcessors + 4
      [] at[Worker] = "__malloc" -> TurnSteps * NumberProcessors + 3
      [] at[Worker] = "__vmx_prepare_csb" -> TurnSteps * NumberProcessors + 2
      [] at[Worker] = "for" -> TurnsLeft + 1
      [] at[Worker] = "KeInsertQueueDpc" -> TurnsLeft
      [] at[Worker] = "KeWaitForSingleObject" -> TurnsLeft - 1 - RoutineDone[pc[Index]]
      [] at[Worker] = "returned" -> 0

Rank == EntryLeft[at[DriverEntry]] + WorkerLeft

(* Nothing in the bring-up is ever retried or repeated: no failed launch is  *)
(* tried again, no processor is visited twice, and every step of any actor, *)
(* whichever instruction fails, brings the bring-up nearer to its end.      *)
EveryStepProgresses == [][Rank' < Rank]_vars

(* The abstract bring-up, with "settled" read off the routine's progress.    *)
ProcessorState ==
    [c \in Processors |->
        IF pc[c] = "idle" THEN "untouched"
        ELSE IF pc[c] # "done" THEN "taken"
        ELSE IF mode[c] = "guest" THEN "guest" ELSE "native"]

BU == INSTANCE BringUp WITH state <- ProcessorState,
                            over <- at[Worker] = "returned"

(* VmxLaunch implements BringUp: processors are taken in order, each settles *)
(* before the next is taken, and the bring-up ends at the first or the last.*)
ImplementsBringUp == BU!Spec

(* Once the control block is prepared, the worker tries every processor and  *)
(* returns: no wait for a DPC is lost, whichever instruction fails.  Only a  *)
(* processor that rejects the guest state after leaving the caller, and is   *)
(* lost in __vmx_trap, keeps the worker waiting.                             *)
BringUpCompletes ==
    csb = "prepared"
        ~> \/ at[Worker] = "returned" /\ \A c \in Processors : pc[c] = "done"
           \/ \E c \in Processors : pc[c] = "lost"

(* Daat.c prints "[Daat] load" after its wait, and Start.cmd and Stop.cmd    *)
(* start and stop the driver: when the worker is done, DriverEntry returns.  *)
DriverEntryReturns ==
    at[Worker] = "returned" /\ csb = "prepared" ~> at[DriverEntry] = "returned"
=============================================================================
