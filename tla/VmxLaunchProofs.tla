--------------------------- MODULE VmxLaunchProofs ---------------------------
(***************************************************************************)
(* The safety and the progress of the bring-up for every number of          *)
(* processors.                                                             *)
(*                                                                         *)
(* IInv has three parts beside the types.  EntryInv says where DriverEntry *)
(* can be while the worker is alive.  LoopInv ties the worker's step and   *)
(* Index to the Dpc object and to the progress of every processor: it is   *)
(* the hand-over between the loop and the DPC.  CpuInv(c) is the state of  *)
(* processor c at each step of its own routine; no other processor's step  *)
(* touches it, because each routine runs on the TSB of its own index.      *)
(*                                                                         *)
(* Progress follows from the same invariant: Rank, the number of steps     *)
(* still to come, is lowered by every one of them.                         *)
(***************************************************************************)
EXTENDS VmxLaunch, TLAPS

EntryInv ==
    /\ at[DriverEntry] # "KeWaitForSingleObject" => at[Worker] = "idle"
    /\ at[DriverEntry] \in {"IoCreateDevice", "returned"} => objects = {}
    /\ at[DriverEntry] = "IoCreateSymbolicLink" => objects = {"device"}
    /\ signal[DriverEntry] <= 0

(* Every processor before i has finished, every one from i on is untouched. *)
Before(i) == \A c \in Processors : pc[c] = IF c < i THEN "done" ELSE "idle"

(* As Before, but for processor i itself. *)
Around(i) ==
    \A c \in Processors : c # i => pc[c] = IF c < i THEN "done" ELSE "idle"

(* The Dpc object is set up for processor Index, whose TSB is linked. *)
DpcReady ==
    /\ Index \in Processors /\ Index \in linked
    /\ dpc.target = Index /\ dpc.context = Index
    /\ csb = "prepared"

LoopInv ==
    /\ at[Worker] \in {"idle", "__malloc", "__vmx_prepare_csb"} =>
           Before(0) /\ ~dpc.queued
    /\ at[Worker] = "for" =>
           Before(Index) /\ ~dpc.queued /\ csb = "prepared"
    /\ at[Worker] = "KeInsertQueueDpc" =>
           Before(Index) /\ ~dpc.queued /\ DpcReady /\ signal[Worker] = 0
    /\ at[Worker] = "KeWaitForSingleObject" =>
           /\ DpcReady /\ Around(Index)
           /\ \/ dpc.queued /\ pc[Index] = "idle" /\ signal[Worker] = 0
              \/ ~dpc.queued /\ Running(Index) /\ signal[Worker] = 0
              \/ ~dpc.queued /\ pc[Index] = "done" /\ signal[Worker] = 1
    /\ at[Worker] = "returned" =>
           (Before(0) \/ Before(NumberProcessors)) /\ ~dpc.queued

Native(c) == mode[c] = "off" /\ current[c] = NoTsb /\ launch[c] # "launched"

CpuInv(c) ==
    /\ current[c] \in {c, NoTsb} /\ hostRsp[c] \in {c, NoTsb}
    /\ launch[c] = "launched" => mode[c] = "guest" /\ current[c] = c
    /\ pc[c] \notin {"idle", "VmxStartProcessors"} => Tsb[c] = c
    /\ pc[c] \in {"idle", "VmxStartProcessors", "__vmx_prepare_vmcs", "vmxon"} =>
           Native(c)
    /\ pc[c] \in {"vmxon", "vmclear", "vmptrld", "vmwrite", "vmlaunch"} =>
           vmxe[c] /\ c \in revision
    /\ pc[c] \in {"vmclear", "vmptrld", "vmwrite", "vmlaunch", "__vmx_trap", "vmxoff"} =>
           mode[c] = "root"
    /\ pc[c] = "vmptrld" => launch[c] = "clear"
    /\ pc[c] \in {"vmwrite", "vmlaunch"} => current[c] = c /\ launch[c] = "clear"
    /\ pc[c] = "vmlaunch" => hostRsp[c] = c
    /\ pc[c] \in {"KeSetEvent", "done"} => Virtualised(c) \/ Native(c)

IInv == TypeOK /\ EntryInv /\ LoopInv /\ \A c \in Processors : CpuInv(c)

-----------------------------------------------------------------------------
(* The initial states                                                      *)

LEMMA InitIInv == Init => IInv
<1> SUFFICES ASSUME Init PROVE IInv
  OBVIOUS
<1> USE NumberProcessorsAssumption DEF Processors, Tsbs, NoTsb, Threads, DriverEntry, Worker
<1>1. TypeOK
  BY DEF Init, TypeOK, EntrySteps, WorkerSteps, DpcSteps
<1>2. EntryInv
  BY DEF Init, EntryInv
<1>3. LoopInv
  BY DEF Init, LoopInv, Before
<1>4. ASSUME NEW c \in Processors PROVE CpuInv(c)
  BY <1>4 DEF Init, CpuInv, Native
<1> QED
  BY <1>1, <1>2, <1>3, <1>4 DEF IInv

-----------------------------------------------------------------------------
(* The steps of the two threads                                            *)

(* A step that leaves the processors and the VMCSs alone keeps CpuInv. *)
LEMMA CpuInvFrame ==
  ASSUME IInv, UNCHANGED <<cpuVars, vmcsVars>>
  PROVE  \A c \in Processors : CpuInv(c)'
BY DEF IInv, CpuInv, Native, Virtualised, cpuVars, vmcsVars

LEMMA EntryStep == IInv /\ EntryNext => IInv'
<1> SUFFICES ASSUME IInv, EntryNext PROVE IInv'
  OBVIOUS
<1> USE DEF Threads, DriverEntry, Worker
<1>0. UNCHANGED <<csb, Index, linked, dpc, cpuVars, vmcsVars>>
  BY DEF EntryNext, IoCreateDevice, IoCreateSymbolicLink, ExQueueWorkItem
<1>1. TypeOK'
  <2>1. /\ at' \in [Threads -> EntrySteps \cup WorkerSteps]
        /\ at'[DriverEntry] \in EntrySteps /\ at'[Worker] \in WorkerSteps
    BY DEF IInv, TypeOK, EntryNext, IoCreateDevice, IoCreateSymbolicLink, ExQueueWorkItem,
       AfterQueueWorkItem, Goto, EntrySteps, WorkerSteps
  <2>2. objects' \subseteq {"device", "link"} /\ signal' \in [Threads -> {-1, 0, 1}]
    BY DEF IInv, TypeOK, EntryNext, IoCreateDevice, IoCreateSymbolicLink, ExQueueWorkItem,
       AfterLinkFailure
  <2> QED
    BY <1>0, <2>1, <2>2 DEF IInv, TypeOK, cpuVars, vmcsVars
<1>2. EntryInv'
  <2>1. CASE IoCreateDevice
    BY <2>1 DEF IInv, TypeOK, EntryInv, IoCreateDevice, Goto
  <2>2. CASE IoCreateSymbolicLink
    BY <2>2 DEF IInv, TypeOK, EntryInv, IoCreateSymbolicLink, AfterLinkFailure, Goto
  <2>3. CASE ExQueueWorkItem
    BY <2>3 DEF IInv, TypeOK, EntryInv, ExQueueWorkItem, AfterQueueWorkItem, Goto
  <2> QED
    BY <2>1, <2>2, <2>3 DEF EntryNext
<1>3. LoopInv'
  <2>1. at[Worker] = "idle" /\ at'[Worker] \in {"idle", "__malloc"}
    BY DEF IInv, TypeOK, EntryInv, EntryNext, IoCreateDevice, IoCreateSymbolicLink,
       ExQueueWorkItem, Goto
  <2>2. Before(0)' /\ ~dpc'.queued
    BY <1>0, <2>1 DEF IInv, LoopInv, Before, cpuVars
  <2> QED
    BY <2>1, <2>2 DEF LoopInv
<1>4. \A c \in Processors : CpuInv(c)'
  BY <1>0, CpuInvFrame
<1> QED
  BY <1>1, <1>2, <1>3, <1>4 DEF IInv

(* The worker moves only while DriverEntry waits, and never signals it. *)
LEMMA WorkerStep == IInv /\ WorkerNext => IInv'
<1> SUFFICES ASSUME IInv, WorkerNext PROVE IInv'
  OBVIOUS
<1> USE NumberProcessorsAssumption DEF Threads, DriverEntry, Worker, Processors, Tsbs, NoTsb
<1>0. UNCHANGED <<objects, cpuVars, vmcsVars>> /\ at'[DriverEntry] = at[DriverEntry]
  BY DEF WorkerNext, Malloc, PrepareCsb, InitializeDpc, InsertQueueDpc, Publish, Goto,
     IInv, TypeOK
<1>1. TypeOK'
  <2>1. CASE Malloc
    BY <2>1, <1>0 DEF IInv, TypeOK, Malloc, Goto, WorkerSteps, cpuVars, vmcsVars
  <2>2. CASE PrepareCsb
    BY <2>2, <1>0 DEF IInv, TypeOK, PrepareCsb, Goto, WorkerSteps, cpuVars, vmcsVars
  <2>3. CASE InitializeDpc
    BY <2>3, <1>0 DEF IInv, TypeOK, InitializeDpc, InRange, ContextOfIndex, Goto,
       WorkerSteps, cpuVars, vmcsVars
  <2>4. CASE InsertQueueDpc
    BY <2>4, <1>0 DEF IInv, TypeOK, LoopInv, InsertQueueDpc, WaitForDpc, Goto, WorkerSteps,
       cpuVars, vmcsVars
  <2>5. CASE Publish
    BY <2>5, <1>0 DEF IInv, TypeOK, Publish, Goto, WorkerSteps, cpuVars, vmcsVars
  <2> QED
    BY <2>1, <2>2, <2>3, <2>4, <2>5 DEF WorkerNext
<1>2. EntryInv'
  <2>1. signal'[DriverEntry] <= 0
    BY DEF IInv, TypeOK, EntryInv, WorkerNext, Malloc, PrepareCsb, InitializeDpc,
       InsertQueueDpc, Publish
  <2>2. at[Worker] # "idle"
    BY DEF WorkerNext, Malloc, PrepareCsb, InitializeDpc, InsertQueueDpc, Publish
  <2> QED
    BY <1>0, <2>1, <2>2 DEF IInv, EntryInv
<1>3. LoopInv'
  <2>1. CASE Malloc
    BY <2>1, <1>0 DEF IInv, TypeOK, LoopInv, Before, Malloc, Goto, cpuVars
  <2>2. CASE PrepareCsb
    BY <2>2, <1>0 DEF IInv, TypeOK, LoopInv, Before, PrepareCsb, Goto, cpuVars
  <2>3. CASE InitializeDpc
    BY <2>3, <1>0 DEF IInv, TypeOK, LoopInv, Before, DpcReady, InitializeDpc, InRange,
       ContextOfIndex, Goto, cpuVars
  <2>4. CASE InsertQueueDpc
    BY <2>4, <1>0 DEF IInv, TypeOK, LoopInv, Before, Around, DpcReady, InsertQueueDpc,
       WaitForDpc, Goto, cpuVars
  <2>5. CASE Publish
    <3>1. Index = NumberProcessors
      BY <2>5 DEF IInv, TypeOK, Publish, InRange
    <3> QED
      BY <2>5, <3>1, <1>0 DEF IInv, TypeOK, LoopInv, Before, Publish, Goto, cpuVars
  <2> QED
    BY <2>1, <2>2, <2>3, <2>4, <2>5 DEF WorkerNext
<1>4. \A c \in Processors : CpuInv(c)'
  BY <1>0, CpuInvFrame
<1> QED
  BY <1>1, <1>2, <1>3, <1>4 DEF IInv

(* Only the worker's wait ever ends: nobody sets DriverEntry's event. *)
LEMMA WaitStep ==
  ASSUME NEW t \in Threads, IInv, KeWaitForSingleObject(t)
  PROVE  IInv'
<1> USE NumberProcessorsAssumption DEF Threads, DriverEntry, Worker, Processors, Tsbs, NoTsb
<1>0. t = Worker
  <2>1. signal[t] > 0 /\ signal[DriverEntry] <= 0 /\ signal[DriverEntry] \in {-1, 0, 1}
    BY DEF IInv, TypeOK, EntryInv, KeWaitForSingleObject
  <2> QED
    BY <2>1
<1>1. Index \in Processors /\ signal[Worker] > 0 /\ at[Worker] = "KeWaitForSingleObject"
  BY <1>0 DEF IInv, LoopInv, DpcReady, KeWaitForSingleObject
<1>2. ~dpc.queued /\ pc[Index] = "done" /\ Around(Index) /\ csb = "prepared"
  BY <1>1 DEF IInv, LoopInv, DpcReady
<1>3. TypeOK'
  BY <1>0, <1>1 DEF IInv, TypeOK, KeWaitForSingleObject, Goto, WorkerSteps, cpuVars, vmcsVars
<1>4. EntryInv'
  BY <1>0 DEF IInv, TypeOK, EntryInv, KeWaitForSingleObject, Goto
<1>5. LoopInv'
  <2>1. at'[Worker] = "for" /\ Index' = Index + 1 /\ UNCHANGED <<pc, dpc, csb>>
    BY <1>0 DEF IInv, TypeOK, KeWaitForSingleObject, Goto, cpuVars
  <2>2. Before(Index)'
    BY <1>1, <1>2, <2>1 DEF Around, Before
  <2> QED
    BY <1>2, <2>1, <2>2 DEF LoopInv
<1>6. \A c \in Processors : CpuInv(c)'
  BY CpuInvFrame DEF KeWaitForSingleObject
<1> QED
  BY <1>3, <1>4, <1>5, <1>6 DEF IInv

-----------------------------------------------------------------------------
(* The steps of the DPC routine                                            *)

(* While a routine runs, the worker waits for exactly that processor. *)
LEMMA RunningIsAwaited ==
  ASSUME IInv, NEW c \in Processors, Running(c)
  PROVE  /\ at[Worker] = "KeWaitForSingleObject"
         /\ Index = c /\ ~dpc.queued /\ signal[Worker] = 0
<1>1. at[Worker] \in WorkerSteps
  BY DEF IInv, TypeOK
<1>2. pc[c] \notin {"idle", "done"}
  BY DEF Running
<1>3. at[Worker] = "KeWaitForSingleObject"
  BY <1>1, <1>2 DEF IInv, LoopInv, Before, WorkerSteps
<1> QED
  BY <1>2, <1>3 DEF IInv, LoopInv, Around

(* A step inside the routine leaves the hand-over as it is. *)
LEMMA RoutineKeepsLoop ==
  ASSUME IInv, NEW c \in Processors, Running(c),
         NEW next \in DpcSteps \ {"idle", "done"}, Step(c, next),
         UNCHANGED <<threadVars, dpc>>
  PROVE  EntryInv' /\ LoopInv'
<1> USE DEF Step
<1>1. EntryInv'
  BY DEF IInv, EntryInv, threadVars
<1>2. /\ at[Worker] = "KeWaitForSingleObject"
      /\ Index = c /\ ~dpc.queued /\ signal[Worker] = 0
  BY RunningIsAwaited
<1>3. Running(c)' /\ \A d \in Processors : d # c => pc'[d] = pc[d]
  BY DEF IInv, TypeOK, Running
<1>4. DpcReady' /\ Around(Index)'
  BY <1>2, <1>3 DEF IInv, LoopInv, DpcReady, Around, threadVars
<1> QED
  BY <1>1, <1>2, <1>3, <1>4 DEF LoopInv, threadVars

(* The routine between its start and its KeSetEvent works on its own TSB. *)
InRoutine(c) ==
    \/ VmxStartProcessors(c) \/ PrepareVmcs(c)
    \/ Vmxon(c) \/ Vmclear(c) \/ Vmptrld(c) \/ WriteVmcs(c) \/ Vmlaunch(c)
    \/ TrapFailedEntry(c) \/ Vmxoff(c)

LEMMA RoutineUsesOwnTsb ==
  ASSUME IInv, NEW c \in Processors
  PROVE  /\ pc[c] = "VmxStartProcessors" => dpc.context = c
         /\ Running(c) /\ pc[c] # "VmxStartProcessors" => Tsb[c] = c
<1>1. pc[c] = "VmxStartProcessors" => dpc.context = c
  <2> HAVE pc[c] = "VmxStartProcessors"
  <2>1. at[Worker] = "KeWaitForSingleObject" /\ Index = c
    BY RunningIsAwaited DEF Running
  <2> QED
    BY <2>1 DEF IInv, LoopInv, DpcReady
<1>2. Running(c) /\ pc[c] # "VmxStartProcessors" => Tsb[c] = c
  BY DEF IInv, CpuInv, Running
<1> QED
  BY <1>1, <1>2

LEMMA RoutineType ==
  ASSUME IInv, NEW c \in Processors, InRoutine(c)
  PROVE  TypeOK'
<1> USE DEF Tsbs, NoTsb, Step, DpcSteps
<1>0. TypeOK /\ CpuInv(c)
  BY DEF IInv
<1>1. CASE VmxStartProcessors(c)
  BY <1>0, <1>1, RoutineUsesOwnTsb DEF TypeOK, VmxStartProcessors, threadVars, vmcsVars
<1>2. CASE PrepareVmcs(c)
  <2>1. Tsb[c] = c
    BY <1>2, RoutineUsesOwnTsb DEF PrepareVmcs, Running
  <2> QED
    BY <1>0, <1>2, <2>1 DEF TypeOK, PrepareVmcs, Cr4Adjusted, threadVars
<1>3. CASE Vmxon(c)
  BY <1>0, <1>3 DEF TypeOK, Vmxon, threadVars, vmcsVars
<1>4. CASE Vmclear(c)
  BY <1>0, <1>4 DEF TypeOK, Vmclear, threadVars
<1>5. CASE Vmptrld(c)
  BY <1>0, <1>5 DEF TypeOK, Vmptrld, threadVars, vmcsVars
<1>6. CASE WriteVmcs(c)
  BY <1>0, <1>6 DEF TypeOK, WriteVmcs, threadVars
<1>7. CASE Vmlaunch(c)
  BY <1>0, <1>7 DEF TypeOK, Vmlaunch, AfterLaunchFailure, threadVars
<1>8. CASE TrapFailedEntry(c)
  BY <1>0, <1>8 DEF TypeOK, TrapFailedEntry, threadVars, vmcsVars
<1>9. CASE Vmxoff(c)
  BY <1>0, <1>9 DEF TypeOK, Vmxoff, threadVars, vmcsVars
<1> QED
  BY <1>1, <1>2, <1>3, <1>4, <1>5, <1>6, <1>7, <1>8, <1>9 DEF InRoutine

LEMMA RoutineOthers ==
  ASSUME IInv, NEW c \in Processors, InRoutine(c), NEW d \in Processors, d # c
  PROVE  CpuInv(d)'
<1>0. CpuInv(d) /\ CpuInv(c) /\ TypeOK
  BY DEF IInv
<1>1. /\ pc'[d] = pc[d] /\ Tsb'[d] = Tsb[d] /\ vmxe'[d] = vmxe[d]
      /\ mode'[d] = mode[d] /\ current'[d] = current[d]
  BY <1>0 DEF TypeOK, InRoutine, VmxStartProcessors, PrepareVmcs, Vmxon, Vmclear, Vmptrld,
     WriteVmcs, Vmlaunch, TrapFailedEntry, Vmxoff, Cr4Adjusted, Step, vmcsVars
<1>2. launch'[d] = launch[d]
  <2>1. CASE Vmclear(c)
    BY <1>0, <2>1, RoutineUsesOwnTsb DEF TypeOK, Vmclear, Running, Tsbs
  <2>2. CASE Vmlaunch(c)
    BY <1>0, <2>2 DEF TypeOK, CpuInv, Vmlaunch, Tsbs
  <2> QED
    BY <2>1, <2>2 DEF InRoutine, VmxStartProcessors, PrepareVmcs, Vmxon, Vmptrld,
       WriteVmcs, TrapFailedEntry, Vmxoff, vmcsVars
<1>3. hostRsp'[d] = hostRsp[d]
  <2>1. CASE WriteVmcs(c)
    BY <1>0, <2>1 DEF CpuInv, WriteVmcs, Tsbs
  <2> QED
    BY <2>1 DEF InRoutine, VmxStartProcessors, PrepareVmcs, Vmxon, Vmclear, Vmptrld,
       Vmlaunch, TrapFailedEntry, Vmxoff, vmcsVars
<1>4. d \in revision => d \in revision'
  BY DEF InRoutine, VmxStartProcessors, PrepareVmcs, Vmxon, Vmclear, Vmptrld, WriteVmcs,
     Vmlaunch, TrapFailedEntry, Vmxoff, vmcsVars
<1> QED
  BY <1>0, <1>1, <1>2, <1>3, <1>4 DEF CpuInv, Native, Virtualised

LEMMA RoutineOwn ==
  ASSUME IInv, NEW c \in Processors, InRoutine(c)
  PROVE  CpuInv(c)'
<1> USE DEF Tsbs, NoTsb, Step
<1>0. TypeOK /\ CpuInv(c)
  BY DEF IInv
<1>1. CASE VmxStartProcessors(c)
  BY <1>0, <1>1, RoutineUsesOwnTsb
     DEF TypeOK, CpuInv, Native, VmxStartProcessors, vmcsVars
<1>2. CASE PrepareVmcs(c)
  BY <1>0, <1>2 DEF TypeOK, CpuInv, Native, PrepareVmcs, Cr4Adjusted
<1>3. CASE Vmxon(c)
  BY <1>0, <1>3 DEF TypeOK, CpuInv, Native, Vmxon, vmcsVars
<1>4. CASE Vmclear(c)
  BY <1>0, <1>4 DEF TypeOK, CpuInv, Vmclear
<1>5. CASE Vmptrld(c)
  BY <1>0, <1>5 DEF TypeOK, CpuInv, Vmptrld, vmcsVars
<1>6. CASE WriteVmcs(c)
  BY <1>0, <1>6 DEF TypeOK, CpuInv, WriteVmcs, CanVmwrite, Processors
<1>7. CASE Vmlaunch(c)
  BY <1>0, <1>7 DEF TypeOK, CpuInv, Virtualised, Vmlaunch, AfterLaunchFailure
<1>8. CASE TrapFailedEntry(c)
  BY <1>0, <1>8 DEF TypeOK, CpuInv, TrapFailedEntry, vmcsVars
<1>9. CASE Vmxoff(c)
  BY <1>0, <1>9 DEF TypeOK, CpuInv, Native, Vmxoff, CanVmxoff, vmcsVars
<1> QED
  BY <1>1, <1>2, <1>3, <1>4, <1>5, <1>6, <1>7, <1>8, <1>9 DEF InRoutine

LEMMA RoutineStep ==
  ASSUME IInv, NEW c \in Processors, InRoutine(c)
  PROVE  IInv'
<1>1. Running(c) /\ UNCHANGED <<threadVars, dpc>>
  BY DEF InRoutine, Running, VmxStartProcessors, PrepareVmcs, Vmxon, Vmclear, Vmptrld,
     WriteVmcs, Vmlaunch, TrapFailedEntry, Vmxoff
<1>2. \E next \in DpcSteps \ {"idle", "done"} : Step(c, next)
  BY DEF InRoutine, DpcSteps, VmxStartProcessors, PrepareVmcs, Vmxon, Vmclear, Vmptrld,
     WriteVmcs, Vmlaunch, AfterLaunchFailure, TrapFailedEntry, Vmxoff
<1>3. EntryInv' /\ LoopInv'
  BY <1>1, <1>2, RoutineKeepsLoop
<1>4. TypeOK'
  BY RoutineType
<1>5. \A d \in Processors : CpuInv(d)'
  BY RoutineOthers, RoutineOwn
<1> QED
  BY <1>3, <1>4, <1>5 DEF IInv

LEMMA RetireStep ==
  ASSUME IInv, NEW c \in Processors, RetireDpc(c)
  PROVE  IInv'
<1> USE DEF RetireDpc, Step
<1>0. TypeOK /\ CpuInv(c) /\ UNCHANGED <<threadVars, Tsb, vmxe, mode, current, vmcsVars>>
  BY DEF IInv
<1>1. at[Worker] \in WorkerSteps
  BY <1>0 DEF TypeOK
<1>2. /\ at[Worker] = "KeWaitForSingleObject" /\ Index = c
      /\ pc[c] = "idle" /\ signal[Worker] = 0 /\ DpcReady /\ Around(Index)
  BY <1>1 DEF IInv, LoopInv, WorkerSteps, DpcReady
<1>3. /\ pc'[c] = "VmxStartProcessors" /\ ~dpc'.queued
      /\ dpc'.target = dpc.target /\ dpc'.context = dpc.context
      /\ \A d \in Processors : d # c => pc'[d] = pc[d]
  BY <1>0 DEF TypeOK
<1>4. TypeOK'
  BY <1>0 DEF TypeOK, DpcSteps, threadVars, vmcsVars
<1>5. EntryInv'
  BY <1>0 DEF IInv, EntryInv, threadVars
<1>6. LoopInv'
  <2>1. DpcReady' /\ Around(Index)' /\ Running(Index)'
    BY <1>0, <1>2, <1>3 DEF DpcReady, Around, Running, threadVars
  <2> QED
    BY <1>0, <1>2, <1>3, <2>1 DEF LoopInv, threadVars
<1>7. ASSUME NEW d \in Processors PROVE CpuInv(d)'
  <2>1. CASE d = c
    BY <1>0, <1>2, <1>3, <2>1 DEF CpuInv, Native, Virtualised, vmcsVars
  <2>2. CASE d # c
    BY <1>0, <1>3, <2>2 DEF IInv, CpuInv, Native, Virtualised, vmcsVars
  <2> QED
    BY <2>1, <2>2
<1> QED
  BY <1>4, <1>5, <1>6, <1>7 DEF IInv

LEMMA SetEventStep ==
  ASSUME IInv, NEW c \in Processors, KeSetEvent(c)
  PROVE  IInv'
<1> USE DEF KeSetEvent, SignalAlways, Step, Threads, DriverEntry, Worker
<1>0. /\ TypeOK /\ CpuInv(c)
      /\ UNCHANGED <<at, objects, csb, Index, linked, dpc, Tsb, vmxe, mode, current,
                     vmcsVars>>
  BY DEF IInv
<1>1. /\ at[Worker] = "KeWaitForSingleObject"
      /\ Index = c /\ ~dpc.queued
  BY RunningIsAwaited DEF Running
<1>2. DpcReady /\ Around(Index)
  BY <1>1 DEF IInv, LoopInv
<1>3. /\ pc'[c] = "done" /\ \A d \in Processors : d # c => pc'[d] = pc[d]
      /\ signal'[DriverEntry] = signal[DriverEntry] /\ signal'[Worker] = 1
  BY <1>0 DEF TypeOK
<1>4. TypeOK'
  BY <1>0 DEF TypeOK, DpcSteps, vmcsVars
<1>5. EntryInv'
  BY <1>0, <1>3 DEF IInv, EntryInv
<1>6. LoopInv'
  <2>1. DpcReady' /\ Around(Index)'
    BY <1>0, <1>1, <1>2, <1>3 DEF DpcReady, Around
  <2> QED
    BY <1>0, <1>1, <1>3, <2>1 DEF LoopInv
<1>7. ASSUME NEW d \in Processors PROVE CpuInv(d)'
  <2>1. CASE d = c
    BY <1>0, <1>3, <2>1 DEF CpuInv, Native, Virtualised, vmcsVars
  <2>2. CASE d # c
    BY <1>0, <1>3, <2>2 DEF IInv, CpuInv, Native, Virtualised, vmcsVars
  <2> QED
    BY <2>1, <2>2
<1> QED
  BY <1>4, <1>5, <1>6, <1>7 DEF IInv

-----------------------------------------------------------------------------
(* The theorems                                                            *)

LEMMA NextIInv == IInv /\ [Next]_vars => IInv'
<1> SUFFICES ASSUME IInv, [Next]_vars PROVE IInv'
  OBVIOUS
<1>1. CASE EntryNext
  BY <1>1, EntryStep
<1>2. CASE WorkerNext
  BY <1>2, WorkerStep
<1>3. CASE \E t \in Threads : KeWaitForSingleObject(t)
  BY <1>3, WaitStep
<1>4. ASSUME NEW c \in Processors, DpcNext(c) PROVE IInv'
  BY <1>4, RetireStep, RoutineStep, SetEventStep DEF DpcNext, InRoutine
<1>5. CASE UNCHANGED vars
  BY <1>5 DEF vars, IInv, TypeOK, EntryInv, LoopInv, Before, Around, DpcReady, Running,
     CpuInv, Native, Virtualised
<1> QED
  BY <1>1, <1>2, <1>3, <1>4, <1>5 DEF Next, ThreadNext

(* The bring-up, at every number of processors, stays within IInv. *)
THEOREM Invariance == Spec => []IInv
BY InitIInv, NextIInv, PTL DEF Spec

(* Type correctness of the bring-up: Index and every TSB pointer stay in    *)
(* range.                                                                   *)
THEOREM TypeCorrect == Spec => []TypeOK
<1>1. IInv => TypeOK
  BY DEF IInv
<1> QED
  BY <1>1, Invariance, PTL

(* The one Dpc object describes the processor whose routine reads it.       *)
THEOREM DpcArguments == Spec => []DpcDescribesItsProcessor
<1>1. IInv => DpcDescribesItsProcessor
  <2> SUFFICES ASSUME IInv, NEW c \in Processors, pc[c] = "VmxStartProcessors"
               PROVE  /\ ~dpc.queued
                      /\ dpc.target = c /\ dpc.context = c
                      /\ c \in linked
                      /\ csb = "prepared"
    BY DEF DpcDescribesItsProcessor
  <2>1. at[Worker] = "KeWaitForSingleObject" /\ Index = c /\ ~dpc.queued
    BY RunningIsAwaited DEF Running
  <2> QED
    BY <2>1 DEF IInv, LoopInv, DpcReady
<1> QED
  BY <1>1, Invariance, PTL

(* The stack frames of DriverEntry and of the worker outlive the pointers   *)
(* into them that the worker and the DPC routines hold.                     *)
THEOREM FramesOutlive == Spec => []StackFramesOutliveTheirUsers
<1>1. IInv => StackFramesOutliveTheirUsers
  <2> SUFFICES ASSUME IInv PROVE StackFramesOutliveTheirUsers
    OBVIOUS
  <2>1. dpc.queued => at[Worker] = "KeWaitForSingleObject"
    BY DEF IInv, TypeOK, LoopInv, WorkerSteps
  <2>2. (\E c \in Processors : Running(c)) => at[Worker] = "KeWaitForSingleObject"
    BY RunningIsAwaited
  <2> QED
    BY <2>1, <2>2 DEF IInv, EntryInv, StackFramesOutliveTheirUsers
<1> QED
  BY <1>1, Invariance, PTL

(* The processors are brought up strictly one after the other.              *)
THEOREM Sequential == Spec => []OneProcessorAtATime
<1>1. IInv => OneProcessorAtATime
  <2> SUFFICES ASSUME IInv, NEW c \in Processors, NEW d \in Processors,
                      Running(c), c # d
               PROVE  pc[d] = IF d < c THEN "done" ELSE "idle"
    BY DEF OneProcessorAtATime
  <2>1. at[Worker] = "KeWaitForSingleObject" /\ Index = c
    BY RunningIsAwaited
  <2> QED
    BY <2>1 DEF IInv, LoopInv, Around
<1> QED
  BY <1>1, Invariance, PTL

(* No VMX instruction is executed in a state that the processor refuses.    *)
THEOREM LegalInstructions == Spec => []VmxInstructionsAreLegal
<1>1. IInv => VmxInstructionsAreLegal
  <2> SUFFICES ASSUME IInv, NEW c \in Processors
               PROVE  /\ pc[c] = "vmxon" => CanVmxon(c)
                      /\ pc[c] = "vmclear" => CanVmclear(c)
                      /\ pc[c] = "vmptrld" => CanVmptrld(c)
                      /\ pc[c] = "vmwrite" => CanVmwrite(c)
                      /\ pc[c] = "vmlaunch" => CanVmlaunch(c)
                      /\ pc[c] = "vmxoff" => CanVmxoff(c)
    BY DEF VmxInstructionsAreLegal
  <2>1. CpuInv(c) /\ c # NoTsb
    BY DEF IInv, Processors, NoTsb
  <2> QED
    BY <2>1 DEF CpuInv, Native, CanVmxon, CanVmclear, CanVmptrld, CanVmwrite, CanVmlaunch,
       CanVmxoff
<1> QED
  BY <1>1, Invariance, PTL

(* A processor whose routine is over is a whole guest or none.              *)
THEOREM NoneOrAllGuest == Spec => []NoneOrAll
<1>1. IInv => NoneOrAll
  BY DEF IInv, CpuInv, Native, NoneOrAll
<1> QED
  BY <1>1, Invariance, PTL

(* No VMCS is shared between processors.                                    *)
THEOREM VmcsOwnership == Spec => []VmcsBelongsToItsProcessor
<1>1. IInv => VmcsBelongsToItsProcessor
  BY DEF IInv, CpuInv, VmcsBelongsToItsProcessor
<1> QED
  BY <1>1, Invariance, PTL

(* A load that fails before the work item is queued leaves nothing behind.  *)
THEOREM FailedLoad == Spec => []FailedLoadLeavesNothing
<1>1. IInv => FailedLoadLeavesNothing
  BY DEF IInv, EntryInv, FailedLoadLeavesNothing
<1> QED
  BY <1>1, Invariance, PTL

(* While the worker waits, somebody is on the way to wake it.               *)
THEOREM WakeupComes == Spec => []NoLostWakeup
<1>1. IInv => NoLostWakeup
  BY DEF IInv, LoopInv, DpcReady, NoLostWakeup
<1> QED
  BY <1>1, Invariance, PTL

-----------------------------------------------------------------------------
(* Progress                                                                *)

(* What is left to do is a number, of DriverEntry's steps and the worker's. *)
LEMMA EntryLeftNat == TypeOK => EntryLeft[at[DriverEntry]] \in Nat
BY DEF TypeOK, EntrySteps, EntryLeft

LEMMA RoutineDoneBounds == \A step \in DpcSteps : RoutineDone[step] \in 0 .. 10
BY DEF DpcSteps, RoutineDone

LEMMA TurnsLeftNat ==
  ASSUME TypeOK
  PROVE  /\ TurnsLeft \in Nat
         /\ Index \in Processors => TurnsLeft >= TurnSteps
BY NumberProcessorsAssumption DEF TypeOK, TurnsLeft, TurnSteps, Processors

(* WorkerLeft, one equation for each place the worker can be. *)
LEMMA WorkerLeftAt ==
  /\ at[Worker] = "idle" => WorkerLeft = TurnSteps * NumberProcessors + 4
  /\ at[Worker] = "__malloc" => WorkerLeft = TurnSteps * NumberProcessors + 3
  /\ at[Worker] = "__vmx_prepare_csb" => WorkerLeft = TurnSteps * NumberProcessors + 2
  /\ at[Worker] = "for" => WorkerLeft = TurnsLeft + 1
  /\ at[Worker] = "KeInsertQueueDpc" => WorkerLeft = TurnsLeft
  /\ at[Worker] = "KeWaitForSingleObject" =>
         WorkerLeft = TurnsLeft - 1 - RoutineDone[pc[Index]]
  /\ at[Worker] = "returned" => WorkerLeft = 0
BY DEF WorkerLeft

LEMMA WorkerLeftNat == IInv => WorkerLeft \in Nat
<1> SUFFICES ASSUME IInv PROVE WorkerLeft \in Nat
  OBVIOUS
<1>1. TypeOK /\ at[Worker] \in WorkerSteps /\ TurnsLeft \in Nat
  BY TurnsLeftNat DEF IInv, TypeOK
<1>2. CASE at[Worker] = "KeWaitForSingleObject"
  <2>1. Index \in Processors /\ pc[Index] \in DpcSteps
    BY <1>1, <1>2 DEF IInv, LoopInv, DpcReady, TypeOK
  <2>2. RoutineDone[pc[Index]] \in 0 .. 10
    BY <2>1, RoutineDoneBounds
  <2>3. TurnsLeft >= 13
    BY <1>1, <2>1, TurnsLeftNat DEF TurnSteps
  <2>4. WorkerLeft = TurnsLeft - 1 - RoutineDone[pc[Index]]
    BY <1>2, WorkerLeftAt
  <2> QED
    BY <1>1, <2>2, <2>3, <2>4
<1>3. CASE at[Worker] # "KeWaitForSingleObject"
  BY <1>1, <1>3, WorkerLeftAt, NumberProcessorsAssumption DEF WorkerSteps, TurnSteps
<1> QED
  BY <1>2, <1>3

LEMMA RankNat == IInv => Rank \in Nat
BY EntryLeftNat, WorkerLeftNat DEF IInv, Rank

(* A step of DriverEntry is one less of its own; queueing the work item is  *)
(* also the worker's first step.                                            *)
LEMMA EntryProgresses == IInv /\ EntryNext => Rank' < Rank
<1> SUFFICES ASSUME IInv, EntryNext PROVE Rank' < Rank
  OBVIOUS
<1> USE DEF Threads, DriverEntry, Worker
<1>0. TypeOK /\ EntryLeft[at[DriverEntry]] \in Nat /\ WorkerLeft \in Nat
  BY EntryLeftNat, WorkerLeftNat DEF IInv
<1>1. EntryLeft[at'[DriverEntry]] \in Nat /\ EntryLeft[at'[DriverEntry]] < EntryLeft[at[DriverEntry]]
  BY <1>0 DEF TypeOK, EntryLeft, EntryNext, IoCreateDevice, IoCreateSymbolicLink,
     ExQueueWorkItem, AfterQueueWorkItem, Goto
<1>2. at[Worker] = "idle" /\ at'[Worker] \in {"idle", "__malloc"}
  BY <1>0 DEF IInv, EntryInv, TypeOK, EntryNext, IoCreateDevice, IoCreateSymbolicLink,
     ExQueueWorkItem, Goto
<1>3. WorkerLeft' \in Nat /\ WorkerLeft' <= WorkerLeft
  BY <1>2, NumberProcessorsAssumption DEF WorkerLeft, TurnSteps
<1> QED
  BY <1>0, <1>1, <1>3 DEF Rank

(* The worker's steps outside its wait: from one place to the next, or to   *)
(* the end.                                                                 *)
LEMMA WorkerProgresses == IInv /\ WorkerNext => Rank' < Rank
<1> SUFFICES ASSUME IInv, WorkerNext PROVE Rank' < Rank
  OBVIOUS
<1> USE NumberProcessorsAssumption DEF Threads, DriverEntry, Worker
<1>0. TypeOK /\ LoopInv /\ EntryLeft[at[DriverEntry]] \in Nat
  BY EntryLeftNat DEF IInv
<1>1. at'[DriverEntry] = at[DriverEntry] /\ pc' = pc
  BY <1>0 DEF WorkerNext, Malloc, PrepareCsb, InitializeDpc, InsertQueueDpc, Publish, Goto,
     TypeOK, cpuVars
<1>2. WorkerLeft' \in Int /\ WorkerLeft' < WorkerLeft /\ WorkerLeft \in Int
  <2>0. TurnsLeft \in Nat
    BY <1>0, TurnsLeftNat
  <2>1. CASE Malloc
    BY <1>0, <2>1 DEF TypeOK, WorkerLeft, TurnSteps, Malloc, Goto
  <2>2. CASE PrepareCsb
    <3>1. at[Worker] = "__vmx_prepare_csb"
      BY <2>2 DEF PrepareCsb
    <3>2. \/ at'[Worker] = "for" /\ Index' = 0
          \/ at'[Worker] = "returned"
      BY <1>0, <2>2 DEF TypeOK, PrepareCsb, Goto
    <3> QED
      BY <3>1, <3>2 DEF WorkerLeft, TurnsLeft, TurnSteps
  <2>3. CASE InitializeDpc
    <3>1. at[Worker] = "for" /\ at'[Worker] = "KeInsertQueueDpc" /\ Index' = Index
      BY <1>0, <2>3 DEF TypeOK, InitializeDpc, Goto
    <3> QED
      BY <2>0, <3>1 DEF WorkerLeft, TurnsLeft
  <2>4. CASE InsertQueueDpc
    <3>1. /\ at[Worker] = "KeInsertQueueDpc" /\ at'[Worker] = "KeWaitForSingleObject"
          /\ Index' = Index
      BY <1>0, <2>4 DEF TypeOK, LoopInv, InsertQueueDpc, WaitForDpc, Goto
    <3>2. pc'[Index'] = "idle"
      <4>1. Index \in Processors /\ Before(Index)
        BY <1>0, <3>1 DEF LoopInv, DpcReady
      <4>2. pc[Index] = "idle"
        BY <4>1 DEF Before, Processors
      <4> QED
        BY <1>1, <3>1, <4>2
    <3>3. RoutineDone[pc'[Index']] = 0
      BY <3>2 DEF RoutineDone
    <3>4. WorkerLeft = TurnsLeft /\ WorkerLeft' = TurnsLeft - 1 - RoutineDone[pc'[Index']]
      BY <3>1 DEF WorkerLeft, TurnsLeft
    <3> QED
      BY <2>0, <3>3, <3>4
  <2>5. CASE Publish
    <3>1. at[Worker] = "for" /\ at'[Worker] = "returned"
      BY <1>0, <2>5 DEF TypeOK, Publish, Goto
    <3> QED
      BY <2>0, <3>1 DEF WorkerLeft
  <2> QED
    BY <2>1, <2>2, <2>3, <2>4, <2>5 DEF WorkerNext
<1> QED
  BY <1>0, <1>1, <1>2 DEF Rank

(* The end of the worker's wait begins the next turn. *)
LEMMA WaitProgresses ==
  ASSUME NEW t \in Threads, IInv, KeWaitForSingleObject(t)
  PROVE  Rank' < Rank
<1> USE NumberProcessorsAssumption DEF Threads, DriverEntry, Worker
<1>0. t = Worker
  <2>1. signal[t] > 0 /\ signal[DriverEntry] <= 0 /\ signal[DriverEntry] \in {-1, 0, 1}
    BY DEF IInv, TypeOK, EntryInv, KeWaitForSingleObject
  <2> QED
    BY <2>1
<1>1. TypeOK /\ EntryLeft[at[DriverEntry]] \in Nat
  BY EntryLeftNat DEF IInv
<1>2. /\ at[Worker] = "KeWaitForSingleObject" /\ at'[Worker] = "for"
      /\ at'[DriverEntry] = at[DriverEntry] /\ Index' = Index + 1
  BY <1>0, <1>1 DEF TypeOK, KeWaitForSingleObject, Goto
<1>3. Index \in Processors /\ pc[Index] \in DpcSteps
  BY <1>1, <1>2 DEF IInv, LoopInv, DpcReady, TypeOK
<1>4. RoutineDone[pc[Index]] \in 0 .. 10
  BY <1>3, RoutineDoneBounds
<1>5. WorkerLeft = TurnsLeft - 1 - RoutineDone[pc[Index]] /\ WorkerLeft' = TurnsLeft - TurnSteps + 1
  BY <1>2, <1>3 DEF WorkerLeft, TurnsLeft, TurnSteps, Processors
<1>6. TurnsLeft \in Nat
  BY <1>1, TurnsLeftNat
<1> QED
  BY <1>1, <1>2, <1>4, <1>5, <1>6 DEF Rank, TurnSteps

(* A step of the routine goes on, whatever its instruction answers. *)
LEMMA RoutineAdvances ==
  ASSUME IInv, NEW c \in Processors, DpcNext(c)
  PROVE  /\ RoutineDone[pc[c]] \in Nat /\ RoutineDone[pc'[c]] \in Nat
         /\ RoutineDone[pc'[c]] > RoutineDone[pc[c]]
<1> USE DEF Step, RoutineDone
<1>0. pc \in [Processors -> DpcSteps]
  BY DEF IInv, TypeOK
<1>1. CASE RetireDpc(c)
  <2>1. pc[c] = "idle"
    BY <1>1 DEF RetireDpc, IInv, TypeOK, LoopInv, WorkerSteps, DpcReady
  <2> QED
    BY <1>0, <1>1, <2>1 DEF RetireDpc
<1>2. CASE VmxStartProcessors(c) \/ PrepareVmcs(c) \/ WriteVmcs(c)
  BY <1>0, <1>2 DEF VmxStartProcessors, PrepareVmcs, WriteVmcs
<1>3. CASE Vmxon(c) \/ Vmclear(c) \/ Vmptrld(c)
  BY <1>0, <1>3 DEF Vmxon, Vmclear, Vmptrld
<1>4. CASE Vmlaunch(c)
  BY <1>0, <1>4 DEF Vmlaunch, AfterLaunchFailure
<1>5. CASE TrapFailedEntry(c) \/ Vmxoff(c) \/ KeSetEvent(c)
  BY <1>0, <1>5 DEF TrapFailedEntry, Vmxoff, KeSetEvent
<1> QED
  BY <1>1, <1>2, <1>3, <1>4, <1>5 DEF DpcNext

LEMMA DpcProgresses ==
  ASSUME IInv, NEW c \in Processors, DpcNext(c)
  PROVE  Rank' < Rank
<1>1. TypeOK /\ EntryLeft[at[DriverEntry]] \in Nat
  BY EntryLeftNat DEF IInv
<1>2. Running(c) \/ RetireDpc(c)
  BY DEF Running, DpcNext, VmxStartProcessors, PrepareVmcs, Vmxon, Vmclear, Vmptrld,
     WriteVmcs, Vmlaunch, TrapFailedEntry, Vmxoff, KeSetEvent
<1>3. at[Worker] = "KeWaitForSingleObject" /\ Index = c
  <2>1. CASE RetireDpc(c)
    BY <1>1, <2>1 DEF RetireDpc, IInv, TypeOK, LoopInv, WorkerSteps, DpcReady
  <2> QED
    BY <1>2, <2>1, RunningIsAwaited
<1>4. at' = at /\ Index' = Index
  BY DEF DpcNext, RetireDpc, VmxStartProcessors, PrepareVmcs, Vmxon, Vmclear, Vmptrld,
     WriteVmcs, Vmlaunch, TrapFailedEntry, Vmxoff, KeSetEvent, threadVars
<1>5. TurnsLeft \in Nat
  BY <1>1, TurnsLeftNat
<1>6. /\ WorkerLeft = TurnsLeft - 1 - RoutineDone[pc[c]]
      /\ WorkerLeft' = TurnsLeft - 1 - RoutineDone[pc'[c]]
  BY <1>3, <1>4 DEF WorkerLeft, TurnsLeft
<1>7. WorkerLeft \in Int /\ WorkerLeft' \in Int /\ WorkerLeft' < WorkerLeft
  BY <1>5, <1>6, RoutineAdvances
<1> QED
  BY <1>1, <1>4, <1>7 DEF Rank

LEMMA NextProgresses == IInv /\ [Next]_vars => [Rank' < Rank]_vars
BY EntryProgresses, WorkerProgresses, WaitProgresses, DpcProgresses DEF Next, ThreadNext

(* No step of the bring-up is ever repeated or undone: each brings it nearer *)
(* to its end.                                                              *)
THEOREM Progress == Spec => EveryStepProgresses
BY NextProgresses, Invariance, PTL DEF Spec, EveryStepProgresses

(* What is left to do is a natural number at all times, so that with every  *)
(* step lowering it the bring-up has only finitely many steps: at most      *)
(* 13 * NumberProcessors + 8.                                               *)
THEOREM FinitelyManySteps == Spec => [](Rank \in 0 .. 13 * NumberProcessors + 8)
<1> DEFINE Bounded == Rank \in 0 .. 13 * NumberProcessors + 8
<1>1. Init => Bounded
  BY NumberProcessorsAssumption
     DEF Init, Threads, DriverEntry, Worker, Rank, EntryLeft, WorkerLeft, TurnSteps
<1>0. IInv' => (Rank \in Nat)'
  BY RankNat, PTL
<1>2. IInv' /\ Bounded /\ [Rank' < Rank]_vars => Bounded'
  <2> SUFFICES ASSUME IInv', Bounded, [Rank' < Rank]_vars PROVE Bounded'
    OBVIOUS
  <2>1. CASE Rank' < Rank
    <3>1. Rank' \in Nat
      BY <1>0
    <3> QED
      BY <2>1, <3>1, NumberProcessorsAssumption
  <2>2. CASE UNCHANGED vars
    BY <2>2 DEF vars, Rank, WorkerLeft, TurnsLeft
  <2> QED
    BY <2>1, <2>2
<1>3. IInv /\ Bounded /\ [Next]_vars => Bounded'
  BY <1>2, NextIInv, NextProgresses
<1> QED
  BY <1>1, <1>3, Invariance, PTL DEF Spec

-----------------------------------------------------------------------------
(* The refinement                                                          *)

Over == at[Worker] = "returned"

LEMMA InitRefines == Init => BU!Init
<1> SUFFICES ASSUME Init PROVE BU!Init
  OBVIOUS
<1>1. ~Over
  BY DEF Init, Over, Threads, DriverEntry, Worker
<1>2. ProcessorState = [c \in Processors |-> "untouched"]
  BY DEF Init, ProcessorState
<1> QED
  BY <1>1, <1>2 DEF BU!Init, BU!Processors, Processors, Over

(* The abstract state of a processor does not change in a step that leaves  *)
(* its progress alone, or stays inside the routine.                         *)
LEMMA SameState ==
  ASSUME \A c \in Processors :
             \/ pc'[c] = pc[c] /\ mode'[c] = mode[c]
             \/ Running(c) /\ Running(c)'
  PROVE  ProcessorState' = ProcessorState
BY DEF ProcessorState, Running

LEMMA ThreadRefines ==
  ASSUME IInv, ThreadNext
  PROVE  BU!End \/ UNCHANGED <<ProcessorState, Over>>
<1> USE DEF Threads, DriverEntry, Worker
<1>0. UNCHANGED <<pc, mode>>
  BY DEF ThreadNext, EntryNext, WorkerNext, IoCreateDevice, IoCreateSymbolicLink,
     ExQueueWorkItem, Malloc, PrepareCsb, InitializeDpc, InsertQueueDpc, Publish,
     KeWaitForSingleObject, cpuVars
<1>1. ProcessorState' = ProcessorState
  BY <1>0 DEF ProcessorState
<1>2. Over => Over'
  BY DEF IInv, TypeOK, Over, ThreadNext, EntryNext, WorkerNext, IoCreateDevice,
     IoCreateSymbolicLink, ExQueueWorkItem, Malloc, PrepareCsb, InitializeDpc,
     InsertQueueDpc, Publish, KeWaitForSingleObject, Goto, EntryInv
<1>3. ASSUME ~Over, Over' PROVE BU!End
  <2>1. Malloc \/ PrepareCsb \/ Publish
    BY <1>3 DEF IInv, TypeOK, Over, ThreadNext, EntryNext, WorkerNext, IoCreateDevice,
       IoCreateSymbolicLink, ExQueueWorkItem, InitializeDpc, InsertQueueDpc,
       KeWaitForSingleObject, Goto
  <2>2. Before(0) \/ Before(NumberProcessors)
    <3>1. CASE Malloc \/ PrepareCsb
      BY <3>1 DEF IInv, LoopInv, Malloc, PrepareCsb
    <3>2. CASE Publish
      <4>1. Index = NumberProcessors
        BY <3>2, NumberProcessorsAssumption DEF IInv, TypeOK, Publish, InRange
      <4> QED
        BY <3>2, <4>1 DEF IInv, LoopInv, Publish
    <3> QED
      BY <2>1, <3>1, <3>2
  <2>3. \/ \A c \in Processors : pc[c] = "idle"
        \/ \A c \in Processors : pc[c] = "done"
    BY <2>2, NumberProcessorsAssumption DEF Before, Processors
  <2>4. \/ \A c \in Processors : ProcessorState[c] = "untouched"
        \/ \A c \in Processors : ProcessorState[c] \in BU!Settled
    BY <2>3 DEF ProcessorState, BU!Settled
  <2> QED
    BY <1>1, <1>3, <2>4 DEF BU!End, BU!Processors, Processors, Over
<1>4. Over \in BOOLEAN /\ Over' \in BOOLEAN
  BY DEF Over
<1> QED
  BY <1>1, <1>2, <1>3, <1>4

LEMMA RetireRefines ==
  ASSUME IInv, NEW c \in Processors, RetireDpc(c)
  PROVE  BU!Take(c)
<1> USE DEF RetireDpc, Step
<1>1. at[Worker] = "KeWaitForSingleObject" /\ Index = c /\ pc[c] = "idle" /\ Around(c)
  BY DEF IInv, TypeOK, LoopInv, WorkerSteps, DpcReady
<1>2. UNCHANGED <<at, mode>>
  BY DEF threadVars
<1>3. ProcessorState' = [ProcessorState EXCEPT ![c] = "taken"]
  BY <1>2 DEF IInv, TypeOK, ProcessorState
<1>4. ProcessorState[c] = "untouched"
  BY <1>1 DEF ProcessorState
<1>5. \A d \in Processors : d < c => ProcessorState[d] \in BU!Settled
  BY <1>1 DEF Around, Processors, ProcessorState, BU!Settled
<1> QED
  BY <1>1, <1>2, <1>3, <1>4, <1>5 DEF BU!Take, BU!Processors, Processors

LEMMA SetEventRefines ==
  ASSUME IInv, NEW c \in Processors, KeSetEvent(c)
  PROVE  BU!Settle(c)
<1> USE DEF KeSetEvent, Step
<1>1. ProcessorState' =
        [ProcessorState EXCEPT ![c] = IF mode[c] = "guest" THEN "guest" ELSE "native"]
  BY DEF IInv, TypeOK, ProcessorState
<1>2. ProcessorState[c] = "taken"
  BY DEF ProcessorState
<1> QED
  BY <1>1, <1>2 DEF BU!Settle, BU!Settled

LEMMA RoutineRefines ==
  ASSUME IInv, NEW c \in Processors, InRoutine(c)
  PROVE  UNCHANGED <<ProcessorState, Over>>
<1>1. Running(c) /\ Running(c)' /\ at' = at
  BY DEF IInv, TypeOK, InRoutine, Running, Step, VmxStartProcessors, PrepareVmcs, Vmxon,
     Vmclear, Vmptrld, WriteVmcs, Vmlaunch, AfterLaunchFailure, TrapFailedEntry, Vmxoff,
     threadVars
<1>2. \A d \in Processors : d # c => pc'[d] = pc[d] /\ mode'[d] = mode[d]
  BY DEF IInv, TypeOK, InRoutine, Step, VmxStartProcessors, PrepareVmcs, Vmxon, Vmclear,
     Vmptrld, WriteVmcs, Vmlaunch, TrapFailedEntry, Vmxoff
<1>3. ProcessorState' = ProcessorState
  BY <1>1, <1>2, SameState
<1> QED
  BY <1>1, <1>3 DEF Over

LEMMA NextRefines == IInv /\ [Next]_vars => [BU!Next]_(BU!vars)
<1> SUFFICES ASSUME IInv, [Next]_vars PROVE [BU!Next]_(BU!vars)
  OBVIOUS
<1>1. CASE ThreadNext
  BY <1>1, ThreadRefines DEF BU!Next, BU!vars, Over
<1>2. ASSUME NEW c \in Processors, DpcNext(c) PROVE [BU!Next]_(BU!vars)
  <2>1. c \in BU!Processors
    BY DEF Processors, BU!Processors
  <2>2. CASE RetireDpc(c)
    BY <2>1, <2>2, RetireRefines DEF BU!Next
  <2>3. CASE KeSetEvent(c)
    BY <2>1, <2>3, SetEventRefines DEF BU!Next
  <2>4. CASE InRoutine(c)
    BY <2>4, RoutineRefines DEF BU!vars, Over
  <2> QED
    BY <1>2, <2>2, <2>3, <2>4 DEF DpcNext, InRoutine
<1>3. CASE UNCHANGED vars
  BY <1>3 DEF vars, BU!vars, ProcessorState
<1> QED
  BY <1>1, <1>2, <1>3 DEF Next

(* The code's bring-up implements the abstract one: in order, one at a time, *)
(* each processor settled before the next, all of them or none tried.       *)
THEOREM Refinement == Spec => ImplementsBringUp
BY InitRefines, NextRefines, Invariance, PTL DEF Spec, ImplementsBringUp, BU!Spec
=============================================================================
