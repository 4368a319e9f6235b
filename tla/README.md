# Daat in TLA+

Daat is a small hypervisor: a Windows driver (x86 and x64) that, when it is
loaded, puts every processor of the running system into VMX operation and lets
the system go on as a guest. The source is `Projects/Daat`: `Daat.c` (driver
entry), `vmx.c` (bring-up and launch), `VmxHandler.c` (VM exits), the assembly
in `AMD64/InsAMD64.asm` and `I386/InsI386.asm`, and `vmx.h`. (`vmx.c` is
UTF-16; line numbers count its lines as an editor shows them.)

This directory holds a formal model of it, checked with TLC and, wherever
liveness is not the question, proved with TLAPS.

## The system

| Component | State | Operations | Hard because |
|---|---|---|---|
| Driver entry, `Daat.c` | device object, symbolic link, work item and event on its stack | create, fail, queue the worker, wait | the stack frame is shared with a system worker; partial failure |
| Bring-up, `VmxStartAllProcessors` | control block (CSB) with one TSB per processor; ONE Dpc object and ONE event on its stack | one turn of the loop per processor: initialise, queue, wait | the Dpc is re-used while the routine may still read it; every failure path must still signal |
| Launch, `VmxStartProcessors`, `__vmx_start`, `__vmx_entry`, `__vmx_prepare_vmcs` | per processor: CR0/CR4, VMX operation, current VMCS; per TSB: VMXON and VMCS regions, register frame | vmxon, vmclear, vmptrld, vmwrites, vmlaunch, vmxoff | each instruction can fail and is legal in few states |
| VMCS access, `__vmx_vmread_common`, `__vmx_vmwrite_common` and the stubs | none | one or two instructions per call, RFLAGS to `VMX_RESULT` | 64-bit fields take two instructions on x86; two kinds of failure |
| VM exits, `__vmx_trap`, `__vm_exit_dispatch`, the handlers | the register frame, the VMCS | one handler per exit reason | the guest must not be able to tell; the frame holds stale copies |
| Control block, `__vmx_prepare_csb` | controls, MSR bitmap | fit the wished controls to the processor's fixed bits | bit arithmetic on two words per MSR |
| MTRR and EPT, `__vmx_prepare_mtrr`, `__vmx_prepare_ept` | range database, page tables | read ranges, type each 2 MB page | off-by-one, straddling pages |
| Segments, `__vmx_prepare_segment` | none | descriptor to VMCS fields | conversion |
| Device requests, printing, PatchGuard hook, headers, scripts | none that matters | | |

DriverEntry hands `VmxStartAllProcessors` to a system worker thread and waits.
The worker prepares the CSB, and for each processor fills the TSB, initialises
its Dpc for it, queues it and waits for the event that the routine sets at the
end. The routine runs `__vmx_start`, which saves the context and calls
`__vmx_entry`; after vmlaunch the same routine goes on as a guest, and from
then on that processor enters the monitor only through `__vmx_trap`, on the
frame in its own TSB. The handlers touch nothing another processor touches.

Before any of this the worker prepares what the processors have in common: the
five control words, from what it wishes and what the processor's MSRs allow; the
MSR bitmap; the database of memory ranges from the MTRRs; the EPT map. Each
processor's `__vmx_entry` then writes these and its own registers to its VMCS.

What makes each correct: the hand-over of the Dpc and of the stack frames; the
order and legality of the VMX instructions; all-or-nothing on each processor;
completion whichever instruction fails; no half-moved field reported as success;
controls, bitmap and map that the processor accepts and that say what the code
means; a guest that begins with the state its processor had; and a guest that
sees the processor it believes it has.

## Modules

| Module | Models | Built on |
|---|---|---|
| `BringUp` | abstract: processors are taken in order and settle one at a time | |
| `VmxLaunch` | driver entry, bring-up, launch | implements `BringUp` |
| `VmxLaunchProofs` | theorems about `VmxLaunch` | extends it |
| `VmxFlags` | RFLAGS and `VMX_RESULT` | |
| `VmxAccess` | vmread and vmwrite calls, the tail of `__vmx_entry` after vmlaunch | extends `VmxFlags` |
| `VmxAccessProofs` | theorems about `VmxAccess` | extends it |
| `Processor` | abstract: the processor the guest sees | extends `VmxFlags` |
| `VmExit` | exits for MOV DR, RDMSR, WRMSR, XSETBV, CPUID, VMX and skipped instructions | implements `Processor` |
| `VmExitProofs` | theorems about `VmExit` | extends it |
| `CrAccess` | accesses to control registers, with and without an exit | |
| `CrAccessProofs` | theorems about `CrAccess` | extends it |
| `MemoryMap` | operators: MTRR ranges, memory types, EPT tables, the walk | |
| `ControlBlock` | `__vmx_prepare_csb`: controls, bitmap, map | extends `MemoryMap` |
| `EntryState` | `__vmx_start` and the fields `__vmx_entry` writes | goes on from `ControlBlock` |
| `MtrrProofs` | lemmas about `MemoryMap`: numbers as sets of bits, the range of an MTRR | extends `MemoryMap` |
| `EntryStateProofs` | theorems about the control block and what the launch relies on | extends `EntryState`, `MtrrProofs` |
| `EntryFieldsProofs` | theorems about the fields of the VMCS at the launch | extends `EntryStateProofs` |
| `MCVmxAccess`, `MCVmExit`, `MCCrAccess`, `MCEntryState` | constants for TLC | |

### VmxLaunch

`at` holds where the two threads are, named after the call they are about to
make; `pc[c]` the same for the DPC routine on processor `c`. `signal` is the
`SignalState` of the two events, `dpc` the one KDPC object (queued or not, its
target, its `DeferredContext`), `linked` the TSBs the loop has filled. Per
processor there are `vmxe`, `mode` and `current`; per TSB `revision`, `launch`
and `hostRsp`. A TSB is named by its index, so `Tsb[c] = c` says that a routine
works on its own. An action is one call or instruction together with
everything the code does up to the next one. A failing instruction is a choice
of the processor; the code's reaction is not.

`*Block = Csb` is modelled by what it does: `Block` is the address of
DriverEntry's event, so the store lands on the event's header (`Publish`).
DriverUnload has no action: DriverEntry never returns success, so it is never
called.

A processor may also find the guest state invalid after it has left
`__vmx_entry` (`EntryFailures`): it then "exits" to `__vmx_trap` with a VMCS
that was never launched, vmresume fails, and control is lost
(`TrapFailedEntry`). The model keeps this because it is the one case in which
the worker waits for ever.

### VmxAccess

A value is a pair of halves, so that a half that is lost, doubled or swapped
shows. Both builds are initial states of the same run. An instruction fails as
VMfailValid when there is a current VMCS and as VMfailInvalid when not, as the
processor does. The stubs' `setz, setb, adc, and` is arithmetic on the two
flags: `(ZF + 2 * CF) % 4`. (That is 1 for ZF and 2 for CF; the comments of
`vmx.h:1013-1019` have the two the other way round. Only `vmx.c:914` tells them
apart, by the name that fits the stubs.)

A vmlaunch that fails is followed by what `__vmx_entry` does then: the test of
the result, the vmread of the VM-instruction error, vmxoff. `error` says whose
failure that field tells of; a failure with a current VMCS replaces it, and after
vmxoff no VMCS is current. The driver gives up where vmptrld fails, so vmlaunch
always has a current VMCS and fails with a number; `LaunchErrorIsReported`
therefore says that the number is read, and says nothing of a vmlaunch without a
VMCS.

### VmExit

A word is a set of bit names. An action is one whole exit: trap, handler,
RIP update, RestoreRegisters and vmresume. The state is one processor's, for
the handlers share nothing. `frameCr4` is `Registers.Cr4`, which is written at
launch; `hostRsp` is what RestoreRegisters loads into RSP, and the guest goes
on only when that is the frame. EAX, EBX, ECX and EDX are
registers of their own: CPUID writes all four, the value of an MSR is the pair
EDX:EAX, and what CPUID answers to a leaf is the processor's choice from
`CpuInfos`.
`Processor` is the same machine without a monitor; the mapping takes an MSR
to the VMCS field or to the processor's own register, whichever holds it.
`ImplementsProcessor` is stated instruction by instruction: each handled exit
must be that very instruction of `Processor`. A refinement of its next-state
relation alone would let a WRMSR that is lost pass for one of the instructions
that change nothing.
The feature-control MSR looks unlocked and writes to it are dropped: this
is what the handlers intend, and `Processor` says so. XSETBV writes XCR0 as
WRMSR writes an MSR. An MSR may be one the processor lacks (`Missing`), and a
value one that it refuses (`Refused`): the guest should get #GP, which
`Processor` has, but the handler passes both on and faults itself, or enters the
guest with a field the processor rejects. That is `MonitorFault`; the monitor
does not get back to the guest (`lost`). The privilege level is part of the
state, since MOV DR exits at any level and the handler does not ask for it: the
action is there for user programs too, the abstract processor's is not. RDMSR,
WRMSR and XSETBV fault in a user program before they exit. `VmNull` stands for INVD,
GETSEC, INVEPT and INVVPID, which the monitor skips.

### CrAccess

Which accesses exit is the processor's part: a MOV to CR0 or CR4 exits if a
masked bit differs from the read shadow, one to or from CR3 only where the
processor has no TRUE control registers and insists on it. The others change the
guest's registers and leave the frame behind (`Direct...`). An exiting one is
the whole handler: the named register is stored in the frame, and the frame,
all of it, goes to the guest (`MovToCr`). Assumed of the guest: it leaves the
CR0 bits that the driver masks alone, and of VMXE only sets it, as a second
monitor does. RSP as an operand is `VmExit`'s matter.

### MemoryMap, ControlBlock

A control word is the set of its controls that are 1. The bits vmx.h has no name
for are one control, `default1`, because the code treats them alike:
`LowPart` keeps the older registers' requirement for these only. A machine is a
record of what its MSRs and CPUID say and where the pages of the region are.
`phase` holds the next step of `__vmx_prepare_csb`; where the code would read an
MSR that does not exist, or follow the null pointer of a database that could not
be allocated, the phase is `fault`.

Base and mask of an MTRR are sets of bit numbers, so that the widths of the two
builds are sets too (`WordBits`). The ranges are in bytes and the
address that `AdjustMemoryType` gets is a page number, as in the code. The
tables are read back by `Walk`, which goes through physical addresses as the
processor does, whatever these are.

### EntryState

It goes on where `ControlBlock` ends. A segment is its selector and what the
descriptor table, LSL, LAR and the base MSRs say; the branch for null selectors
has no part, for every field it sets is overwritten. `stack` is the frame of
`__vmx_start`: a C function may write to the four slots above its return address
on x64 (`HomeArea`), which is a choice of the compiler. On x86 the slots of a
callee are its arguments, which are not modelled, and nothing is claimed of that
build's frame. Failing vmwrites are
left to `VmxAccess` and `VmxLaunch`.

## Runs

| Run | Question | Bounds |
|---|---|---|
| `vmx_launch` | all of `VmxLaunch`: safety, refinement, progress, completion | 3 processors: one before, one at, one after `Index` |
| `launch_entry` (violation) | does DriverEntry return? | 2 processors, x64, no lost processor |
| `vmx_access` | is success told apart from failure, and does it mean the whole field? | a field of each width, halves 0 and 1, both builds |
| `vm_exit` | does a guest see the abstract processor? | DR 1, 4-7; an MSR in the VMCS, the feature control, one outside the bitmap, a missing one, XCR0, a refused value; 2 answers of CPUID; both privilege levels; 3 values of RIP |
| `exit_rsp` (violation) | does MOV from DR reach RSP? | RAX and RSP as operands |
| `exit_de` (violation) | do DR4 and DR5 follow CR4.DE? | the guest also writes CR4 |
| `cr_access` | are entries legal, and accesses to control registers what they say? | one bit besides the masked ones in CR0 and in CR4, 2 addresses, both kinds of processor |
| `mov_cr` (violation) | does a MOV leave the other registers alone? | the same |
| `entry_state` | controls, bitmap, ranges, map, and the guest's first state | 30 machines, 6 processors, tables of 2 entries |
| `map_ranges` (violation) | does x86 keep every range where it is? | the same |
| `map_types` (violation) | do large pages get their range's type? | the same |
| `start_frame` (violation) | does `__vmx_start` keep its caller's registers? | the same |

Three processors are enough for TLC because a routine interacts with the loop
only through the Dpc and the event; the theorems hold for any number up to the
127 that fit a signed byte. The MSRs of a case are treated alike by the code,
and so are DR0 to DR3. The handlers of debug registers and of MSRs share nothing
but the general registers, so a behaviour of `vm_exit` changes one kind only
(`OneKind`); the proof has no such bound. RIP wraps at `RipModulus` to keep the state finite;
lengths are smaller than the modulus, so that a skipped or doubled
update shows. The halves of a value are data that the code only moves. One
operand register is enough in `vm_exit`, for the handlers index the frame by
its number; RSP is the exception, and has its own run. A word is empty, bit 0 or
DR7.GD: leaf 1 of CPUID and a leaf that is not, halves of an MSR that differ.

The machines of `entry_state` are one ordinary machine of each build and
fourteen that differ from it in one respect: no VMX, no lock, no TRUE registers,
RDTSCP or not, no EPT, secondary controls without EPT or VPID, or none at all,
MTRRs off, absent, with another default, or of one range over everything, the
pages elsewhere. The code looks at these one after the other, so one at a time
reaches every branch. The address arithmetic runs with `PerPage = 2`, so four
large pages of 2 MB; memory of 2^23 bytes and a "32-bit" word of 22 bits put the
boundaries of x86 inside it; `HighFrame = 64` does the same for EPTP. Five
MTRRs include one whose base has bits outside its mask, an unused one, one
smaller than a large page and one that only 64 bits represent. The descriptor
table has a code, a data, a system and a second-half slot, and the selectors
name ordinary and null segments and an LDT. `BitmapIsExact` looks at all 16384 MSRs of
the bitmap at the moment the control block is prepared; that the bitmap stays so is proved.

Deadlock is not checked where the system stops: in `VmxLaunch` DriverEntry
waits for ever and the guests are not modelled, in `exit_rsp` and `vm_exit` the
processor may be lost, in `cr_access` an entry may fail, and in `entry_state` the run ends with
the guest.

### Fairness

`FairSpec` has weak fairness of each thread and of each processor's routine.
Both threads are ordinary kernel threads at passive level, which the scheduler
runs; the Dpc is inserted with `HighImportance` on its target, so it is
delivered at once, and nothing but interrupts, which end, can delay a DPC. The
exit models have no liveness property and no fairness.

### What the runs found

1. `Daat.c:119` waits for an event nobody sets. The worker stores the CSB's
   address through `Block` (`vmx.c:1021`), over the event's header. `sc start`
   never completes (`DriverEntryReturns`).
2. `vmx.c:131` assigns base and mask of an MTRR to variables of 32 bits on x86:
   one that matches memory above 4 GB is kept as a range of low memory
   (`RangesAsSetIntoHardware`). `RangesAreTheMtrrs` holds of every MTRR on x64
   and of the others on x86.
3. `VmxHandler.c:404` writes the saved stack pointer of the monitor when the
   operand is RSP (`GprReceivesDr`).
4. `VmxHandler.c:379` tests the CR4 of the launch (`AliasesFollowCr4`).
5. `vmx.c:321` looks up the memory type of every large page at address zero
   (`LargePageHasRangeType`). Unaffected: the ranges themselves (but see 2), and
   which frame a page is mapped to.
6. `InsAMD64.asm:798` calls C with R12 to R15 where the callee may spill its
   arguments (`NonvolatileKept`).
7. `VmxHandler.c:338` writes CR0, CR2, CR3 and CR4 from the frame when one of
   them is named (`OnlyNamedRegister`). The run's trace is one step: the first
   MOV to CR4 that exits also writes CR2, whose place in the frame the launch
   left zero. With TRUE control registers only setting VMXE gets there, so that
   ordinary guests do not; the written register is right and the next entry legal.

The implementation result of `vm_exit` is stated for operands other than RSP and
a guest that leaves CR4.DE alone, which is what 3 and 4 exclude; for MOV DR at
CPL 0; and for MSRs that exist and values that are taken. A guest that does
otherwise is in the model and not in the result.

## Proofs

Every invariant and every action property that a passing run checks is also
proved for all values of the constants, and so are the two refinements. Liveness
is what remains with TLC.

`VmxLaunchProofs` proves, for every `NumberProcessors` in 1..127 and both
builds, the nine invariants that `vmx_launch` checks, the refinement of
`BringUp`, and progress. The only assumptions are the three on the constants.

None of the invariants is inductive by itself. `IInv` adds three parts to the
types:

- `EntryInv`: where DriverEntry can be while the worker is alive, and that its
  event is never signalled;
- `LoopInv`: for each step of the worker, which processors are done and which
  untouched, and whose TSB the Dpc names. This is the hand-over: while the
  worker waits, either the Dpc is queued and its processor idle, or it is not
  queued and its processor is running, or that processor is done and the event
  set;
- `CpuInv(c)`: what processor `c` has achieved at each step of its routine.

A thread step leaves `CpuInv` alone (`CpuInvFrame`), and a step of processor
`c` leaves `CpuInv(d)` alone because it works on TSB `c` only, which
`LoopInv` gives. The refinement needs the invariant: that the processor the
Dpc is retired on is the first untouched one, and that the worker ends with
none or all of them done.

The safety half of completion is proved too. `NoLostWakeup`: while the worker
waits, somebody is on the way to wake it, for the loop clears the event before the
Dpc is queued and the routine sets it whatever becomes of the launch.
`EveryStepProgresses`: every step of any thread or routine lowers `Rank`, a
natural number that adds DriverEntry's remaining steps, 13 for each turn of the
loop still to come and the rest of the routine waited for. So no bring-up
takes more than 13 N + 8 steps (`FinitelyManySteps`). What TLC's liveness check adds is
that some step can always be taken until the end, which needs ENABLED.

`VmExitProofs` proves, for every set of operands without RSP, every set of
MSRs, missing ones, refused values, words and lengths and any answers of CPUID,
that the types hold and that each exit is the guest's instruction
(`Transparent`), under `Spec` and the conditions just named. The invariant is the types
and `frameCr4 = cr4`; the latter is what `SpecCr4` breaks. The proof has a lemma
per handler: the two numberings of the debug registers agree (`SameRegister`),
a general register other than RSP is reached in its own slot
(`OrdinaryRegister`), a fault leaves RIP (`DrFaults`), and an MSR is read where it
was written, whichever of the three cases it falls in (`MsrExits`).

`VmxAccessProofs` proves the five invariants of `vmx_access` for any fields and
values. The properties speak of calls that have returned; the invariant says
what holds half way: before the first instruction the field is as it was, between the two the
low half has been moved and the high half has not, and neither a
field nor what it is read into holds more than the field's width. For
`LaunchErrorIsReported` it follows a failing vmlaunch to its end: while the
number is to be read the VMCS is current and the field is vmlaunch's (`LaunchTail`).

`CrAccessProofs` proves the properties of `cr_access` for any further bits of CR0
and CR4 and any addresses. `EntryStaysLegal` needs a fact about what is not
refreshed (`FrameStaysLegal`): the frame keeps the masked bits of CR0 from the
launch. VMXE is not among the frame's bits, but an exiting MOV to CR4 brings it.
Where CR3 exits it does not: the first MOV to CR3 writes the CR4 of the
launch, and the next entry fails. Hence the condition on TRUE control registers,
which the earliest VMX processors lack.

`EntryStateProofs` proves what the control block is, for any machines and
processors that satisfy the assumptions below. The invariant (`CsbInv`) says at
each phase what has been computed, as a function of the machine alone: the fixed
words and, once prepared, the control words from them (`ControlsFollow`), the
ranges from the MTRRs and the map from the ranges (`EptFollows`), the bitmap
(`BitmapFollows`). That the words fit, that the walk is the identity (for any
`PerPage`), that no two of the 16384 MSRs share a bit (`BitIsOwn`) and that a
range is its MTRR (`RangeMatches`: on x64, and on x86 below 4 GB) are then
lemmas about the operators.

`MtrrProofs` holds the last of these and the arithmetic under it. An MTRR matches
an address if they agree on the bits of its mask; the code's range has a base and
a length instead, the length being the least bit of the mask. `ValueIsNumber` shows
that the fold which turns a set of bits into a number yields the one number
with exactly those bits, `FirstBit` that `FindFirstSetRightBit` finds the least,
`LengthOf` and `WordFits` that on either build base and length fit the word they are
kept in, and `Block` that the addresses agreeing with the base from bit k upwards are
the 2^k from it. The library's induction theorems cannot be used, since they take
an operator. `Inductive` does the induction by the least element of a set of numbers
(`WFMin`) instead; the powers of two come from the cardinality of a power set
(`PowerNext`), and every induction on bits halves the number (`HalfOf`).

`EntryFieldsProofs` proves `GuestContinues` and `EntryChecksPass`. `FieldsInv`
says which fields have been written at each phase and that they hold what
the code computes from `cpu` and the control block; its proof is that no later
write touches an earlier field (`SegmentKept`, `SystemKept`): the segments, the system
registers and the controls are apart. The checks of VM entry then compare fields
that different functions wrote: the selectors without their RPL (`HostSelectors`),
the words that turn EPT on with EPTP (`EptWords`), the build with the
address-space controls, on for one and off for the other (`AddressSpaceWord`).

The assumptions on the constants, which TLC evaluates in every run:

- of a machine (`MachinesAssumption`): what it requires it allows; what the older
  control registers require the TRUE ones allow; it requires no secondary control;
  EPT can be enabled where it is reported; one that runs a 64-bit
  kernel can stay in 64-bit mode across exits and entries, one that runs a 32-bit
  kernel need not; the size of a variable range is a power of two
  and its mask reaches the top; the pages of the region have different
  addresses;
- of exits: the extended control registers are no MSRs (`MsrsAssumption`), a
  processor with VMX has the MSRs for which the VMCS has fields
  (`MissingAssumption`), CPUID answers words (`CpuidAssumption`);
- of a processor (`CpusAssumption`): its code segment and task register name a
  descriptor; LDTR and TR name system descriptors, the other segments do
  not; every descriptor in use has access rights; selectors name the GDT;
- `HighFrame`, `PageShift` and the other sizes are natural numbers.

These are rules of the processor, or facts of a running kernel, not of the driver:
no code establishes them and no code tests them.

Model-checked only: `BringUpCompletes` and `DriverEntryReturns`, which are liveness
and out of the prover's reach, and the properties of the other violation runs,
which do not hold.

## Not modelled, and why

- RDTSC(P), exception, NMI, interrupt, monitor-trap and I/O exits: the
  controls that cause them are not asked for, the exception bitmap is zero, and
  no processor requires them. EPT violations and misconfigurations: the map gives
  all rights to every address below 512 GB.
- Exits by events that are no instructions (triple fault, INIT, task switch):
  the dispatcher advances RIP by whatever the length field holds, which has no
  defined value there.
- The device request handlers: they complete at once and keep no state.
- Debug output, the PatchGuard hook (its call is commented out), the instruction
  wrappers (their effect is in the handlers), the headers of the author's
  library, the scripts.

Simplifications: processors of one machine have equal VMX and MTRR
registers, as the code assumes by computing the control block once; selectors
name the GDT, as those of a kernel do; the access bits of the tables are all
set; 2^36 bytes of MTRR range and 512 entries are parameters. EPTP on x86 keeps
32 bits of the address: `EntryChecksPass` speaks of tables that these can name.
