------------------------------ MODULE MemoryMap ------------------------------
(***************************************************************************)
(* The memory-range database and the EPT identity map of vmx.c:            *)
(* __vmx_prepare_mtrr, __vmx_ajust_memory_type, __vmx_prepare_ept.         *)
(*                                                                         *)
(* The base and mask of an MTRR are sets of bit numbers, an address is a   *)
(* number of bytes, a frame is a number of pages.  Every table entry the   *)
(* code writes is readable, writable and executable, which is left out.    *)
(***************************************************************************)
EXTENDS Integers, FiniteSetsExt

CONSTANTS
    PageShift,          \* PAGE_SHIFT, 12
    LargeShift,         \* a large page has 2^21 bytes
    PerPage,            \* PER_PAGE, the entries of a table, 512
    MtrrMaxRangeShift,  \* 36
    WordShift           \* the width of "u" on x86, 32

ASSUME PerPageAssumption == PerPage \in Nat \ {0}
ASSUME ShiftAssumption ==
    /\ {PageShift, LargeShift, WordShift, MtrrMaxRangeShift} \subseteq Nat
    /\ PageShift < LargeShift /\ LargeShift < WordShift /\ WordShift < MtrrMaxRangeShift

MtrrTypes == {"UNCACHEABLE", "WRITE_THROUGH", "WRITE_BACK"}

-----------------------------------------------------------------------------
(* The range database                                                      *)

MtrrMask == PageShift .. MtrrMaxRangeShift - 1

Value(bits) == MapThenSumSet(LAMBDA b : 2 ^ b, bits)

(* The size of a range is a power of two. *)
PowerOfTwoSized(mtrr) ==
    /\ mtrr.base \subseteq MtrrMask
    /\ \E k \in PageShift .. MtrrMaxRangeShift : mtrr.mask = k .. MtrrMaxRangeShift - 1

(* Byte by byte, then a table of the lowest set bit of each byte. *)
FindFirstSetRightBit(set) ==
    LET byte == Min({b \div 8 : b \in set})
    IN  8 * byte + Min({b % 8 : b \in {c \in set : c \div 8 = byte}})

MaskToLength(mask) ==
    2 ^ (IF mask = {} THEN MtrrMaxRangeShift ELSE FindFirstSetRightBit(mask))

BaseUnmasked(base, mask) == base

(* Base &= Mask *)
MaskedBase(base, mask) == base \cap mask

NoRange == [Base |-> 0, Limit |-> 0, Type |-> "UNCACHEABLE"]

(* Base, Mask and Length are of type "u". *)
Word(n, x64) == IF x64 THEN n ELSE n % 2 ^ WordShift
WordBits(x64) == IF x64 THEN MtrrMask ELSE MtrrMask \cap 0 .. WordShift - 1

OneRange(mtrr, x64) ==
    LET mask == mtrr.mask \cap WordBits(x64)
        base == Value(MaskedBase(mtrr.base \cap WordBits(x64), mask))
        length == Word(MaskToLength(mask), x64)
    IN  IF mtrr.valid
        THEN [Base |-> base, Limit |-> Word(base + length - 1, x64), Type |-> mtrr.type]
        ELSE NoRange

Ranges(mtrrs, x64) == [i \in DOMAIN mtrrs |-> OneRange(mtrrs[i], x64)]

(* If h/w mtrr support is not enabled, or memory no MTRR matches is cached, *)
(* there is no database.                                                    *)
MtrrUsable(machine) ==
    /\ machine.mtrrEnabled
    /\ machine.mtrrs # << >>
    /\ machine.mtrrDefault = "UNCACHEABLE"

-----------------------------------------------------------------------------
(* The map                                                                 *)

LargePage == 2 ^ (LargeShift - PageShift)       \* _2MB, in pages

Entries == 0 .. PerPage - 1
LargePages == 0 .. PerPage * PerPage - 1

(* Csb->Region in pages: MsrBitmap, Pml4e, Pdpte, PER_PAGE pages of Pde. *)
MsrBitmapPage == 0
Pml4ePage == 1
PdptePage == 2
FirstPdePage == 3
RegionPages == 0 .. FirstPdePage + PerPage - 1

(* Ranges are tried in order, in bytes, and the last that matches wins. *)
AdjustMemoryType(ranges, address, type) ==
    LET matching == {i \in DOMAIN ranges :
                        /\ address >= ranges[i].Base
                        /\ address + LargePage - 1 <= ranges[i].Limit}
    IN  IF matching = {} THEN type ELSE ranges[Max(matching)].Type

IndexUnscaled(index) == FirstPdePage

(* Csb->Region.Pde + Index * PER_PAGE, a pointer to 64-bit entries. *)
PdePage(index) == FirstPdePage + index

(* Pdpte is still zero when the types are looked up with it. *)
PdpteFrameNumber(index) == 0

(* phys is what MmGetPhysicalAddress says of the pages of the region. *)
PrepareEpt(ranges, phys) ==
    [Pde |-> [k \in LargePages |->
                [PageFrameNumber |-> k * LargePage,
                 Type |-> AdjustMemoryType(ranges, PdpteFrameNumber(k), "WRITE_BACK")]],
     Pdpte |-> [i \in Entries |-> phys[PdePage(i)]],
     Pml4e |-> phys[PdptePage]]

-----------------------------------------------------------------------------
(* What the processor makes of them                                        *)

(* An address is in the range of an MTRR if its bits under the mask are the *)
(* base's.                                                                  *)
Matches(mtrr, address) ==
    /\ mtrr.valid
    /\ \A b \in mtrr.mask : (address \div 2 ^ b) % 2 = IF b \in mtrr.base THEN 1 ELSE 0

PageAt(phys, frame) == CHOOSE p \in RegionPages : phys[p] = frame

TableEntry(ept, page, e) ==
    IF page = Pml4ePage THEN ept.Pml4e
    ELSE IF page = PdptePage THEN ept.Pdpte[e]
    ELSE ept.Pde[(page - FirstPdePage) * PerPage + e]

(* The walk from the root for the large page that is entry j of table i. *)
Walk(ept, phys, root, i, j) ==
    LET pdpt == PageAt(phys, TableEntry(ept, PageAt(phys, root), 0))
        pd == PageAt(phys, TableEntry(ept, pdpt, i))
    IN  TableEntry(ept, pd, j)
=============================================================================
