------------------------------- MODULE VmxFlags -------------------------------
(***************************************************************************)
(* RFLAGS after a VMX instruction and the VMX_RESULT the assembly stubs    *)
(* make of it (vmx.h, InsAMD64.asm, InsI386.asm).                          *)
(***************************************************************************)
EXTENDS Naturals

Flags == [ZF : 0 .. 1, CF : 0 .. 1]

VMsucceed == [ZF |-> 0, CF |-> 0]
VMfailInvalid == [ZF |-> 0, CF |-> 1]
VMfailValid == [ZF |-> 1, CF |-> 0]

(* The enumeration.  Its comments have CF=1 for 1 and ZF=1 for 2, the stubs *)
(* return the other of the two (VmxResult).                                 *)
VMX_SUCCEED == 0
VMX_FAIL_INVALID == 1
VMX_FAIL_VALID == 2

CarryDropped(flags) == flags.ZF

Unmasked(flags) == 256 + flags.ZF + flags.CF + flags.CF

(* setz al; setb cl; adc al, cl; and rax, 3 -- setcc leaves CF as the VMX    *)
(* instruction set it, so adc adds it once more.                            *)
VmxResult(flags) == (flags.ZF + flags.CF + flags.CF) % 4
=============================================================================
