----------------------------- MODULE MCVmxAccess -----------------------------
(* VmxAccess with one field of each kind of encoding.                       *)
EXTENDS VmxAccess

MCFields == {"VM_EXIT_INFO_REASON", "GUEST_DEBUGCTL", "GUEST_RIP"}

MCWidth == [VM_EXIT_INFO_REASON |-> "ENCODE_32",
            GUEST_DEBUGCTL |-> "ENCODE_64",
            GUEST_RIP |-> "ENCODE_NATURAL"]
=============================================================================
