------------------------------ MODULE MCCrAccess ------------------------------
(* One unmasked bit in CR0 and in CR4, two addresses.                        *)
EXTENDS CrAccess

CONSTANT OtherAddress

MCCr0Bits == {"PE", "NE", "PG", "TS"}
MCCr4Bits == {"VMXE", "PGE"}
MCAddresses == {ZeroAddress, OtherAddress}
=============================================================================
