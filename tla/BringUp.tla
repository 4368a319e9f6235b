------------------------------- MODULE BringUp -------------------------------
(***************************************************************************)
(* What the load-time bring-up promises, without saying how: the           *)
(* processors are taken one at a time, in ascending order; a processor     *)
(* that has been taken ends either as a guest of the monitor or native,    *)
(* outside VMX operation; the next one is not taken until the previous one *)
(* has settled; and the bring-up is either abandoned before the first      *)
(* processor is taken or carried to the last one.                          *)
(*                                                                         *)
(* VmxLaunch implements this specification.                                *)
(***************************************************************************)
EXTENDS Naturals

CONSTANT NumberProcessors       \* how many processors the system has

VARIABLES
    state,      \* what has become of each processor
    over        \* the bring-up has ended

vars == <<state, over>>

Processors == 0 .. NumberProcessors - 1

Settled == {"guest", "native"}

TypeOK ==
    /\ state \in [Processors -> {"untouched", "taken"} \cup Settled]
    /\ over \in BOOLEAN

Init ==
    /\ state = [c \in Processors |-> "untouched"]
    /\ over = FALSE

Take(c) ==
    /\ ~over
    /\ state[c] = "untouched"
    /\ \A d \in Processors : d < c => state[d] \in Settled
    /\ state' = [state EXCEPT ![c] = "taken"]
    /\ UNCHANGED over

Settle(c) ==
    /\ state[c] = "taken"
    /\ \E outcome \in Settled : state' = [state EXCEPT ![c] = outcome]
    /\ UNCHANGED over

End ==
    /\ ~over
    /\ \/ \A c \in Processors : state[c] = "untouched"
       \/ \A c \in Processors : state[c] \in Settled
    /\ over' = TRUE
    /\ UNCHANGED state

Next ==
    \/ \E c \in Processors : Take(c) \/ Settle(c)
    \/ End

Spec == Init /\ [][Next]_vars
=============================================================================
