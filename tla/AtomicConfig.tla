---------------------------- MODULE AtomicConfig ----------------------------
(***************************************************************************)
(* What saving promises of the part of the configuration that is saved as  *)
(* a copy, its users.  There is one saved state of it, which a start of    *)
(* the server reads, and one running state, which requests see.  A save    *)
(* replaces the first in one step, and then the second follows; a start of *)
(* the server reads the saved one back.  Nothing else happens to either:   *)
(* at no moment is there no saved state or half of one, and what runs has  *)
(* been saved.                                                             *)
(***************************************************************************)
CONSTANT Configs    \* the states that may be saved

VARIABLES
    saved,      \* what a start of the server reads
    running     \* what the requests see

vars == <<saved, running>>

InStep == saved = running

Init == saved \in Configs /\ running = saved

(***************************************************************************)
(* A save starts from a running configuration that has been saved.         *)
(***************************************************************************)
Save ==
    /\ InStep
    /\ saved' \in Configs
    /\ UNCHANGED running

Follow ==
    /\ running' = saved
    /\ UNCHANGED saved

Next == Save \/ Follow

Spec == Init /\ [][Next]_vars
=============================================================================
