---------------------------- MODULE MCUserAdmin -----------------------------
(***************************************************************************)
(* UserAdmin on two usernames and two requests at a time, from a file that *)
(* has two enabled administrators, and without restarts: what these runs   *)
(* find is due to the requests alone.                                      *)
(***************************************************************************)
EXTENDS UserAdmin, TLC

Administrator(name, password) ==
    [name |-> name, role |-> "admin", disabled |-> FALSE, password |-> password]

MCInit ==
    /\ \E first, second \in Names, password \in Passwords, backup \in Settings :
          /\ first # second
          /\ running = [users  |-> <<Administrator(first, password),
                                     Administrator(second, password)>>,
                        backup |-> backup]
    /\ saved = running
    /\ pc = [r \in Requests |-> "idle"]
    /\ command = [r \in Requests |-> NoCommand]
    /\ found = [r \in Requests |-> NoUser]
    /\ copy = [r \in Requests |-> NoCopy]

MCNext == \E r \in Requests : RequestStep(r)

MCSpec == MCInit /\ [][MCNext]_vars

Symmetry == Permutations(Names) \cup Permutations(Passwords)
                \cup Permutations(Requests)
=============================================================================
