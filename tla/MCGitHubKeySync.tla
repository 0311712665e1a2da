-------------------------- MODULE MCGitHubKeySync ---------------------------
(***************************************************************************)
(* GitHubKeySync on a few users and keys.  In a behaviour there is either  *)
(* one key, which syncs that overlap and an administrator change, and no   *)
(* name of the managed form is given by hand; or syncs and changes by hand *)
(* come one after the other, and few keys have names of the managed form   *)
(* that no sync would give them.                                           *)
(***************************************************************************)
EXTENDS GitHubKeySync, TLC

CONSTANTS OnlyKey, MaxMisnamed

VARIABLE overlap    \* in this behaviour syncs overlap, on one key

IsAlone(s) == \A other \in Syncs \ {s} : pc[other] = "idle"

AllIdle == \A s \in Syncs : pc[s] = "idle"

OneKey ==
    /\ \A entry \in keys : entry.data = OnlyKey
    /\ \A s \in Syncs : UNION {want[s].target[u] : u \in Users} \subseteq {OnlyKey}

Misnamed ==
    {entry \in ManagedKeys :
        entry.name # managedKeyName(managedKeyOwner(entry), entry.data)}

MCInit == Init /\ overlap \in BOOLEAN

Overlapping ==
    /\ Next /\ OneKey'
    /\ AddByHand => \E entry \in keys' \ keys : ~IsManaged(entry)

OneAfterTheOther ==
    /\ \/ \E s \in Syncs : IsAlone(s) /\ SyncStep(s)
       \/ AllIdle /\ (AddByHand \/ RemoveByHand)
    /\ Cardinality(Misnamed)' <= MaxMisnamed

MCNext ==
    /\ IF overlap THEN Overlapping ELSE OneAfterTheOther
    /\ UNCHANGED overlap

MCSpec == MCInit /\ [][MCNext]_<<vars, overlap>>

Symmetry == Permutations(Syncs)
=============================================================================
