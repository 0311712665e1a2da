--------------------------- MODULE GitHubKeySync ----------------------------
(***************************************************************************)
(* The authorized keys of the dokku user.  Administrators add and remove   *)
(* keys by hand, under any name; a sync adds the keys that users have on   *)
(* GitHub, under names of a form it recognises later (managed names), and  *)
(* removes the keys of such names that are not wanted any more, whoever    *)
(* added them.  A sync reads the authorized keys once and goes by its own  *)
(* copy from then on; every command it runs is a step, and other syncs and *)
(* administrators act in between.                                          *)
(*                                                                         *)
(* GitHub and the configuration are inputs: each sync finds any users      *)
(* enabled and with a GitHub name, and any answer for each of them.        *)
(***************************************************************************)
EXTENDS Naturals, FiniteSets, Sequences, SequencesExt

CONSTANTS
    Users,        \* usernames, as numbers in their order
    Data,         \* key material
    ManualNames,  \* names that do not have the managed form
    Syncs,        \* syncs that may run at the same time
    NoEntry       \* no authorized key

(***************************************************************************)
(* A name of the managed form has an owner and a suffix.  A sync gives it  *)
(* the hash of the key material for a suffix, for which the material       *)
(* stands; an administrator may give it any.  An owner who is no user is   *)
(* one who is never configured.                                            *)
(***************************************************************************)
managedKeyName(user, data) == <<user, data>>

ManagedNames == Users \X Data

Entry == [name : ManagedNames \cup ManualNames, data : Data]

ASSUME UsersAssumption == Users \subseteq Nat

ASSUME DataAssumption == IsFiniteSet(Data)

ASSUME NamesAssumption ==
    /\ ManualNames \cap ManagedNames = {}
    /\ NoEntry \notin Entry

(***************************************************************************)
(* What a sync has to bring about: configured are the enabled users with a *)
(* GitHub name, failed those of them GitHub gave no answer for, target the *)
(* keys of the others.                                                     *)
(***************************************************************************)
Want == [configured : SUBSET Users, failed : SUBSET Users,
         target : [Users -> SUBSET Data]]

NoWant == [configured |-> {}, failed |-> {}, target |-> [u \in Users |-> {}]]

SyncPCs == {"idle", "target", "leftover"}

VARIABLES
    keys,       \* authorized_keys, a set of entries
    pc,         \* [Syncs -> SyncPCs]
    want,       \* [Syncs -> Want]
    byData,     \* existingByKeyData: [Syncs -> [Data -> Entry or NoEntry]]
    managed,    \* managedKeysByUser: [Syncs -> SUBSET Entry]
    turn,       \* [Syncs -> SUBSET Users], the targets still to be synced
    todo,       \* [Syncs -> Seq(Data)], the canonical keys of the target at hand
    tried,      \* [Syncs -> SUBSET Entry], the keys this loop is through with
    report,     \* [Syncs -> {"ok", "failed"}], Success so far
    picture     \* [Syncs -> {"current", "settled", "stale"}], for the properties

locals == <<pc, want, byData, managed, turn, todo, tried, report>>

vars == <<keys, locals, picture>>

-----------------------------------------------------------------------------
IsManaged(entry) == entry.name \in ManagedNames

managedKeyOwner(entry) == entry.name[1]

ManagedKeys == {entry \in keys : IsManaged(entry)}

Named(name) == {entry \in keys : entry.name = name}

Synced(w) == w.configured \ w.failed

Answers == {w \in Want : /\ w.failed \subseteq w.configured
                        /\ \A u \in Users \ Synced(w) : w.target[u] = {}}

Desired(w) == UNION {w.target[u] : u \in Synced(w)}

Wanting(w, data) == {u \in Synced(w) : data \in w.target[u]}

Mutant_OwnerIsAnyWanting(w, data) == Wanting(w, data)

(***************************************************************************)
(* A key several users want goes to the first of them.                     *)
(***************************************************************************)
CanonicalOwners(w, data) ==
    {u \in Wanting(w, data) : \A v \in Wanting(w, data) : u <= v}

Canonical(w, user) == {data \in w.target[user] : user \in CanonicalOwners(w, data)}

(***************************************************************************)
(* The keys a sync removes: of the target at hand those that are not       *)
(* canonical, and in the end, of users not configured any more, those      *)
(* nobody wants.                                                           *)
(***************************************************************************)
Current(s, user) == user \in turn[s] /\ \A other \in turn[s] : user <= other

ToDrop(s) ==
    {entry \in managed[s] \ tried[s] :
        IF pc[s] = "target"
        THEN \E user \in Users : /\ Current(s, user)
                                 /\ managedKeyOwner(entry) = user
                                 /\ entry.data \notin Canonical(want[s], user)
        ELSE /\ managedKeyOwner(entry) \notin want[s].configured
             /\ entry.data \notin Desired(want[s])}

(***************************************************************************)
(* Every wanted key is there, under its canonical owner unless somebody    *)
(* else had it before and may keep it; and every managed key is wanted by  *)
(* its owner, the canonical one.                                           *)
(***************************************************************************)
MayKeep(w, entry) ==
    managedKeyOwner(entry) \in w.failed \cup CanonicalOwners(w, entry.data)

IsThere(w, data) ==
    \E entry \in keys : entry.data = data /\ (IsManaged(entry) => MayKeep(w, entry))

IsInSync(w) ==
    /\ \A data \in Desired(w) : IsThere(w, data)
    /\ \A entry \in keys : IsManaged(entry) => MayKeep(w, entry)

-----------------------------------------------------------------------------
(***************************************************************************)
(* dokku's commands.  ssh-keys:add refuses a name that is taken, it may    *)
(* refuse or take key material twice, and any command may fail; to remove  *)
(* a name that is not there may be an error or not.                        *)
(***************************************************************************)
DokkuAdd(entry) == Named(entry.name) = {} /\ keys' = keys \cup {entry}

DokkuRemove(name) == keys' = keys \ Named(name)

(***************************************************************************)
(* For the properties: what a sync has read is settled when it found the   *)
(* keys as they should be, and stale once somebody else changed them.  It  *)
(* is stale from the start if its copy leaves out a key that has to go, as *)
(* it does when a key was added by hand under the name of a user who has   *)
(* the same material already: that one is left to the next sync.           *)
(***************************************************************************)
Picture(w, copy) ==
    IF IsInSync(w) THEN "settled"
    ELSE IF \A entry \in ManagedKeys \ copy : MayKeep(w, entry) THEN "current"
    ELSE "stale"

Disturbs(others) ==
    picture' = [s \in Syncs |-> IF s \in others /\ keys' # keys THEN "stale"
                                                                ELSE picture[s]]

-----------------------------------------------------------------------------
(***************************************************************************)
(* The authorized keys by their material: of two with the same, the last.  *)
(***************************************************************************)
Index == {index \in [Data -> keys \cup {NoEntry}] :
             \A data \in Data :
                IF \E entry \in keys : entry.data = data
                THEN index[data] # NoEntry /\ index[data].data = data
                ELSE index[data] = NoEntry}

(***************************************************************************)
(* The managed keys by owner and material: of several, the last again.     *)
(***************************************************************************)
IsSame(entry, other) ==
    managedKeyOwner(entry) = managedKeyOwner(other) /\ entry.data = other.data

Copies(index) ==
    {copy \in SUBSET ManagedKeys :
        /\ \A entry \in ManagedKeys :
              Cardinality({other \in copy : IsSame(entry, other)}) = 1
        /\ \A data \in Data :
              index[data] # NoEntry /\ IsManaged(index[data]) => index[data] \in copy}

(***************************************************************************)
(* The next target, in the order of the usernames (its canonical keys come *)
(* in the order of a map, any), or after the last one the leftover keys.   *)
(***************************************************************************)
Enter(s, targets, w) ==
    /\ pc' = [pc EXCEPT ![s] = IF targets = {} THEN "leftover" ELSE "target"]
    /\ turn' = [turn EXCEPT ![s] = targets]
    /\ tried' = [tried EXCEPT ![s] = {}]
    /\ \E order \in SetToSeqs(UNION {Canonical(w, user) : user \in
                         {u \in targets : \A other \in targets : u <= other}}) :
          todo' = [todo EXCEPT ![s] = order]

(***************************************************************************)
(* handleSshKeySyncGithub: the authorized keys are read (a read that fails *)
(* ends the sync) and GitHub is asked about every configured user.         *)
(* Nothing is changed before the first target, so what others do between   *)
(* the answers they can do after the last one.                             *)
(***************************************************************************)
Begin(s) ==
    /\ pc[s] = "idle"
    /\ UNCHANGED keys
    /\ \E index \in Index : \E copy \in Copies(index), w \in Answers :
          /\ byData' = [byData EXCEPT ![s] = index]
          /\ managed' = [managed EXCEPT ![s] = copy]
          /\ want' = [want EXCEPT ![s] = w]
          /\ report' = [report EXCEPT ![s] = IF w.failed = {} THEN "ok" ELSE "failed"]
          /\ picture' = [picture EXCEPT ![s] = Picture(w, copy)]
          /\ Enter(s, Synced(w), w)

Claiming(s) == pc[s] = "target" /\ todo[s] # <<>>

Existing(s) == byData[s][Head(todo[s])]

(***************************************************************************)
(* The managed key of another user is taken over, unless GitHub gave no    *)
(* answer about that user.                                                 *)
(***************************************************************************)
Mutant_TakeFromFailed(s) ==
    /\ Existing(s) # NoEntry
    /\ IsManaged(Existing(s))
    /\ ~Current(s, managedKeyOwner(Existing(s)))

Mutant_TakeByHandToo(s) ==
    /\ Existing(s) # NoEntry
    /\ IsManaged(Existing(s)) => ~Current(s, managedKeyOwner(Existing(s)))

IsTakenOver(s) ==
    /\ Existing(s) # NoEntry
    /\ IsManaged(Existing(s))
    /\ ~Current(s, managedKeyOwner(Existing(s)))
    /\ managedKeyOwner(Existing(s)) \notin want[s].failed

(***************************************************************************)
(* The key is there already: its own, one added by hand, or one of a user  *)
(* GitHub gave no answer for.                                              *)
(***************************************************************************)
Skip(s) == todo' = [todo EXCEPT ![s] = Tail(@)]

Keep(s) ==
    /\ Claiming(s)
    /\ Existing(s) # NoEntry
    /\ ~IsTakenOver(s)
    /\ Skip(s)
    /\ UNCHANGED <<keys, pc, want, byData, managed, turn, tried, report, picture>>

TakeOver(s) ==
    /\ Claiming(s)
    /\ IsTakenOver(s)
    /\ DokkuRemove(Existing(s).name)
    /\ managed' = [managed EXCEPT ![s] = @ \ {Existing(s)}]
    /\ byData' = [byData EXCEPT ![s][Head(todo[s])] = NoEntry]
    /\ Disturbs(Syncs \ {s})
    /\ UNCHANGED <<pc, want, turn, todo, tried, report>>

(***************************************************************************)
(* A key that is not there is added; the same for one just taken over.     *)
(***************************************************************************)
AddKey(s) ==
    /\ Claiming(s)
    /\ Existing(s) = NoEntry
    /\ \E user \in Users :
          LET data == Head(todo[s])
              entry == [name |-> managedKeyName(user, data), data |-> data] IN
          /\ Current(s, user)
          /\ DokkuAdd(entry)
          /\ byData' = [byData EXCEPT ![s][data] = entry]
          /\ managed' = [managed EXCEPT ![s] =
                {other \in @ : ~IsSame(entry, other)} \cup {entry}]
    /\ Skip(s)
    /\ Disturbs(Syncs \ {s})
    /\ UNCHANGED <<pc, want, turn, tried, report>>

(***************************************************************************)
(* Either command fails: recorded, and on with the next key.               *)
(***************************************************************************)
Mutant_ErrorIgnored(s) ==
    /\ Claiming(s)
    /\ Existing(s) = NoEntry \/ IsTakenOver(s)
    /\ Skip(s)
    /\ UNCHANGED <<keys, pc, want, byData, managed, turn, tried, report, picture>>

ClaimFails(s) ==
    /\ Claiming(s)
    /\ Existing(s) = NoEntry \/ IsTakenOver(s)
    /\ Skip(s)
    /\ report' = [report EXCEPT ![s] = "failed"]
    /\ UNCHANGED <<keys, pc, want, byData, managed, turn, tried, picture>>

Dropping(s) == pc[s] # "idle" /\ todo[s] = <<>>

Drop(s) ==
    /\ Dropping(s)
    /\ \E entry \in ToDrop(s) :
          /\ DokkuRemove(entry.name)
          /\ tried' = [tried EXCEPT ![s] = @ \cup {entry}]
          /\ IF pc[s] = "target"
             THEN /\ managed' = [managed EXCEPT ![s] = @ \ {entry}]
                  /\ byData' = [byData EXCEPT ![s][entry.data] = NoEntry]
             ELSE UNCHANGED <<managed, byData>>
    /\ Disturbs(Syncs \ {s})
    /\ UNCHANGED <<pc, want, turn, todo, report>>

DropFails(s) ==
    /\ Dropping(s)
    /\ \E entry \in ToDrop(s) : tried' = [tried EXCEPT ![s] = @ \cup {entry}]
    /\ report' = [report EXCEPT ![s] = "failed"]
    /\ UNCHANGED <<keys, pc, want, byData, managed, turn, todo, picture>>

TargetDone(s) ==
    /\ Dropping(s) /\ pc[s] = "target" /\ ToDrop(s) = {}
    /\ Enter(s, {u \in turn[s] : ~Current(s, u)}, want[s])
    /\ UNCHANGED <<keys, want, byData, managed, report, picture>>

(***************************************************************************)
(* The answer, with Success as the report says.                            *)
(***************************************************************************)
Done(s) == Dropping(s) /\ pc[s] = "leftover" /\ ToDrop(s) = {}

Finish(s) ==
    /\ Done(s)
    /\ pc' = [pc EXCEPT ![s] = "idle"]
    /\ want' = [want EXCEPT ![s] = NoWant]
    /\ managed' = [managed EXCEPT ![s] = {}]
    /\ byData' = [byData EXCEPT ![s] = [data \in Data |-> NoEntry]]
    /\ tried' = [tried EXCEPT ![s] = {}]
    /\ report' = [report EXCEPT ![s] = "ok"]
    /\ picture' = [picture EXCEPT ![s] = "stale"]
    /\ UNCHANGED <<keys, turn, todo>>

-----------------------------------------------------------------------------
(***************************************************************************)
(* handleSshKeyAdd looks whether the name is free and then runs the        *)
(* command, which refuses a name that was taken in between; so the command *)
(* alone is the step.  handleSshKeyDelete removes any key by its name.     *)
(***************************************************************************)
AddByHand ==
    /\ \E entry \in Entry : DokkuAdd(entry)
    /\ Disturbs(Syncs)
    /\ UNCHANGED locals

RemoveByHand ==
    /\ \E entry \in keys : DokkuRemove(entry.name)
    /\ Disturbs(Syncs)
    /\ UNCHANGED locals

Init ==
    /\ keys = {}
    /\ pc = [s \in Syncs |-> "idle"]
    /\ want = [s \in Syncs |-> NoWant]
    /\ byData = [s \in Syncs |-> [data \in Data |-> NoEntry]]
    /\ managed = [s \in Syncs |-> {}]
    /\ turn = [s \in Syncs |-> {}]
    /\ todo = [s \in Syncs |-> <<>>]
    /\ tried = [s \in Syncs |-> {}]
    /\ report = [s \in Syncs |-> "ok"]
    /\ picture = [s \in Syncs |-> "stale"]

SyncStep(s) ==
    \/ Begin(s) \/ Keep(s) \/ TakeOver(s) \/ AddKey(s) \/ ClaimFails(s)
    \/ Drop(s) \/ DropFails(s) \/ TargetDone(s) \/ Finish(s)

Next ==
    \/ \E s \in Syncs : SyncStep(s)
    \/ AddByHand \/ RemoveByHand

Spec == Init /\ [][Next]_vars

-----------------------------------------------------------------------------
TypeOK ==
    /\ keys \subseteq Entry
    /\ pc \in [Syncs -> SyncPCs]
    /\ want \in [Syncs -> Want]
    /\ byData \in [Syncs -> [Data -> Entry \cup {NoEntry}]]
    /\ managed \in [Syncs -> SUBSET Entry]
    /\ turn \in [Syncs -> SUBSET Users]
    /\ todo \in [Syncs -> Seq(Data)]
    /\ tried \in [Syncs -> SUBSET Entry]
    /\ report \in [Syncs -> {"ok", "failed"}]
    /\ picture \in [Syncs -> {"current", "settled", "stale"}]

(***************************************************************************)
(* A sync that goes by its copy of the keys never removes one whose name   *)
(* does not have the managed form, whatever others do meanwhile.  So a key *)
(* that was added by hand stays, unless it was given such a name.          *)
(***************************************************************************)
OnlyManagedNamesGo ==
    [][\A entry \in keys \ keys', s \in Syncs : ~IsManaged(entry) => ~SyncStep(s)]_vars

(***************************************************************************)
(* GitHub's silence about a user costs nobody a key: a sync removes no key *)
(* of a user whose keys it could not fetch.                                *)
(***************************************************************************)
FailedFetchIsHarmless ==
    [][\A entry \in keys \ keys', s \in Syncs :
          IsManaged(entry) /\ managedKeyOwner(entry) \in want[s].failed => ~SyncStep(s)]_vars

(***************************************************************************)
(* A key of a user who is not configured is left alone beside another one  *)
(* of the same material that somebody wants.                               *)
(***************************************************************************)
IsTolerated(w, entry) ==
    /\ managedKeyOwner(entry) \notin w.configured
    /\ entry.data \in Desired(w)
    /\ \E twin \in keys \ {entry} : twin.data = entry.data

(***************************************************************************)
(* A sync that is about to report success, and that nobody else's change   *)
(* came between, has done what it was to do: a key that was taken from one *)
(* user and could not be given to the other is reported.                   *)
(***************************************************************************)
SuccessMeansInSync ==
    \A s \in Syncs :
       Done(s) /\ report[s] = "ok" /\ picture[s] # "stale"
          => /\ \A data \in Desired(want[s]) : IsThere(want[s], data)
             /\ \A entry \in keys :
                   IsManaged(entry) => MayKeep(want[s], entry) \/ IsTolerated(want[s], entry)

(***************************************************************************)
(* A sync that finds everything as it should be changes nothing, unless    *)
(* somebody else does: a second one after a success runs no command.       *)
(***************************************************************************)
NoChurn ==
    [][keys' # keys => \A s \in Syncs : picture[s] = "settled" => ~SyncStep(s)]_vars
=============================================================================
