------------------------ MODULE GitHubKeySyncProofs -------------------------
(***************************************************************************)
(* A sync removes no key whose name does not have the managed form and     *)
(* none of a user GitHub gave no answer for; one that reports success has done what it was to    *)
(* do, and one that finds it done changes nothing: for any number of       *)
(* users, keys and syncs that overlap.                                     *)
(***************************************************************************)
EXTENDS GitHubKeySync, FiniteSetTheorems, SequenceTheorems, TLAPS

(***************************************************************************)
(* What a sync goes by: its copy holds managed keys, and while it is at a  *)
(* target, that is a user GitHub has answered for.                         *)
(***************************************************************************)
CopyIsManaged(s) == \A entry \in managed[s] : IsManaged(entry)

TargetsAnswered(s) ==
    /\ want[s].failed \subseteq want[s].configured
    /\ turn[s] \subseteq Synced(want[s])

CopyInv ==
    /\ want \in [Syncs -> Want]
    /\ pc \in [Syncs -> SyncPCs]
    /\ managed \in [Syncs -> SUBSET Entry]
    /\ turn \in [Syncs -> SUBSET Users]
    /\ \A s \in Syncs : /\ CopyIsManaged(s)
                        /\ TargetsAnswered(s)
                        /\ pc[s] # "target" => turn[s] = {}

LEMMA NamesManaged ==
    ASSUME NEW user \in Users, NEW data \in Data
    PROVE  managedKeyName(user, data) \in ManagedNames
  BY DEF managedKeyName, ManagedNames

LEMMA InitCopyInv == Init => CopyInv
<1>. SUFFICES ASSUME Init PROVE CopyInv
  OBVIOUS
<1>1. NoWant \in Want
  BY DEF NoWant, Want
<1>. QED
  BY <1>1 DEF Init, CopyInv, CopyIsManaged, TargetsAnswered, NoWant, SyncPCs, Synced

(***************************************************************************)
(* A step of one sync leaves what the others go by alone.                  *)
(***************************************************************************)
LEMMA BeginKeepsCopyInv ==
    ASSUME CopyInv, keys \subseteq Entry, NEW s \in Syncs, Begin(s)
    PROVE  CopyInv'
<1>1. PICK w \in Answers, copy \in SUBSET ManagedKeys :
         /\ want' = [want EXCEPT ![s] = w]
         /\ managed' = [managed EXCEPT ![s] = copy]
         /\ Enter(s, Synced(w), w)
  BY DEF Begin, Copies
<1>. w \in Want /\ w.failed \subseteq w.configured
  BY DEF Answers
<1>2. /\ \A entry \in copy : entry \in Entry /\ IsManaged(entry)
      /\ turn' = [turn EXCEPT ![s] = Synced(w)]
      /\ pc' = [pc EXCEPT ![s] = IF Synced(w) = {} THEN "leftover" ELSE "target"]
  BY <1>1 DEF Enter, ManagedKeys
<1>3. Synced(w) \subseteq Users
  BY DEF Synced, Want
<1>4. /\ want' \in [Syncs -> Want] /\ pc' \in [Syncs -> SyncPCs]
      /\ managed' \in [Syncs -> SUBSET Entry] /\ turn' \in [Syncs -> SUBSET Users]
  BY <1>1, <1>2, <1>3 DEF CopyInv, SyncPCs
<1>5. ASSUME NEW q \in Syncs
      PROVE  /\ CopyIsManaged(q)'
             /\ TargetsAnswered(q)'
             /\ pc'[q] # "target" => turn'[q] = {}
  <2>1. CASE q = s
    BY <1>1, <1>2, <2>1 DEF CopyInv, CopyIsManaged, TargetsAnswered, IsManaged
  <2>2. CASE q # s
    BY <1>1, <1>2, <2>2 DEF CopyInv, CopyIsManaged, TargetsAnswered, IsManaged
  <2>. QED
    BY <2>1, <2>2
<1>. QED
  BY <1>4, <1>5 DEF CopyInv

LEMMA TargetDoneKeepsCopyInv ==
    ASSUME CopyInv, NEW s \in Syncs, TargetDone(s)
    PROVE  CopyInv'
<1>. DEFINE rest == {u \in turn[s] : ~Current(s, u)}
<1>1. /\ turn' = [turn EXCEPT ![s] = rest]
      /\ pc' = [pc EXCEPT ![s] = IF rest = {} THEN "leftover" ELSE "target"]
      /\ UNCHANGED <<want, managed>>
  BY DEF TargetDone, Enter
<1>2. rest \subseteq turn[s]
  OBVIOUS
<1>3. ASSUME NEW q \in Syncs
      PROVE  /\ CopyIsManaged(q)'
             /\ TargetsAnswered(q)'
             /\ pc'[q] # "target" => turn'[q] = {}
  BY <1>1, <1>2 DEF CopyInv, CopyIsManaged, TargetsAnswered, IsManaged
<1>4. turn' \in [Syncs -> SUBSET Users] /\ pc' \in [Syncs -> SyncPCs]
  BY <1>1, <1>2 DEF CopyInv, SyncPCs
<1>. QED
  BY <1>1, <1>3, <1>4 DEF CopyInv

LEMMA AddKeyKeepsCopyInv ==
    ASSUME CopyInv, byData \in [Syncs -> [Data -> Entry \cup {NoEntry}]],
           todo \in [Syncs -> Seq(Data)], NEW s \in Syncs, AddKey(s)
    PROVE  CopyInv'
<1>1. Head(todo[s]) \in Data
  BY DEF AddKey, Claiming
<1>. DEFINE entry(user) == [name |-> managedKeyName(user, Head(todo[s])),
                            data |-> Head(todo[s])]
<1>2. PICK user \in Users :
         managed' = [managed EXCEPT ![s] =
                       {other \in @ : ~IsSame(entry(user), other)} \cup {entry(user)}]
  BY DEF AddKey
<1>3. managedKeyName(user, Head(todo[s])) \in ManagedNames
  BY <1>1, NamesManaged
<1>4. managed' \in [Syncs -> SUBSET Entry]
  BY <1>1, <1>2, <1>3 DEF CopyInv, Entry
<1>5. \A q \in Syncs : CopyIsManaged(q)'
  BY <1>2, <1>3 DEF CopyInv, CopyIsManaged, IsManaged
<1>6. UNCHANGED <<pc, want, turn>>
  BY DEF AddKey
<1>. QED
  BY <1>4, <1>5, <1>6 DEF CopyInv, TargetsAnswered

LEMMA DropKeepsCopyInv ==
    ASSUME CopyInv, NEW s \in Syncs, Drop(s)
    PROVE  CopyInv'
<1>1. PICK entry \in ToDrop(s) :
         \/ managed' = [managed EXCEPT ![s] = @ \ {entry}]
         \/ managed' = managed
  BY DEF Drop
<1>2. UNCHANGED <<pc, want, turn>>
  BY DEF Drop
<1>3. managed' \in [Syncs -> SUBSET Entry] /\ \A q \in Syncs : managed'[q] \subseteq managed[q]
  BY <1>1 DEF CopyInv
<1>. QED
  BY <1>2, <1>3 DEF CopyInv, CopyIsManaged, TargetsAnswered, IsManaged

LEMMA TakeOverKeepsCopyInv ==
    ASSUME CopyInv, NEW s \in Syncs, TakeOver(s)
    PROVE  CopyInv'
<1>1. managed' = [managed EXCEPT ![s] = @ \ {Existing(s)}]
  BY DEF TakeOver
<1>2. UNCHANGED <<pc, want, turn>>
  BY DEF TakeOver
<1>3. managed' \in [Syncs -> SUBSET Entry] /\ \A q \in Syncs : managed'[q] \subseteq managed[q]
  BY <1>1 DEF CopyInv
<1>. QED
  BY <1>2, <1>3 DEF CopyInv, CopyIsManaged, TargetsAnswered, IsManaged

LEMMA FinishKeepsCopyInv ==
    ASSUME CopyInv, NEW s \in Syncs, Finish(s)
    PROVE  CopyInv'
<1>1. /\ pc[s] = "leftover"
      /\ pc' = [pc EXCEPT ![s] = "idle"]
      /\ want' = [want EXCEPT ![s] = NoWant]
      /\ managed' = [managed EXCEPT ![s] = {}]
      /\ turn' = turn
  BY DEF Finish, Done
<1>2. NoWant \in Want
  BY DEF NoWant, Want
<1>3. ASSUME NEW q \in Syncs
      PROVE  /\ CopyIsManaged(q)'
             /\ TargetsAnswered(q)'
             /\ pc'[q] # "target" => turn'[q] = {}
  <2>1. CASE q = s
    <3>1. turn'[q] = {} /\ want'[q] = NoWant /\ managed'[q] = {}
      BY <1>1, <2>1 DEF CopyInv
    <3>. QED
      BY <3>1 DEF CopyIsManaged, TargetsAnswered, NoWant, Synced
  <2>2. CASE q # s
    BY <1>1, <2>2 DEF CopyInv, CopyIsManaged, TargetsAnswered, IsManaged
  <2>. QED
    BY <2>1, <2>2
<1>4. /\ want' \in [Syncs -> Want] /\ pc' \in [Syncs -> SyncPCs]
      /\ managed' \in [Syncs -> SUBSET Entry] /\ turn' \in [Syncs -> SUBSET Users]
  BY <1>1, <1>2 DEF CopyInv, SyncPCs
<1>. QED
  BY <1>3, <1>4 DEF CopyInv

(***************************************************************************)
(* Types.                                                                  *)
(***************************************************************************)
LEMMA InitTypes == Init => TypeOK
<1>. SUFFICES ASSUME Init PROVE TypeOK
  OBVIOUS
<1>1. NoWant \in Want
  BY DEF NoWant, Want
<1>. QED
  BY <1>1 DEF Init, TypeOK, SyncPCs

LEMMA OrdersAreSequences ==
    ASSUME NEW S \in SUBSET Data, NEW order \in SetToSeqs(S)
    PROVE  order \in Seq(Data)
<1>1. Cardinality(S) \in Nat
  BY DataAssumption, FS_Subset, FS_CardinalityType
<1>2. order \in [1 .. Cardinality(S) -> S]
  BY DEF SetToSeqs
<1>3. order \in [1 .. Cardinality(S) -> Data]
  BY <1>2
<1>. QED
  BY <1>1, <1>3, SeqDef

LEMMA EnterTypes ==
    ASSUME TypeOK, NEW s \in Syncs, NEW targets \in SUBSET Users, NEW w \in Want,
           Enter(s, targets, w)
    PROVE  /\ pc' \in [Syncs -> SyncPCs]
           /\ turn' \in [Syncs -> SUBSET Users]
           /\ tried' \in [Syncs -> SUBSET Entry]
           /\ todo' \in [Syncs -> Seq(Data)]
<1>. DEFINE next == {u \in targets : \A other \in targets : u <= other}
            wanted == UNION {Canonical(w, user) : user \in next}
<1>1. wanted \subseteq Data
  BY DEF Canonical, Want
<1>2. PICK order \in SetToSeqs(wanted) : todo' = [todo EXCEPT ![s] = order]
  BY DEF Enter
<1>3. order \in Seq(Data)
  BY <1>1, <1>2, OrdersAreSequences
<1>. QED
  BY <1>2, <1>3 DEF Enter, TypeOK, SyncPCs

LEMMA BeginTypes == ASSUME TypeOK, NEW s \in Syncs, Begin(s) PROVE TypeOK'
<1>1. PICK w \in Answers, copy \in SUBSET ManagedKeys :
         /\ want' = [want EXCEPT ![s] = w]
         /\ managed' = [managed EXCEPT ![s] = copy]
         /\ report' = [report EXCEPT ![s] = IF w.failed = {} THEN "ok" ELSE "failed"]
         /\ picture' = [picture EXCEPT ![s] = Picture(w, copy)]
         /\ Enter(s, Synced(w), w)
  BY DEF Begin, Copies
<1>. w \in Want
  BY DEF Answers
<1>2. Synced(w) \in SUBSET Users
  BY DEF Synced, Want
<1>3. /\ pc' \in [Syncs -> SyncPCs] /\ turn' \in [Syncs -> SUBSET Users]
      /\ tried' \in [Syncs -> SUBSET Entry] /\ todo' \in [Syncs -> Seq(Data)]
  BY <1>1, <1>2, EnterTypes
<1>4. byData' \in [Syncs -> [Data -> Entry \cup {NoEntry}]]
  <2>1. PICK index \in Index : byData' = [byData EXCEPT ![s] = index]
    BY DEF Begin
  <2>2. index \in [Data -> Entry \cup {NoEntry}]
    BY DEF Index, TypeOK
  <2>. QED
    BY <2>1, <2>2 DEF TypeOK
<1>5. managed' \in [Syncs -> SUBSET Entry] /\ keys' \subseteq Entry
  BY <1>1 DEF Begin, TypeOK, ManagedKeys
<1>6. /\ want' \in [Syncs -> Want] /\ report' \in [Syncs -> {"ok", "failed"}]
      /\ picture' \in [Syncs -> {"current", "settled", "stale"}]
  BY <1>1 DEF TypeOK, Picture
<1>. QED
  BY <1>3, <1>4, <1>5, <1>6 DEF TypeOK

LEMMA DisturbsTypes ==
    ASSUME TypeOK, NEW others \in SUBSET Syncs, Disturbs(others)
    PROVE  picture' \in [Syncs -> {"current", "settled", "stale"}]
  BY DEF Disturbs, TypeOK

LEMMA ClaimingTypes ==
    ASSUME TypeOK, NEW s \in Syncs, Claiming(s)
    PROVE  /\ Head(todo[s]) \in Data
           /\ Tail(todo[s]) \in Seq(Data)
  BY DEF TypeOK, Claiming

LEMMA ClaimTypes ==
    ASSUME TypeOK, NEW s \in Syncs,
           Keep(s) \/ TakeOver(s) \/ AddKey(s) \/ ClaimFails(s)
    PROVE  TypeOK'
<1>1. Claiming(s)
  BY DEF Keep, TakeOver, AddKey, ClaimFails
<1>2. Head(todo[s]) \in Data /\ Tail(todo[s]) \in Seq(Data)
  BY <1>1, ClaimingTypes
<1>3. CASE Keep(s)
  BY <1>2, <1>3 DEF Keep, Skip, TypeOK
<1>4. CASE ClaimFails(s)
  BY <1>2, <1>4 DEF ClaimFails, Skip, TypeOK
<1>5. CASE TakeOver(s)
  <2>1. picture' \in [Syncs -> {"current", "settled", "stale"}]
    BY <1>5, DisturbsTypes DEF TakeOver
  <2>2. keys' \subseteq Entry
    BY <1>5 DEF TakeOver, DokkuRemove, TypeOK
  <2>3. byData' \in [Syncs -> [Data -> Entry \cup {NoEntry}]]
    BY <1>2, <1>5 DEF TakeOver, TypeOK
  <2>4. managed' \in [Syncs -> SUBSET Entry]
    BY <1>5 DEF TakeOver, TypeOK
  <2>. QED
    BY <1>5, <2>1, <2>2, <2>3, <2>4 DEF TakeOver, TypeOK
<1>6. CASE AddKey(s)
  <2>1. picture' \in [Syncs -> {"current", "settled", "stale"}]
    BY <1>6, DisturbsTypes DEF AddKey
  <2>2. PICK user \in Users :
          LET entry == [name |-> managedKeyName(user, Head(todo[s])),
                        data |-> Head(todo[s])] IN
          /\ keys' = keys \cup {entry}
          /\ byData' = [byData EXCEPT ![s][Head(todo[s])] = entry]
          /\ managed' = [managed EXCEPT ![s] =
                {other \in @ : ~IsSame(entry, other)} \cup {entry}]
    BY <1>6 DEF AddKey, DokkuAdd
  <2>3. [name |-> managedKeyName(user, Head(todo[s])), data |-> Head(todo[s])] \in Entry
    BY <1>2, NamesManaged DEF Entry
  <2>4. keys' \subseteq Entry /\ managed' \in [Syncs -> SUBSET Entry]
    BY <2>2, <2>3 DEF TypeOK
  <2>5. byData' \in [Syncs -> [Data -> Entry \cup {NoEntry}]]
    BY <1>2, <2>2, <2>3 DEF TypeOK
  <2>. QED
    BY <1>2, <1>6, <2>1, <2>4, <2>5 DEF AddKey, Skip, TypeOK
<1>. QED
  BY <1>3, <1>4, <1>5, <1>6

LEMMA ToDropTypes ==
    ASSUME TypeOK, NEW s \in Syncs
    PROVE  ToDrop(s) \subseteq Entry
  BY DEF TypeOK, ToDrop

LEMMA DropTypes ==
    ASSUME TypeOK, NEW s \in Syncs,
           Drop(s) \/ DropFails(s) \/ TargetDone(s) \/ Finish(s)
    PROVE  TypeOK'
<1>1. CASE Drop(s)
  <2>1. PICK entry \in ToDrop(s) :
          /\ DokkuRemove(entry.name)
          /\ tried' = [tried EXCEPT ![s] = @ \cup {entry}]
          /\ \/ /\ managed' = [managed EXCEPT ![s] = @ \ {entry}]
                /\ byData' = [byData EXCEPT ![s][entry.data] = NoEntry]
             \/ UNCHANGED <<managed, byData>>
    BY <1>1 DEF Drop
  <2>2. entry \in Entry /\ entry.data \in Data
    BY <2>1, ToDropTypes DEF Entry
  <2>3. picture' \in [Syncs -> {"current", "settled", "stale"}]
    BY <1>1, DisturbsTypes DEF Drop
  <2>4. keys' \subseteq Entry /\ tried' \in [Syncs -> SUBSET Entry]
    BY <2>1, <2>2 DEF DokkuRemove, TypeOK
  <2>5. managed' \in [Syncs -> SUBSET Entry]
    <3>1. managed' = [managed EXCEPT ![s] = @ \ {entry}] \/ managed' = managed
      BY <2>1
    <3>2. managed \in [Syncs -> SUBSET Entry] /\ managed[s] \ {entry} \subseteq Entry
      BY DEF TypeOK
    <3>. QED
      BY <3>1, <3>2
  <2>6. [byData[s] EXCEPT ![entry.data] = NoEntry] \in [Data -> Entry \cup {NoEntry}]
    BY DEF TypeOK
  <2>7. \/ byData' = byData
        \/ byData' = [byData EXCEPT ![s] = [byData[s] EXCEPT ![entry.data] = NoEntry]]
    BY <2>1
  <2>8. byData' \in [Syncs -> [Data -> Entry \cup {NoEntry}]]
    BY <2>6, <2>7 DEF TypeOK
  <2>. QED
    BY <1>1, <2>3, <2>4, <2>5, <2>8 DEF Drop, TypeOK
<1>2. CASE DropFails(s)
  BY <1>2, ToDropTypes DEF DropFails, TypeOK
<1>3. CASE TargetDone(s)
  <2>1. want[s] \in Want /\ {u \in turn[s] : ~Current(s, u)} \in SUBSET Users
    BY DEF TypeOK
  <2>2. Enter(s, {u \in turn[s] : ~Current(s, u)}, want[s])
    BY <1>3 DEF TargetDone
  <2>3. /\ pc' \in [Syncs -> SyncPCs] /\ turn' \in [Syncs -> SUBSET Users]
        /\ tried' \in [Syncs -> SUBSET Entry] /\ todo' \in [Syncs -> Seq(Data)]
    BY <2>1, <2>2, EnterTypes
  <2>. QED
    BY <1>3, <2>3 DEF TargetDone, TypeOK
<1>4. CASE Finish(s)
  <2>1. NoWant \in Want
    BY DEF NoWant, Want
  <2>. QED
    BY <1>4, <2>1 DEF Finish, TypeOK, SyncPCs
<1>. QED
  BY <1>1, <1>2, <1>3, <1>4

LEMMA ByHandTypes ==
    ASSUME TypeOK, AddByHand \/ RemoveByHand
    PROVE  TypeOK'
<1>1. picture' \in [Syncs -> {"current", "settled", "stale"}]
  BY DisturbsTypes DEF AddByHand, RemoveByHand
<1>2. keys' \subseteq Entry
  BY DEF AddByHand, RemoveByHand, DokkuAdd, DokkuRemove, TypeOK
<1>. QED
  BY <1>1, <1>2 DEF AddByHand, RemoveByHand, locals, TypeOK

-----------------------------------------------------------------------------
SyncInv == TypeOK /\ CopyInv

LEMMA StepSyncInv == SyncInv /\ [Next]_vars => SyncInv'
<1>. SUFFICES ASSUME SyncInv, [Next]_vars PROVE SyncInv'
  OBVIOUS
<1>. TypeOK /\ CopyInv
  BY DEF SyncInv
<1>1. ASSUME NEW s \in Syncs, SyncStep(s) PROVE SyncInv'
  <2>1. CASE Begin(s)
    BY <2>1, BeginTypes, BeginKeepsCopyInv DEF SyncInv, TypeOK
  <2>2. CASE Keep(s)
    <3>1. UNCHANGED <<pc, want, managed, turn>>
      BY <2>2 DEF Keep
    <3>. QED
      BY <2>2, <3>1, ClaimTypes
         DEF SyncInv, CopyInv, CopyIsManaged, TargetsAnswered, IsManaged, Synced
  <2>3. CASE TakeOver(s)
    BY <2>3, ClaimTypes, TakeOverKeepsCopyInv DEF SyncInv
  <2>4. CASE AddKey(s)
    BY <2>4, ClaimTypes, AddKeyKeepsCopyInv DEF SyncInv, TypeOK
  <2>5. CASE ClaimFails(s)
    <3>1. UNCHANGED <<pc, want, managed, turn>>
      BY <2>5 DEF ClaimFails
    <3>. QED
      BY <2>5, <3>1, ClaimTypes
         DEF SyncInv, CopyInv, CopyIsManaged, TargetsAnswered, IsManaged, Synced
  <2>6. CASE Drop(s)
    BY <2>6, DropTypes, DropKeepsCopyInv DEF SyncInv
  <2>7. CASE DropFails(s)
    <3>1. UNCHANGED <<pc, want, managed, turn>>
      BY <2>7 DEF DropFails
    <3>. QED
      BY <2>7, <3>1, DropTypes
         DEF SyncInv, CopyInv, CopyIsManaged, TargetsAnswered, IsManaged, Synced
  <2>8. CASE TargetDone(s)
    BY <2>8, DropTypes, TargetDoneKeepsCopyInv DEF SyncInv
  <2>9. CASE Finish(s)
    BY <2>9, DropTypes, FinishKeepsCopyInv DEF SyncInv
  <2>. QED
    BY <1>1, <2>1, <2>2, <2>3, <2>4, <2>5, <2>6, <2>7, <2>8, <2>9 DEF SyncStep
<1>2. CASE AddByHand \/ RemoveByHand
  <2>1. UNCHANGED <<pc, want, managed, turn>>
    BY <1>2 DEF AddByHand, RemoveByHand, locals
  <2>. QED
    BY <1>2, <2>1, ByHandTypes
       DEF SyncInv, CopyInv, CopyIsManaged, TargetsAnswered, IsManaged, Synced
<1>3. CASE UNCHANGED vars
  BY <1>3 DEF SyncInv, TypeOK, CopyInv, CopyIsManaged, TargetsAnswered, IsManaged, Synced,
              vars, locals
<1>. QED
  BY <1>1, <1>2, <1>3 DEF Next

(***************************************************************************)
(* What a step of a sync can take away: the keys of one managed name, the  *)
(* owner of which is not among those GitHub gave no answer for.            *)
(***************************************************************************)
LEMMA RemovedKeys ==
    ASSUME SyncInv, NEW s \in Syncs, SyncStep(s), NEW entry \in keys, entry \notin keys'
    PROVE  IsManaged(entry) /\ managedKeyOwner(entry) \notin want[s].failed
<1>. TypeOK /\ CopyInv
  BY DEF SyncInv
<1>1. CASE TakeOver(s)
  <2>1. entry.name = Existing(s).name
    BY <1>1 DEF TakeOver, DokkuRemove, Named
  <2>. QED
    BY <1>1, <2>1 DEF TakeOver, IsTakenOver, IsManaged, managedKeyOwner
<1>2. CASE Drop(s)
  <2>1. PICK gone \in ToDrop(s) : DokkuRemove(gone.name)
    BY <1>2 DEF Drop
  <2>2. entry.name = gone.name
    BY <2>1 DEF DokkuRemove, Named
  <2>3. IsManaged(gone)
    BY <2>1 DEF ToDrop, CopyInv, CopyIsManaged
  <2>4. managedKeyOwner(gone) \notin want[s].failed
    <3>1. CASE pc[s] = "target"
      <4>1. managedKeyOwner(gone) \in turn[s]
        BY <2>1, <3>1 DEF ToDrop, Current
      <4>. QED
        BY <4>1 DEF CopyInv, TargetsAnswered, Synced
    <3>2. CASE pc[s] # "target"
      BY <2>1, <3>2 DEF ToDrop, CopyInv, TargetsAnswered
    <3>. QED
      BY <3>1, <3>2
  <2>. QED
    BY <2>2, <2>3, <2>4 DEF IsManaged, managedKeyOwner
<1>3. CASE ~TakeOver(s) /\ ~Drop(s)
  BY <1>3 DEF SyncStep, Begin, Keep, AddKey, DokkuAdd, ClaimFails, DropFails, TargetDone, Finish
<1>. QED
  BY <1>1, <1>2, <1>3

LEMMA SyncInvAlways == Spec => []SyncInv
<1>1. Init => SyncInv
  BY InitTypes, InitCopyInv DEF SyncInv
<1>. QED
  BY <1>1, StepSyncInv, PTL DEF Spec

(***************************************************************************)
(* A key under a name that does not have the managed form is never removed *)
(* by a sync (handleSshKeySyncGithub, managedKeyOwner).                    *)
(***************************************************************************)
THEOREM OtherNamesStay == Spec => OnlyManagedNamesGo
<1>1. SyncInv /\ [Next]_vars =>
        [\A entry \in keys \ keys', s \in Syncs : ~IsManaged(entry) => ~SyncStep(s)]_vars
  BY RemovedKeys
<1>. QED
  BY <1>1, SyncInvAlways, PTL DEF Spec, OnlyManagedNamesGo

(***************************************************************************)
(* A sync removes no key of a user GitHub gave it no answer for            *)
(* (handleSshKeySyncGithub).                                               *)
(***************************************************************************)
THEOREM SilenceIsHarmless == Spec => FailedFetchIsHarmless
<1>1. SyncInv /\ [Next]_vars =>
        [\A entry \in keys \ keys', s \in Syncs :
            IsManaged(entry) /\ managedKeyOwner(entry) \in want[s].failed
               => ~SyncStep(s)]_vars
  BY RemovedKeys
<1>. QED
  BY <1>1, SyncInvAlways, PTL DEF Spec, FailedFetchIsHarmless

-----------------------------------------------------------------------------
(***************************************************************************)
(* What a sync may rely on as long as nobody else changes the keys.  Names *)
(* of keys differ, so that a command removes one key; the keys in the      *)
(* queue are canonical ones of the target at hand.                         *)
(***************************************************************************)
KeyNamesDiffer == \A a, b \in keys : a.name = b.name => a = b

Pending(s) == {todo[s][i] : i \in 1 .. Len(todo[s])}

Firsts(S) == {u \in S : \A v \in S : u <= v}

CanonicalOf(w, targets) == UNION {Canonical(w, u) : u \in Firsts(targets)}

QueueIsCanonical(s) == Pending(s) \subseteq CanonicalOf(want[s], turn[s])

(***************************************************************************)
(* As long as no command of its own has failed, its copy is what is there, *)
(* except for the last keys it has dropped, and what the copy leaves out   *)
(* may stay; a wanted key is there or its turn will come; and no target    *)
(* that is done has a key too many.                                        *)
(***************************************************************************)
CopyIsTrue(s) ==
    /\ managed[s] \ tried[s] \subseteq ManagedKeys
    /\ \A entry \in ManagedKeys :
          entry \in managed[s] \ tried[s] \/ MayKeep(want[s], entry)
    /\ todo[s] # <<>> => tried[s] = {}
    /\ pc[s] = "target" =>
          /\ managed[s] \cap tried[s] = {}
          /\ \A data \in Data : byData[s][data] # NoEntry
                => byData[s][data] \in keys /\ byData[s][data].data = data

TurnWillCome(s, u, data) == u \in turn[s] /\ (Current(s, u) => data \in Pending(s))

WantedIsThere(s) ==
    \A u \in Synced(want[s]) : \A data \in Canonical(want[s], u) :
        IsThere(want[s], data) \/ TurnWillCome(s, u, data)

NoneTooMany(s) ==
    \A u \in Synced(want[s]) \ turn[s], entry \in ManagedKeys :
        managedKeyOwner(entry) = u => entry.data \in Canonical(want[s], u)

(***************************************************************************)
(* And if it found the keys as they should be, it goes by that.            *)
(***************************************************************************)
Settled(s) ==
    /\ IsInSync(want[s])
    /\ managed[s] \subseteq ManagedKeys
    /\ byData[s] \in Index

Undisturbed(s) ==
    picture[s] # "stale" =>
        /\ pc[s] # "idle"
        /\ report[s] = "ok" => CopyIsTrue(s) /\ WantedIsThere(s) /\ NoneTooMany(s)
        /\ picture[s] = "settled" => Settled(s)

PictureInv ==
    /\ SyncInv
    /\ KeyNamesDiffer
    /\ \A s \in Syncs : QueueIsCanonical(s) /\ Undisturbed(s)

-----------------------------------------------------------------------------
(***************************************************************************)
(* The first of the users, of which there is one.                          *)
(***************************************************************************)
LEMMA FirstsAreOne ==
    ASSUME NEW S \in SUBSET Users, NEW u \in Firsts(S), NEW v \in Firsts(S)
    PROVE  u = v
  BY UsersAssumption DEF Firsts

LEMMA Least ==
    ASSUME NEW T \in SUBSET Nat, T # {}
    PROVE  \E n \in T : \A m \in T : n <= m
<1>1. \A m, n \in Nat : m < n => <<m, n>> \in OpToRel(<, Nat)
  BY Zenon DEF OpToRel
<1>2. PICK R : /\ IsWellFoundedOn(R, Nat)
               /\ \A m, n \in Nat : m < n => <<m, n>> \in R
  BY <1>1, NatLessThanWellFounded, Zenon
<1>3. PICK n \in T : \A m \in T : ~(<<m, n>> \in R)
  <2>1. T \subseteq Nat /\ IsWellFoundedOn(R, Nat)
    BY <1>2, Zenon
  <2>. QED
    BY <2>1, WFMin, Zenon
<1>4. \A m \in T : ~(m < n)
  BY <1>2, <1>3
<1>. QED
  BY <1>4

LEMMA SomeFirst ==
    ASSUME NEW S \in SUBSET Users, S # {}
    PROVE  Firsts(S) # {}
  BY UsersAssumption, Least DEF Firsts

LEMMA CurrentIsFirst ==
    ASSUME NEW s \in Syncs, NEW u
    PROVE  Current(s, u) <=> u \in Firsts(turn[s])
  BY DEF Current, Firsts

LEMMA CanonicalIsFirst ==
    ASSUME NEW w \in Want, NEW data
    PROVE  /\ CanonicalOwners(w, data) = Firsts(Wanting(w, data))
           /\ Wanting(w, data) \in SUBSET Users
           /\ CanonicalOwners(w, data) \subseteq Synced(w)
           /\ CanonicalOwners(w, data) \subseteq w.configured
           /\ \A u \in CanonicalOwners(w, data) : data \in Canonical(w, u)
  BY DEF CanonicalOwners, Firsts, Wanting, Synced, Want, Canonical

LEMMA CanonicalIsOne ==
    ASSUME NEW w \in Want, NEW data,
           NEW u \in CanonicalOwners(w, data), NEW v \in CanonicalOwners(w, data)
    PROVE  u = v
  BY CanonicalIsFirst, FirstsAreOne

(***************************************************************************)
(* The queue of a target has the canonical keys of it, each once.          *)
(***************************************************************************)
LEMMA OrderHasAll ==
    ASSUME NEW S \in SUBSET Data, NEW order \in SetToSeqs(S)
    PROVE  {order[i] : i \in 1 .. Len(order)} = S
<1>. DEFINE n == Cardinality(S)
<1>1. n \in Nat /\ IsFiniteSet(S)
  BY DataAssumption, FS_Subset, FS_CardinalityType
<1>2. order \in [1 .. n -> S] /\ \A i, j \in 1 .. n : i # j => order[i] # order[j]
  BY DEF SetToSeqs
<1>3. Len(order) = n
  BY <1>1, <1>2
<1>4. IsFiniteSet(1 .. n) /\ Cardinality(1 .. n) = n
  BY <1>1, FS_Interval
<1>5. order \in Injection(1 .. n, S)
  BY <1>2 DEF Injection, IsInjective
<1>6. order \in Surjection(1 .. n, S)
  BY <1>1, <1>4, <1>5, FS_Injection
<1>. QED
  BY <1>2, <1>3, <1>6 DEF Surjection

LEMMA EnterQueue ==
    ASSUME TypeOK, NEW s \in Syncs, NEW targets \in SUBSET Users, NEW w \in Want,
           Enter(s, targets, w)
    PROVE  /\ Pending(s)' = CanonicalOf(w, targets)
           /\ turn'[s] = targets
           /\ tried'[s] = {}
           /\ pc'[s] = IF targets = {} THEN "leftover" ELSE "target"
           /\ \A q \in Syncs \ {s} : /\ pc'[q] = pc[q] /\ turn'[q] = turn[q]
                                     /\ tried'[q] = tried[q] /\ todo'[q] = todo[q]
<1>1. CanonicalOf(w, targets) \subseteq Data
  <2>1. \A u \in Users : w.target[u] \subseteq Data
    BY DEF Want
  <2>. QED
    BY <2>1 DEF CanonicalOf, Canonical, Firsts
<1>2. PICK order \in SetToSeqs(CanonicalOf(w, targets)) :
         todo' = [todo EXCEPT ![s] = order]
  BY DEF Enter, CanonicalOf, Firsts
<1>3. {order[i] : i \in 1 .. Len(order)} = CanonicalOf(w, targets)
  BY <1>1, <1>2, OrderHasAll
<1>4. todo'[s] = order
  BY <1>2 DEF TypeOK
<1>. QED
  BY <1>2, <1>3, <1>4 DEF Pending, Enter, TypeOK

LEMMA QueueShrinks ==
    ASSUME TypeOK, NEW s \in Syncs, Claiming(s), Skip(s)
    PROVE  /\ Head(todo[s]) \in Pending(s)
           /\ Pending(s)' \subseteq Pending(s)
           /\ Pending(s) \subseteq Pending(s)' \cup {Head(todo[s])}
           /\ \A q \in Syncs \ {s} : todo'[q] = todo[q]
<1>. DEFINE queue == todo[s]
<1>1. queue \in Seq(Data) /\ queue # <<>> /\ todo'[s] = Tail(queue)
  BY DEF TypeOK, Claiming, Skip
<1>2. /\ Head(queue) = queue[1] /\ Len(queue) \in Nat /\ Len(queue) >= 1
      /\ Len(Tail(queue)) = Len(queue) - 1
      /\ \A i \in 1 .. Len(queue) - 1 : Tail(queue)[i] = queue[i + 1]
  BY <1>1
<1>3. \A q \in Syncs \ {s} : todo'[q] = todo[q]
  BY DEF TypeOK, Skip
<1>4. \A i \in 1 .. Len(queue) : i = 1 \/ queue[i] = Tail(queue)[i - 1]
  BY <1>2
<1>. HIDE DEF queue
<1>5. /\ {queue[i] : i \in 1 .. Len(queue)}
           \subseteq {Tail(queue)[i] : i \in 1 .. Len(Tail(queue))} \cup {Head(queue)}
      /\ {Tail(queue)[i] : i \in 1 .. Len(Tail(queue))}
           \subseteq {queue[i] : i \in 1 .. Len(queue)}
      /\ Head(queue) \in {queue[i] : i \in 1 .. Len(queue)}
  BY <1>2, <1>4
<1>. QED
  BY <1>1, <1>3, <1>5 DEF Pending, queue

(***************************************************************************)
(* What a sync goes by changes with its own steps only, and what it relies *)
(* on survives the steps of others: they leave the keys alone, or its      *)
(* picture is stale.                                                       *)
(***************************************************************************)
SameCopy(s) ==
    /\ pc'[s] = pc[s] /\ want'[s] = want[s] /\ byData'[s] = byData[s]
    /\ managed'[s] = managed[s] /\ turn'[s] = turn[s] /\ todo'[s] = todo[s]
    /\ tried'[s] = tried[s] /\ report'[s] = report[s]

LEMMA SameQueue ==
    ASSUME NEW s \in Syncs, QueueIsCanonical(s),
           todo'[s] = todo[s], want'[s] = want[s], turn'[s] = turn[s]
    PROVE  QueueIsCanonical(s)'
  BY DEF QueueIsCanonical, Pending, CanonicalOf

LEMMA SameRelies ==
    ASSUME NEW s \in Syncs, Undisturbed(s), SameCopy(s),
           picture'[s] # "stale" => keys' = keys /\ picture'[s] = picture[s]
    PROVE  Undisturbed(s)'
<1>. SUFFICES ASSUME picture'[s] # "stale" PROVE Undisturbed(s)'
  BY DEF Undisturbed
<1>1. keys' = keys /\ picture'[s] = picture[s]
  OBVIOUS
<1>. USE <1>1 DEF SameCopy
<1>2. ManagedKeys' = ManagedKeys /\ Pending(s)' = Pending(s) /\ Index' = Index
  BY DEF ManagedKeys, Pending, Index
<1>3. CopyIsTrue(s) => CopyIsTrue(s)'
  BY <1>2 DEF CopyIsTrue
<1>4. \A data : IsThere(want[s], data) => IsThere(want[s], data)'
  BY DEF IsThere
<1>5. WantedIsThere(s) => WantedIsThere(s)'
  BY <1>2, <1>4 DEF WantedIsThere, TurnWillCome, Current, IsThere
<1>6. NoneTooMany(s) => NoneTooMany(s)'
  BY <1>2 DEF NoneTooMany
<1>7. Settled(s) => Settled(s)'
  BY <1>2 DEF Settled, IsInSync, IsThere
<1>. QED
  BY <1>3, <1>5, <1>6, <1>7 DEF Undisturbed

LEMMA EnterOthers ==
    ASSUME TypeOK, NEW s \in Syncs, NEW q \in Syncs \ {s}, NEW targets, NEW w,
           Enter(s, targets, w)
    PROVE  /\ pc'[q] = pc[q] /\ turn'[q] = turn[q]
           /\ tried'[q] = tried[q] /\ todo'[q] = todo[q]
  BY DEF Enter, TypeOK

LEMMA OthersCopies ==
    ASSUME SyncInv, NEW s \in Syncs, SyncStep(s), NEW q \in Syncs \ {s}
    PROVE  /\ SameCopy(q)
           /\ picture'[q] # "stale" => keys' = keys /\ picture'[q] = picture[q]
<1>. TypeOK
  BY DEF SyncInv
<1>. USE DEF SameCopy
<1>1. CASE Begin(s)
  BY <1>1, EnterOthers DEF Begin, TypeOK
<1>2. CASE TargetDone(s)
  BY <1>2, EnterOthers DEF TargetDone, TypeOK
<1>3. CASE Keep(s) \/ ClaimFails(s) \/ DropFails(s)
  BY <1>3 DEF Keep, ClaimFails, DropFails, Skip, TypeOK
<1>4. CASE TakeOver(s)
  BY <1>4 DEF TakeOver, Disturbs, TypeOK
<1>5. CASE AddKey(s)
  BY <1>5 DEF AddKey, Skip, Disturbs, TypeOK
<1>6. CASE Drop(s)
  <2>1. \/ managed' = managed
        \/ \E entry : managed' = [managed EXCEPT ![s] = @ \ {entry}]
    BY <1>6 DEF Drop
  <2>2. \/ byData' = byData
        \/ \E data : byData' = [byData EXCEPT ![s][data] = NoEntry]
    BY <1>6 DEF Drop
  <2>3. \E entry : tried' = [tried EXCEPT ![s] = @ \cup {entry}]
    BY <1>6 DEF Drop
  <2>4. /\ managed'[q] = managed[q] /\ byData'[q] = byData[q] /\ tried'[q] = tried[q]
    BY <2>1, <2>2, <2>3 DEF TypeOK
  <2>. QED
    BY <1>6, <2>4 DEF Drop, Disturbs, TypeOK
<1>7. CASE Finish(s)
  BY <1>7 DEF Finish, TypeOK
<1>. QED
  BY <1>1, <1>2, <1>3, <1>4, <1>5, <1>6, <1>7 DEF SyncStep

LEMMA ByHandCopies ==
    ASSUME SyncInv, AddByHand \/ RemoveByHand, NEW q \in Syncs
    PROVE  /\ SameCopy(q)
           /\ picture'[q] # "stale" => keys' = keys /\ picture'[q] = picture[q]
  BY DEF SyncInv, TypeOK, AddByHand, RemoveByHand, locals, SameCopy, Disturbs

-----------------------------------------------------------------------------
(***************************************************************************)
(* The key a sync is at: a canonical one of the target at hand.            *)
(***************************************************************************)
LEMMA AtCanonical ==
    ASSUME SyncInv, NEW s \in Syncs, QueueIsCanonical(s), NEW data \in Pending(s)
    PROVE  \E u \in turn[s] : /\ Current(s, u)
                              /\ \A v : Current(s, v) => v = u
                              /\ u \in Synced(want[s])
                              /\ data \in Canonical(want[s], u)
                              /\ CanonicalOwners(want[s], data) = {u}
                              /\ data \in Desired(want[s])
<1>1. want[s] \in Want /\ turn[s] \subseteq Users /\ turn[s] \subseteq Synced(want[s])
  BY DEF SyncInv, TypeOK, CopyInv, TargetsAnswered
<1>2. PICK u \in Firsts(turn[s]) : data \in Canonical(want[s], u)
  BY DEF QueueIsCanonical, CanonicalOf
<1>3. u \in turn[s] /\ Current(s, u) /\ \A v : Current(s, v) => v = u
  BY <1>1, <1>2, CurrentIsFirst, FirstsAreOne DEF Firsts
<1>4. u \in CanonicalOwners(want[s], data) /\ data \in want[s].target[u]
  BY <1>2 DEF Canonical
<1>5. CanonicalOwners(want[s], data) = {u}
  BY <1>1, <1>4, CanonicalIsOne
<1>. QED
  BY <1>1, <1>2, <1>3, <1>4, <1>5 DEF Desired

(***************************************************************************)
(* A key that may be kept is neither taken over nor dropped.               *)
(***************************************************************************)
LEMMA KeptIsNotDropped ==
    ASSUME SyncInv, NEW s \in Syncs, pc[s] # "idle",
           NEW entry \in Entry, MayKeep(want[s], entry)
    PROVE  entry \notin ToDrop(s)
<1>1. /\ want[s] \in Want /\ turn[s] \subseteq Synced(want[s])
      /\ want[s].failed \subseteq want[s].configured
  BY DEF SyncInv, TypeOK, CopyInv, TargetsAnswered
<1>2. /\ CanonicalOwners(want[s], entry.data) \subseteq want[s].configured
      /\ \A u \in CanonicalOwners(want[s], entry.data) :
            entry.data \in Canonical(want[s], u)
  BY <1>1, CanonicalIsFirst
<1>3. CASE pc[s] = "target"
  <2>1. \A u \in turn[s] : u \notin want[s].failed
    BY <1>1 DEF Synced
  <2>. QED
    BY <1>2, <1>3, <2>1 DEF ToDrop, Current, MayKeep
<1>4. CASE pc[s] # "target"
  BY <1>1, <1>2, <1>4 DEF ToDrop, MayKeep
<1>. QED
  BY <1>3, <1>4

LEMMA KeptIsNotTaken ==
    ASSUME SyncInv, NEW s \in Syncs, QueueIsCanonical(s), Claiming(s),
           IsManaged(Existing(s)) => MayKeep(want[s], Existing(s)),
           Existing(s) # NoEntry => Existing(s).data = Head(todo[s])
    PROVE  ~IsTakenOver(s)
<1>1. Head(todo[s]) \in Pending(s)
  BY ClaimingTypes DEF SyncInv, TypeOK, Claiming, Pending
<1>2. PICK u \in turn[s] : Current(s, u) /\ CanonicalOwners(want[s], Head(todo[s])) = {u}
  BY <1>1, AtCanonical
<1>. QED
  BY <1>2 DEF IsTakenOver, MayKeep

(***************************************************************************)
(* A sync that found the keys as they should be has nothing to do.         *)
(***************************************************************************)
LEMMA SettledIsQuiet ==
    ASSUME SyncInv, NEW s \in Syncs, QueueIsCanonical(s), pc[s] # "idle", Settled(s)
    PROVE  /\ ToDrop(s) = {}
           /\ Claiming(s) => Existing(s) # NoEntry /\ ~IsTakenOver(s)
<1>1. ToDrop(s) = {}
  <2>1. \A entry \in managed[s] : entry \in Entry /\ MayKeep(want[s], entry)
    BY DEF Settled, IsInSync, ManagedKeys, SyncInv, TypeOK
  <2>2. ToDrop(s) \subseteq managed[s]
    BY DEF ToDrop
  <2>. QED
    BY <2>1, <2>2, KeptIsNotDropped
<1>2. ASSUME Claiming(s) PROVE Existing(s) # NoEntry /\ ~IsTakenOver(s)
  <2>1. Head(todo[s]) \in Pending(s) /\ Head(todo[s]) \in Data
    BY <1>2, ClaimingTypes DEF SyncInv, TypeOK, Claiming, Pending
  <2>2. Head(todo[s]) \in Desired(want[s])
    BY <2>1, AtCanonical
  <2>3. \E entry \in keys : entry.data = Head(todo[s])
    BY <2>2 DEF Settled, IsInSync, IsThere
  <2>4. /\ Existing(s) # NoEntry /\ Existing(s).data = Head(todo[s])
        /\ Existing(s) \in keys
    BY <2>1, <2>3 DEF Settled, Index, Existing
  <2>5. IsManaged(Existing(s)) => MayKeep(want[s], Existing(s))
    BY <2>4 DEF Settled, IsInSync
  <2>. QED
    BY <1>2, <2>4, <2>5, KeptIsNotTaken
<1>. QED
  BY <1>1, <1>2

-----------------------------------------------------------------------------
(***************************************************************************)
(* The own steps of a sync, one by one.                                    *)
(***************************************************************************)
LEMMA OneKeyGoes ==
    ASSUME KeyNamesDiffer, NEW entry \in keys, DokkuRemove(entry.name)
    PROVE  keys' = keys \ {entry}
  BY DEF KeyNamesDiffer, DokkuRemove, Named

LEMMA BeginRelies ==
    ASSUME SyncInv, NEW s \in Syncs, Begin(s)
    PROVE  QueueIsCanonical(s)' /\ Undisturbed(s)'
<1>. TypeOK
  BY DEF SyncInv
<1>1. PICK w \in Answers, copy \in SUBSET ManagedKeys :
         /\ want' = [want EXCEPT ![s] = w]
         /\ managed' = [managed EXCEPT ![s] = copy]
         /\ picture' = [picture EXCEPT ![s] = Picture(w, copy)]
         /\ Enter(s, Synced(w), w)
  BY DEF Begin, Copies
<1>2. PICK index \in Index : byData' = [byData EXCEPT ![s] = index]
  BY DEF Begin
<1>. w \in Want
  BY DEF Answers
<1>3. /\ want'[s] = w /\ byData'[s] = index /\ keys' = keys
      /\ managed'[s] = copy
      /\ picture'[s] = Picture(w, copy)
  BY <1>1, <1>2 DEF Begin, TypeOK
<1>4. Synced(w) \in SUBSET Users
  BY DEF Synced, Want
<1>5. /\ Pending(s)' = CanonicalOf(w, Synced(w)) /\ turn'[s] = Synced(w)
      /\ tried'[s] = {} /\ pc'[s] # "idle"
  BY <1>1, <1>4, EnterQueue
<1>6. QueueIsCanonical(s)'
  BY <1>3, <1>5 DEF QueueIsCanonical, CanonicalOf, Canonical
<1>7. picture'[s] # "stale" => CopyIsTrue(s)'
  <2>. SUFFICES ASSUME picture'[s] # "stale" PROVE CopyIsTrue(s)'
    OBVIOUS
  <2>1. /\ ManagedKeys' = ManagedKeys
        /\ \A entry \in ManagedKeys \ copy : MayKeep(w, entry)
    BY <1>3 DEF ManagedKeys, Picture, IsInSync
  <2>2. \A data \in Data : index[data] # NoEntry
            => index[data] \in keys /\ index[data].data = data
    BY DEF Index
  <2>. QED
    BY <1>3, <1>5, <2>1, <2>2 DEF CopyIsTrue, MayKeep
<1>8. WantedIsThere(s)'
  <2>. SUFFICES ASSUME NEW u \in Synced(w), NEW data \in Canonical(w, u)
                PROVE  TurnWillCome(s, u, data)'
    BY <1>3 DEF WantedIsThere
  <2>1. Current(s, u)' => u \in Firsts(Synced(w))
    BY <1>5 DEF Current, Firsts
  <2>2. u \in Firsts(Synced(w)) => data \in CanonicalOf(w, Synced(w))
    BY DEF CanonicalOf
  <2>. QED
    BY <1>5, <2>1, <2>2 DEF TurnWillCome
<1>9. NoneTooMany(s)'
  BY <1>3, <1>5 DEF NoneTooMany
<1>10. IsInSync(w) => Settled(s)'
  <2>1. ManagedKeys' = ManagedKeys /\ Index' = Index
    BY <1>3 DEF ManagedKeys, Index
  <2>2. IsInSync(w) => IsInSync(want[s])'
    BY <1>3 DEF IsInSync, IsThere
  <2>. QED
    BY <1>2, <1>3, <2>1, <2>2 DEF Settled
<1>. QED
  BY <1>3, <1>5, <1>6, <1>7, <1>8, <1>9, <1>10 DEF Undisturbed, Picture

(***************************************************************************)
(* The next key of the queue.                                              *)
(***************************************************************************)
LEMMA ClaimQueue ==
    ASSUME SyncInv, NEW s \in Syncs, QueueIsCanonical(s), Claiming(s), Skip(s),
           want' = want, turn' = turn
    PROVE  QueueIsCanonical(s)'
  BY QueueShrinks DEF SyncInv, QueueIsCanonical, CanonicalOf

(***************************************************************************)
(* The key at hand is there, and what was there still is: that is all the  *)
(* queue has to tell.                                                      *)
(***************************************************************************)
LEMMA ClaimWanted ==
    ASSUME SyncInv, NEW s \in Syncs, QueueIsCanonical(s), Claiming(s), Skip(s),
           want' = want, turn' = turn, WantedIsThere(s),
           NEW atHand, atHand = Head(todo[s]), IsThere(want[s], atHand)',
           \A data \in Data : IsThere(want[s], data) => IsThere(want[s], data)'
    PROVE  WantedIsThere(s)'
<1>. SUFFICES ASSUME NEW u \in Synced(want[s]), NEW data \in Canonical(want[s], u)
              PROVE  IsThere(want[s], data)' \/ TurnWillCome(s, u, data)'
  BY DEF WantedIsThere
<1>1. data \in Data
  BY DEF Canonical, Synced, SyncInv, TypeOK, Want
<1>2. CASE IsThere(want[s], data)
  BY <1>1, <1>2
<1>3. CASE data = Head(todo[s])
  BY <1>3
<1>4. CASE TurnWillCome(s, u, data) /\ data # Head(todo[s])
  <2>1. data \in Pending(s) => data \in Pending(s)'
    BY <1>4, QueueShrinks DEF SyncInv
  <2>. QED
    BY <1>4, <2>1 DEF TurnWillCome, Current
<1>. QED
  BY <1>2, <1>3, <1>4 DEF WantedIsThere

LEMMA KeepRelies ==
    ASSUME SyncInv, NEW s \in Syncs, QueueIsCanonical(s), Undisturbed(s), Keep(s)
    PROVE  QueueIsCanonical(s)' /\ Undisturbed(s)'
<1>. TypeOK
  BY DEF SyncInv
<1>1. /\ Claiming(s) /\ Skip(s) /\ Existing(s) # NoEntry /\ ~IsTakenOver(s)
      /\ UNCHANGED <<keys, pc, want, byData, managed, turn, tried, report, picture>>
  BY DEF Keep
<1>2. QueueIsCanonical(s)'
  BY <1>1, ClaimQueue
<1>3. ManagedKeys' = ManagedKeys /\ Index' = Index
  BY <1>1 DEF ManagedKeys, Index
<1>4. \A data : IsThere(want[s], data) => IsThere(want[s], data)'
  BY <1>1 DEF IsThere
<1>5. ASSUME CopyIsTrue(s), WantedIsThere(s), NoneTooMany(s)
      PROVE  CopyIsTrue(s)' /\ WantedIsThere(s)' /\ NoneTooMany(s)'
  <2>1. CopyIsTrue(s)'
    <3>1. todo[s] # <<>>
      BY <1>1 DEF Claiming
    <3>. QED
      BY <1>1, <1>3, <1>5, <3>1 DEF CopyIsTrue
  <2>2. NoneTooMany(s)'
    BY <1>1, <1>3, <1>5 DEF NoneTooMany
  <2>3. Head(todo[s]) \in Data /\ Head(todo[s]) \in Pending(s)
    BY <1>1, ClaimingTypes, QueueShrinks
  <2>4. Existing(s) \in keys /\ Existing(s).data = Head(todo[s])
    BY <1>1, <1>5, <2>3 DEF CopyIsTrue, Claiming, Existing
  <2>5. IsThere(want[s], Head(todo[s]))
    <3>1. PICK u \in turn[s] : /\ Current(s, u) /\ \A v : Current(s, v) => v = u
                               /\ CanonicalOwners(want[s], Head(todo[s])) = {u}
      BY <2>3, AtCanonical
    <3>2. IsManaged(Existing(s)) => MayKeep(want[s], Existing(s))
      BY <1>1, <2>4, <3>1 DEF IsTakenOver, MayKeep
    <3>. QED
      BY <2>4, <3>2 DEF IsThere
  <2>6. WantedIsThere(s)'
    <3>1. PICK atHand : atHand = Head(todo[s])
      OBVIOUS
    <3>2. IsThere(want[s], atHand)'
      BY <1>4, <2>5, <3>1
    <3>. QED
      BY <1>1, <1>4, <1>5, <3>1, <3>2, ClaimWanted
  <2>. QED
    BY <2>1, <2>2, <2>6
<1>6. Settled(s) => Settled(s)'
  BY <1>1, <1>3 DEF Settled, IsInSync, IsThere
<1>. QED
  BY <1>1, <1>2, <1>5, <1>6 DEF Undisturbed

LEMMA TakeOverRelies ==
    ASSUME SyncInv, KeyNamesDiffer, NEW s \in Syncs, QueueIsCanonical(s), Undisturbed(s),
           TakeOver(s)
    PROVE  QueueIsCanonical(s)' /\ Undisturbed(s)'
<1>. TypeOK
  BY DEF SyncInv
<1>. DEFINE data == Head(todo[s])
            taken == Existing(s)
<1>1. /\ Claiming(s) /\ IsTakenOver(s) /\ DokkuRemove(taken.name)
      /\ UNCHANGED <<pc, want, turn, todo, tried, report>>
      /\ picture'[s] = picture[s]
      /\ managed'[s] = managed[s] \ {taken}
      /\ byData'[s] = [byData[s] EXCEPT ![data] = NoEntry]
  BY DEF TakeOver, Disturbs, TypeOK
<1>2. QueueIsCanonical(s)'
  BY <1>1 DEF QueueIsCanonical, Pending, CanonicalOf
<1>3. data \in Data /\ data \in Pending(s)
  BY <1>1, ClaimingTypes DEF Claiming, Pending, TypeOK
<1>4. pc[s] = "target" /\ todo[s] # <<>>
  BY <1>1 DEF Claiming
<1>5. ~Settled(s)
  BY <1>1, <1>4, SettledIsQuiet
<1>6. ASSUME CopyIsTrue(s), WantedIsThere(s), NoneTooMany(s)
      PROVE  CopyIsTrue(s)' /\ WantedIsThere(s)' /\ NoneTooMany(s)'
  <2>1. taken \in keys /\ taken.data = data /\ IsManaged(taken)
    BY <1>1, <1>3, <1>4, <1>6 DEF CopyIsTrue, Existing, IsTakenOver
  <2>2. keys' = keys \ {taken}
    BY <1>1, <2>1, OneKeyGoes
  <2>3. ManagedKeys' = ManagedKeys \ {taken}
    BY <2>2 DEF ManagedKeys
  <2>4. CopyIsTrue(s)'
    <3>1. /\ tried'[s] = {} /\ managed'[s] \subseteq ManagedKeys'
          /\ \A entry \in ManagedKeys' :
                entry \in managed'[s] \/ MayKeep(want[s], entry)
      BY <1>1, <1>4, <1>6, <2>3 DEF CopyIsTrue
    <3>2. ASSUME NEW d \in Data, byData'[s][d] # NoEntry
          PROVE  byData'[s][d] \in keys' /\ byData'[s][d].data = d
      <4>1. d # data /\ byData'[s][d] = byData[s][d]
        BY <1>1, <1>3, <3>2 DEF TypeOK
      <4>2. byData[s][d] \in keys /\ byData[s][d].data = d
        BY <1>4, <1>6, <3>2, <4>1 DEF CopyIsTrue
      <4>. QED
        BY <2>1, <2>2, <4>1, <4>2
    <3>. QED
      BY <1>1, <3>1, <3>2 DEF CopyIsTrue, MayKeep
  <2>5. NoneTooMany(s)'
    BY <1>1, <1>6, <2>3 DEF NoneTooMany
  <2>6. PICK u \in turn[s] : /\ Current(s, u) /\ \A v : Current(s, v) => v = u
                             /\ CanonicalOwners(want[s], data) = {u}
    BY <1>3, AtCanonical
  <2>7. WantedIsThere(s)'
    <3>. SUFFICES ASSUME NEW v \in Synced(want[s]), NEW d \in Canonical(want[s], v)
                  PROVE  IsThere(want[s], d)' \/ TurnWillCome(s, v, d)'
      BY <1>1 DEF WantedIsThere
    <3>1. TurnWillCome(s, v, d) => TurnWillCome(s, v, d)'
      BY <1>1 DEF TurnWillCome, Current, Pending
    <3>2. d = data => TurnWillCome(s, v, d)
      <4>1. d = data => v = u
        BY <2>6 DEF Canonical
      <4>. QED
        BY <1>3, <2>6, <4>1 DEF TurnWillCome
    <3>3. d # data /\ IsThere(want[s], d) => IsThere(want[s], d)'
      BY <1>1, <2>1, <2>2 DEF IsThere
    <3>. QED
      BY <1>6, <3>1, <3>2, <3>3 DEF WantedIsThere
  <2>. QED
    BY <2>4, <2>5, <2>7
<1>. QED
  BY <1>1, <1>2, <1>5, <1>6 DEF Undisturbed


LEMMA AddKeyRelies ==
    ASSUME SyncInv, KeyNamesDiffer, NEW s \in Syncs, QueueIsCanonical(s), Undisturbed(s),
           AddKey(s)
    PROVE  QueueIsCanonical(s)' /\ Undisturbed(s)'
<1>. TypeOK
  BY DEF SyncInv
<1>1. PICK atHand : atHand = Head(todo[s])
  OBVIOUS
<1>2. /\ Claiming(s) /\ Existing(s) = NoEntry /\ Skip(s)
      /\ UNCHANGED <<pc, want, turn, tried, report>>
      /\ picture'[s] = picture[s]
  BY DEF AddKey, Disturbs, TypeOK
<1>3. PICK user \in Users :
         LET entry == [name |-> managedKeyName(user, atHand), data |-> atHand] IN
         /\ Current(s, user)
         /\ DokkuAdd(entry)
         /\ byData' = [byData EXCEPT ![s][atHand] = entry]
         /\ managed' = [managed EXCEPT ![s] =
               {other \in @ : ~IsSame(entry, other)} \cup {entry}]
  BY <1>1 DEF AddKey
<1>. DEFINE entry == [name |-> managedKeyName(user, atHand), data |-> atHand]
<1>4. /\ keys' = keys \cup {entry}
      /\ byData'[s] = [byData[s] EXCEPT ![atHand] = entry]
      /\ managed'[s] = {other \in managed[s] : ~IsSame(entry, other)} \cup {entry}
  BY <1>3 DEF DokkuAdd, TypeOK
<1>5. atHand \in Data /\ atHand \in Pending(s)
  BY <1>1, <1>2, ClaimingTypes, QueueShrinks
<1>6. /\ IsManaged(entry) /\ managedKeyOwner(entry) = user /\ entry.data = atHand
      /\ entry \in Entry /\ entry # NoEntry
  BY <1>5, NamesManaged, NamesAssumption DEF IsManaged, managedKeyOwner, managedKeyName, Entry
<1>. HIDE DEF entry
<1>7. QueueIsCanonical(s)'
  BY <1>2, ClaimQueue
<1>8. pc[s] = "target" /\ todo[s] # <<>>
  BY <1>2 DEF Claiming
<1>9. ~Settled(s)
  BY <1>2, <1>8, SettledIsQuiet
<1>10. /\ user \in turn[s] /\ user \in CanonicalOwners(want[s], atHand)
       /\ atHand \in Canonical(want[s], user)
  BY <1>3, <1>5, AtCanonical DEF Current
<1>11. ManagedKeys' = ManagedKeys \cup {entry}
  BY <1>4, <1>6 DEF ManagedKeys
<1>12. ASSUME CopyIsTrue(s), WantedIsThere(s), NoneTooMany(s)
       PROVE  CopyIsTrue(s)' /\ WantedIsThere(s)' /\ NoneTooMany(s)'
  <2>1. CopyIsTrue(s)'
    <3>1. /\ tried[s] = {} /\ tried'[s] = {}
          /\ managed'[s] \ tried'[s] \subseteq ManagedKeys'
      BY <1>2, <1>4, <1>8, <1>11, <1>12 DEF CopyIsTrue
    <3>3. ASSUME NEW other \in ManagedKeys', other \notin managed'[s]
          PROVE  MayKeep(want[s], other)
      <4>1. other \in ManagedKeys
        BY <1>4, <1>11, <3>3
      <4>2. CASE other \notin managed[s]
        BY <1>12, <3>1, <4>1, <4>2 DEF CopyIsTrue
      <4>3. CASE other \in managed[s]
        <5>1. managedKeyOwner(other) = user /\ other.data = atHand
          BY <1>4, <1>6, <3>3, <4>3 DEF IsSame
        <5>. QED
          BY <1>10, <5>1 DEF MayKeep
      <4>. QED
        BY <4>2, <4>3
    <3>2. ASSUME NEW d \in Data, byData'[s][d] # NoEntry
          PROVE  byData'[s][d] \in keys' /\ byData'[s][d].data = d
      <4>1. CASE d = atHand
        BY <1>4, <1>5, <1>6, <4>1 DEF TypeOK
      <4>2. CASE d # atHand
        <5>1. byData'[s][d] = byData[s][d]
          BY <1>4, <4>2 DEF TypeOK
        <5>. QED
          BY <1>4, <1>8, <1>12, <3>2, <5>1 DEF CopyIsTrue
      <4>. QED
        BY <4>1, <4>2
    <3>. QED
      BY <1>2, <3>1, <3>2, <3>3 DEF CopyIsTrue, MayKeep
  <2>2. NoneTooMany(s)'
    BY <1>2, <1>6, <1>10, <1>11, <1>12 DEF NoneTooMany
  <2>3. \A d : IsThere(want[s], d) => IsThere(want[s], d)'
    BY <1>2, <1>4 DEF IsThere
  <2>4. IsThere(want[s], atHand)'
    BY <1>2, <1>4, <1>6, <1>10 DEF IsThere, MayKeep
  <2>5. WantedIsThere(s)'
    BY <1>1, <1>2, <1>12, <2>3, <2>4, ClaimWanted
  <2>. QED
    BY <2>1, <2>2, <2>5
<1>. QED
  BY <1>2, <1>7, <1>9, <1>12 DEF Undisturbed

(***************************************************************************)
(* A command that fails makes the report a failure: then the sync promises *)
(* nothing.                                                                *)
(***************************************************************************)
LEMMA FailureRelies ==
    ASSUME SyncInv, NEW s \in Syncs, QueueIsCanonical(s), Undisturbed(s),
           ClaimFails(s) \/ DropFails(s)
    PROVE  QueueIsCanonical(s)' /\ Undisturbed(s)'
<1>. TypeOK
  BY DEF SyncInv
<1>1. QueueIsCanonical(s)'
  <2>1. CASE ClaimFails(s)
    BY <2>1, ClaimQueue DEF ClaimFails
  <2>2. CASE DropFails(s)
    BY <2>2 DEF DropFails, QueueIsCanonical, Pending, CanonicalOf
  <2>. QED
    BY <2>1, <2>2
<1>2. report'[s] = "failed" /\ pc' = pc /\ picture' = picture
  BY DEF ClaimFails, DropFails, TypeOK
<1>3. pc[s] # "idle" => ~Settled(s)
  BY SettledIsQuiet DEF ClaimFails, DropFails
<1>. QED
  BY <1>1, <1>2, <1>3 DEF Undisturbed

(***************************************************************************)
(* Keys are dropped that may not be kept.                                  *)
(***************************************************************************)
LEMMA DropRelies ==
    ASSUME SyncInv, KeyNamesDiffer, NEW s \in Syncs, QueueIsCanonical(s), Undisturbed(s),
           Drop(s)
    PROVE  QueueIsCanonical(s)' /\ Undisturbed(s)'
<1>. TypeOK
  BY DEF SyncInv
<1>1. PICK gone \in ToDrop(s) :
         /\ DokkuRemove(gone.name)
         /\ tried' = [tried EXCEPT ![s] = @ \cup {gone}]
         /\ IF pc[s] = "target"
            THEN /\ managed' = [managed EXCEPT ![s] = @ \ {gone}]
                 /\ byData' = [byData EXCEPT ![s][gone.data] = NoEntry]
            ELSE UNCHANGED <<managed, byData>>
  BY DEF Drop
<1>2. /\ Dropping(s) /\ UNCHANGED <<pc, want, turn, todo, report>>
      /\ picture'[s] = picture[s] /\ tried'[s] = tried[s] \cup {gone}
  BY <1>1 DEF Drop, Disturbs, TypeOK
<1>3. gone \in managed[s] \ tried[s] /\ gone \in Entry /\ gone.data \in Data
  BY <1>1, ToDropTypes DEF ToDrop, Entry
<1>4. QueueIsCanonical(s)'
  BY <1>2 DEF QueueIsCanonical, Pending, CanonicalOf
<1>5. ~Settled(s)
  BY <1>1, <1>2, SettledIsQuiet DEF Dropping
<1>6. todo'[s] = <<>> /\ pc[s] # "idle"
  BY <1>2 DEF Dropping
<1>7. ASSUME CopyIsTrue(s), WantedIsThere(s), NoneTooMany(s)
      PROVE  CopyIsTrue(s)' /\ WantedIsThere(s)' /\ NoneTooMany(s)'
  <2>1. gone \in ManagedKeys
    BY <1>3, <1>7 DEF CopyIsTrue
  <2>2. keys' = keys \ {gone} /\ ManagedKeys' = ManagedKeys \ {gone}
    BY <1>1, <2>1, OneKeyGoes DEF ManagedKeys
  <2>3. CopyIsTrue(s)'
    <3>1. CASE pc[s] = "target"
      <4>1. managed'[s] = managed[s] \ {gone}
        BY <1>1, <3>1 DEF TypeOK
      <4>2. /\ managed'[s] \ tried'[s] \subseteq ManagedKeys'
            /\ \A entry \in ManagedKeys' :
                  entry \in managed'[s] \ tried'[s] \/ MayKeep(want[s], entry)
            /\ managed'[s] \cap tried'[s] = {}
        BY <1>2, <1>7, <2>2, <3>1, <4>1 DEF CopyIsTrue
      <4>3. byData'[s] = [byData[s] EXCEPT ![gone.data] = NoEntry]
        BY <1>1, <3>1 DEF TypeOK
      <4>4. ASSUME NEW d \in Data, byData'[s][d] # NoEntry
            PROVE  byData'[s][d] \in keys' /\ byData'[s][d].data = d
        <5>1. d # gone.data /\ byData'[s][d] = byData[s][d]
          BY <1>3, <4>3, <4>4 DEF TypeOK
        <5>2. byData[s][d] \in keys /\ byData[s][d].data = d
          BY <1>7, <3>1, <4>4, <5>1 DEF CopyIsTrue
        <5>. QED
          BY <2>2, <5>1, <5>2
      <4>. QED
        BY <1>2, <1>6, <4>2, <4>4 DEF CopyIsTrue, MayKeep
    <3>2. CASE pc[s] # "target"
      <4>1. managed' = managed
        BY <1>1, <3>2
      <4>. QED
        BY <1>2, <1>6, <1>7, <2>2, <3>2, <4>1 DEF CopyIsTrue, MayKeep
    <3>. QED
      BY <3>1, <3>2
  <2>4. NoneTooMany(s)'
    BY <1>2, <1>7, <2>2 DEF NoneTooMany
  <2>5. ~MayKeep(want[s], gone) /\ IsManaged(gone)
    BY <1>1, <1>3, <1>6, <1>2, <2>1, KeptIsNotDropped DEF Dropping, ManagedKeys
  <2>6. \A d : IsThere(want[s], d) => IsThere(want[s], d)'
    BY <1>2, <2>2, <2>5 DEF IsThere
  <2>7. \A u, d : TurnWillCome(s, u, d) => TurnWillCome(s, u, d)'
    BY <1>2 DEF TurnWillCome, Current, Pending
  <2>8. WantedIsThere(s)'
    BY <1>2, <1>7, <2>6, <2>7 DEF WantedIsThere, IsThere
  <2>. QED
    BY <2>3, <2>4, <2>8
<1>. QED
  BY <1>2, <1>4, <1>5, <1>7 DEF Undisturbed

(***************************************************************************)
(* A target is done when its keys are there and none of its keys is too    *)
(* many.                                                                   *)
(***************************************************************************)
LEMMA TargetDoneRelies ==
    ASSUME SyncInv, NEW s \in Syncs, QueueIsCanonical(s), Undisturbed(s), TargetDone(s)
    PROVE  QueueIsCanonical(s)' /\ Undisturbed(s)'
<1>. TypeOK
  BY DEF SyncInv
<1>. DEFINE rest == {u \in turn[s] : ~Current(s, u)}
<1>1. /\ Enter(s, rest, want[s]) /\ ToDrop(s) = {} /\ todo[s] = <<>> /\ pc[s] = "target"
      /\ UNCHANGED <<keys, want, byData, managed, report, picture>>
  BY DEF TargetDone, Dropping
<1>2. rest \in SUBSET Users /\ want[s] \in Want /\ rest \subseteq turn[s]
  BY DEF TypeOK
<1>3. /\ Pending(s)' = CanonicalOf(want[s], rest) /\ turn'[s] = rest
      /\ tried'[s] = {} /\ pc'[s] # "idle"
  BY <1>1, <1>2, EnterQueue
<1>. HIDE DEF rest
<1>4. QueueIsCanonical(s)'
  BY <1>1, <1>3 DEF QueueIsCanonical, CanonicalOf
<1>5. ManagedKeys' = ManagedKeys /\ Index' = Index
  BY <1>1 DEF ManagedKeys, Index
<1>6. \A d : IsThere(want[s], d) => IsThere(want[s], d)'
  BY <1>1 DEF IsThere
<1>7. ASSUME CopyIsTrue(s), WantedIsThere(s), NoneTooMany(s)
      PROVE  CopyIsTrue(s)' /\ WantedIsThere(s)' /\ NoneTooMany(s)'
  <2>1. /\ managed[s] \subseteq ManagedKeys
        /\ \A entry \in ManagedKeys :
              entry \in managed[s] \/ MayKeep(want[s], entry)
    BY <1>1, <1>7 DEF CopyIsTrue
  <2>2. CopyIsTrue(s)'
    BY <1>1, <1>3, <1>5, <1>7, <2>1 DEF CopyIsTrue, MayKeep
  <2>3. WantedIsThere(s)'
    <3>. SUFFICES ASSUME NEW u \in Synced(want[s]), NEW d \in Canonical(want[s], u),
                         ~IsThere(want[s], d)
                  PROVE  TurnWillCome(s, u, d)'
      BY <1>1, <1>6 DEF WantedIsThere
    <3>1. Pending(s) = {}
      BY <1>1 DEF Pending
    <3>2. u \in turn[s] /\ ~Current(s, u)
      BY <1>7, <3>1 DEF WantedIsThere, TurnWillCome
    <3>3. u \in rest
      BY <3>2 DEF rest
    <3>4. Current(s, u)' => u \in Firsts(rest)
      BY <1>3 DEF Current, Firsts
    <3>. QED
      BY <1>3, <3>3, <3>4 DEF TurnWillCome, CanonicalOf
  <2>4. NoneTooMany(s)'
    <3>. SUFFICES ASSUME NEW u \in Synced(want[s]) \ rest, NEW entry \in ManagedKeys,
                         managedKeyOwner(entry) = u
                  PROVE  entry.data \in Canonical(want[s], u)
      BY <1>1, <1>3, <1>5 DEF NoneTooMany
    <3>1. CASE u \notin turn[s]
      BY <1>7, <3>1 DEF NoneTooMany
    <3>2. CASE u \in turn[s]
      <4>1. Current(s, u)
        BY <3>2 DEF rest
      <4>2. u \in Users /\ u \in Synced(want[s])
        BY <4>1 DEF Current, TypeOK
      <4>3. CASE entry \in managed[s] \ tried[s]
        BY <1>1, <4>1, <4>2, <4>3 DEF ToDrop
      <4>4. CASE MayKeep(want[s], entry)
        <5>1. u \in CanonicalOwners(want[s], entry.data)
          BY <4>2, <4>4 DEF MayKeep, Synced
        <5>. QED
          BY <1>2, <5>1, CanonicalIsFirst
      <4>. QED
        BY <1>7, <4>3, <4>4 DEF CopyIsTrue
    <3>. QED
      BY <3>1, <3>2
  <2>. QED
    BY <2>2, <2>3, <2>4
<1>8. Settled(s) => Settled(s)'
  BY <1>1, <1>5 DEF Settled, IsInSync, IsThere
<1>. QED
  BY <1>1, <1>3, <1>4, <1>7, <1>8 DEF Undisturbed

LEMMA FinishRelies ==
    ASSUME SyncInv, NEW s \in Syncs, Finish(s)
    PROVE  QueueIsCanonical(s)' /\ Undisturbed(s)'
<1>1. picture'[s] = "stale" /\ todo'[s] = <<>>
  BY DEF SyncInv, TypeOK, Finish, Done, Dropping
<1>. QED
  BY <1>1 DEF QueueIsCanonical, Pending, Undisturbed

-----------------------------------------------------------------------------
(***************************************************************************)
(* dokku takes no name twice.                                              *)
(***************************************************************************)
LEMMA NamesStayDifferent ==
    ASSUME SyncInv, KeyNamesDiffer, [Next]_vars
    PROVE  KeyNamesDiffer'
<1>1. ASSUME NEW entry, DokkuAdd(entry) PROVE KeyNamesDiffer'
  BY <1>1 DEF DokkuAdd, Named, KeyNamesDiffer
<1>2. ASSUME NEW name, DokkuRemove(name) PROVE KeyNamesDiffer'
  BY <1>2 DEF DokkuRemove, KeyNamesDiffer
<1>3. CASE keys' = keys
  BY <1>3 DEF KeyNamesDiffer
<1>4. ASSUME NEW s \in Syncs, SyncStep(s) PROVE KeyNamesDiffer'
  <2>1. CASE TakeOver(s) \/ Drop(s)
    BY <1>2, <2>1 DEF TakeOver, Drop
  <2>2. CASE AddKey(s)
    BY <1>1, <2>2 DEF AddKey
  <2>. QED
    BY <1>3, <1>4, <2>1, <2>2
       DEF SyncStep, Begin, Keep, ClaimFails, DropFails, TargetDone, Finish
<1>5. CASE AddByHand \/ RemoveByHand
  BY <1>1, <1>2, <1>5 DEF AddByHand, RemoveByHand
<1>. QED
  BY <1>3, <1>4, <1>5 DEF Next, vars

LEMMA OwnStepRelies ==
    ASSUME SyncInv, KeyNamesDiffer, NEW s \in Syncs, QueueIsCanonical(s), Undisturbed(s),
           SyncStep(s)
    PROVE  QueueIsCanonical(s)' /\ Undisturbed(s)'
  BY BeginRelies, KeepRelies, TakeOverRelies, AddKeyRelies, FailureRelies, DropRelies,
     TargetDoneRelies, FinishRelies DEF SyncStep

LEMMA StepPictureInv == PictureInv /\ [Next]_vars => PictureInv'
<1>. SUFFICES ASSUME PictureInv, [Next]_vars PROVE PictureInv'
  OBVIOUS
<1>. SyncInv /\ KeyNamesDiffer
  BY DEF PictureInv
<1>. SUFFICES ASSUME NEW q \in Syncs
              PROVE  QueueIsCanonical(q)' /\ Undisturbed(q)'
  BY StepSyncInv, NamesStayDifferent DEF PictureInv
<1>1. QueueIsCanonical(q) /\ Undisturbed(q)
  BY DEF PictureInv
<1>2. CASE /\ SameCopy(q)
           /\ picture'[q] # "stale" => keys' = keys /\ picture'[q] = picture[q]
  BY <1>1, <1>2, SameQueue, SameRelies DEF SameCopy
<1>3. ASSUME NEW s \in Syncs, SyncStep(s)
      PROVE  QueueIsCanonical(q)' /\ Undisturbed(q)'
  BY <1>1, <1>2, <1>3, OwnStepRelies, OthersCopies
<1>4. CASE AddByHand \/ RemoveByHand
  BY <1>2, <1>4, ByHandCopies
<1>5. CASE UNCHANGED vars
  BY <1>2, <1>5 DEF vars, locals, SameCopy
<1>. QED
  BY <1>3, <1>4, <1>5 DEF Next

LEMMA PictureInvAlways == Spec => []PictureInv
<1>1. Init => PictureInv
  BY InitTypes, InitCopyInv
     DEF Init, PictureInv, SyncInv, KeyNamesDiffer, QueueIsCanonical, Pending, Undisturbed
<1>. QED
  BY <1>1, StepPictureInv, PTL DEF Spec

(***************************************************************************)
(* A sync that found everything as it should be runs no command, for any   *)
(* number of users and keys, as long as nobody else changes the keys       *)
(* (handleSshKeySyncGithub).                                               *)
(***************************************************************************)
THEOREM NothingToDo == Spec => NoChurn
<1>1. PictureInv /\ [Next]_vars =>
        [keys' # keys => \A s \in Syncs : picture[s] = "settled" => ~SyncStep(s)]_vars
  <2>. SUFFICES ASSUME PictureInv, NEW s \in Syncs, picture[s] = "settled", SyncStep(s)
                PROVE  keys' = keys
    OBVIOUS
  <2>1. ToDrop(s) = {} /\ (Claiming(s) => Existing(s) # NoEntry /\ ~IsTakenOver(s))
    BY SettledIsQuiet DEF PictureInv, Undisturbed
  <2>. QED
    BY <2>1 DEF SyncStep, Begin, Keep, TakeOver, AddKey, ClaimFails, Drop, DropFails,
                TargetDone, Finish
<1>. QED
  BY <1>1, PictureInvAlways, PTL DEF Spec, NoChurn

(***************************************************************************)
(* What an undisturbed sync leaves when no command has failed.             *)
(***************************************************************************)
LEMMA DoneIsInSync ==
    ASSUME PictureInv, NEW s \in Syncs,
           Done(s), report[s] = "ok", picture[s] # "stale"
    PROVE  /\ \A data \in Desired(want[s]) : IsThere(want[s], data)
           /\ \A entry \in keys :
                 IsManaged(entry) => MayKeep(want[s], entry) \/ IsTolerated(want[s], entry)
<1>1. /\ want[s] \in Want /\ turn[s] = {} /\ want[s].failed \subseteq want[s].configured
      /\ CopyIsTrue(s) /\ WantedIsThere(s) /\ NoneTooMany(s)
  BY DEF PictureInv, SyncInv, TypeOK, CopyInv, TargetsAnswered, Undisturbed, Done
<1>2. ASSUME NEW data \in Desired(want[s]) PROVE IsThere(want[s], data)
  <2>1. Wanting(want[s], data) # {}
    BY DEF Desired, Wanting
  <2>2. PICK u \in CanonicalOwners(want[s], data) : TRUE
    BY <1>1, <2>1, CanonicalIsFirst, SomeFirst
  <2>3. u \in Synced(want[s]) /\ data \in Canonical(want[s], u)
    BY <1>1, <2>2, CanonicalIsFirst
  <2>. QED
    BY <1>1, <2>3 DEF WantedIsThere, TurnWillCome
<1>3. ASSUME NEW entry \in keys, IsManaged(entry), ~MayKeep(want[s], entry)
      PROVE  IsTolerated(want[s], entry)
  <2>1. entry \in managed[s] \ tried[s] /\ entry \in ManagedKeys /\ entry \notin ToDrop(s)
    BY <1>1, <1>3 DEF CopyIsTrue, ManagedKeys, Done
  <2>2. \/ managedKeyOwner(entry) \in want[s].configured
        \/ entry.data \in Desired(want[s])
    BY <2>1 DEF ToDrop, Done
  <2>3. managedKeyOwner(entry) \notin want[s].configured
    <3>. SUFFICES ASSUME managedKeyOwner(entry) \in want[s].configured PROVE FALSE
      OBVIOUS
    <3>1. managedKeyOwner(entry) \in Synced(want[s])
      BY <1>3 DEF MayKeep, Synced
    <3>2. entry.data \in Canonical(want[s], managedKeyOwner(entry))
      BY <1>1, <2>1, <3>1 DEF NoneTooMany
    <3>. QED
      BY <1>3, <3>2 DEF Canonical, MayKeep
  <2>4. PICK twin \in keys : /\ twin.data = entry.data
                             /\ IsManaged(twin) => MayKeep(want[s], twin)
    BY <1>2, <2>2, <2>3 DEF IsThere
  <2>5. twin # entry
    BY <1>3, <2>4
  <2>6. \E other \in keys \ {entry} : other.data = entry.data
    BY <2>4, <2>5
  <2>7. entry.data \in Desired(want[s])
    BY <2>2, <2>3
  <2>. QED
    BY <2>3, <2>6, <2>7 DEF IsTolerated
<1>. QED
  BY <1>2, <1>3

(***************************************************************************)
(* A sync that reports success, and was not disturbed, has put every       *)
(* wanted key in its place and left no managed key that nobody may have,   *)
(* for any number of users and keys (handleSshKeySyncGithub).              *)
(***************************************************************************)
THEOREM SuccessIsInSync == Spec => []SuccessMeansInSync
<1>1. PictureInv => SuccessMeansInSync
  BY DoneIsInSync DEF SuccessMeansInSync
<1>. QED
  BY <1>1, PictureInvAlways, PTL
=============================================================================
