--------------------------- MODULE RequestsProofs ---------------------------
(***************************************************************************)
(* What requests that save and requests that run commands promise, for     *)
(* all configurations, users, apps and forms: the parts of MCRequests,     *)
(* each from its own specification.                                        *)
(***************************************************************************)
EXTENDS MCRequests, ConfigFileProofs, Naturals

(***************************************************************************)
(* What ConfigFileProofs shows of any directory, for the one that may deny *)
(* a call.                                                                 *)
(***************************************************************************)
F == INSTANCE ConfigFileProofs WITH
    Denied <- TRUE, inode <- fInode, file <- fFile, tmp <- fTmp,
    running <- fRunning, pc <- fPc, config <- fConfig, sharing <- fSharing,
    fd <- fFd

LEMMA SameFallback ==
    /\ F!Init <=> Fallback!Init
    /\ [F!Next]_(F!vars) <=> [Fallback!Next]_(Fallback!vars)
    /\ F!SavedMeansSaved <=> Fallback!SavedMeansSaved
<1>1. F!Init <=> Fallback!Init
  BY DEF F!Init, Fallback!Init, F!Configs, Fallback!Configs
<1>2. \A s \in Savers : F!SaverStep(s) <=> Fallback!SaverStep(s)
  BY DEF F!SaverStep, F!Save, F!SetBackup, F!Marshal, F!Configs, F!OpenTemp, F!OpenTempDenied, F!OpenTempFails,
         F!WriteTemp, F!WriteTempFails, F!Rename, F!RenameFails, F!RenameDenied,
         F!RemoveTemp, F!Truncate, F!TruncateFails, F!Overwrite, F!OverwriteFails,
         F!Publish, F!Return, F!GoTo, F!Unused, F!Written, F!fs, Fallback!SaverStep,
         Fallback!Save, Fallback!SetBackup, Fallback!Marshal, Fallback!Configs,
         Fallback!OpenTemp, Fallback!OpenTempDenied,
         Fallback!OpenTempFails, Fallback!WriteTemp, Fallback!WriteTempFails,
         Fallback!Rename, Fallback!RenameFails, Fallback!RenameDenied,
         Fallback!RemoveTemp, Fallback!Truncate, Fallback!TruncateFails,
         Fallback!Overwrite, Fallback!OverwriteFails, Fallback!Publish,
         Fallback!Return, Fallback!GoTo, Fallback!Unused, Fallback!Written,
         Fallback!fs
<1>3. F!Restart <=> Fallback!Restart
  BY DEF F!Restart, F!fs, F!Configs, Fallback!Restart, Fallback!fs, Fallback!Configs
<1>4. F!SavedMeansSaved <=> Fallback!SavedMeansSaved
  BY DEF F!SavedMeansSaved, Fallback!SavedMeansSaved
<1>5. F!Next <=> Fallback!Next
  BY <1>2, <1>3 DEF F!Next, Fallback!Next
<1>6. [F!Next]_(F!vars) <=> [Fallback!Next]_(Fallback!vars)
  BY <1>5 DEF F!vars, Fallback!vars
<1>. QED
  BY <1>1, <1>4, <1>6

(***************************************************************************)
(* A save that is answered with success is in the file and in the memory,  *)
(* in either directory, with one save at a time (SaveConfig).              *)
(***************************************************************************)
THEOREM SavesStay ==
    ASSUME OneAtATime
    PROVE  Spec /\ Fallback!Spec => []SavesAreSaved
<1>1. Spec => []SavedMeansSaved
  BY SavesLast
<1>2. F!Spec => []F!SavedMeansSaved
  <2>1. F!FileAssumption
    BY FileAssumption DEF F!FileAssumption, F!Configs, Configs
  <2>2. F!OneAtATime
    BY DEF OneAtATime, F!OneAtATime
  <2>. QED
    BY <2>1, <2>2, F!SavesLast
<1>3. Fallback!Spec => []Fallback!SavedMeansSaved
  BY <1>2, SameFallback, PTL DEF F!Spec, Fallback!Spec
<1>. QED
  BY <1>1, <1>3, PTL DEF SavesAreSaved

(***************************************************************************)
(* What AccessProofs shows of the requests of administrators.  Nothing of  *)
(* its sessions matters here.                                              *)
(***************************************************************************)
U == INSTANCE AccessProofs WITH
    running <- uRunning, saved <- uSaved, pc <- uPc, command <- uCommand,
    found <- uFound, copy <- uCopy,
    Browsers <- {}, NoBrowser <- 0, session <- 0, by <- 0, renaming <- 0,
    Tokens <- {"/", "*", "apps", "services", "api", "ws", "create", "installed",
               "available", "logs", "env", "x"},
    Grantees <- {}, AppNames <- {}, Pages <- {}, ServiceTypes <- {}, ServiceNames <- {},
    grantee <- 0

LEMMA UsersAssumptions ==
    U!KindsAssumption /\ U!NoBrowserAssumption /\ U!GrantsAssumption
<1>1. U!KindsAssumption /\ U!NoBrowserAssumption
  BY UserRequestsAssumption DEF U!KindsAssumption, U!NoBrowserAssumption
<1>2. U!GrantsAssumption
  BY DEF U!GrantsAssumption, U!GrantsTypeOK
<1>. QED
  BY <1>1, <1>2

LEMMA LeastNumber ==
    ASSUME NEW T \in SUBSET Nat, T # {}
    PROVE  \E n \in T : \A m \in T : n <= m
  BY UsersAssumptions, U!Least

LEMMA SameUsers ==
    /\ U!Init <=> Users!Init
    /\ [U!Next]_(U!vars) <=> [Users!Next]_(Users!vars)
    /\ U!NamesAreUnique <=> Users!NamesAreUnique
<1>1. /\ U!NoUser = Users!NoUser
      /\ U!NoCopy = Users!NoCopy
      /\ U!NoCommand = Users!NoCommand
      /\ U!Command = Users!Command
  BY
    DEF U!Roles, U!User, U!NoUser, U!NoCopy, U!NoCommand, U!Command,
        Users!Roles, Users!User, Users!NoUser, Users!NoCopy, Users!NoCommand,
        Users!Command
<1>2. \A users, name : /\ U!Exists(users, name) <=> Users!Exists(users, name)
                       /\ U!FindUser(users, name) = Users!FindUser(users, name)
  BY <1>1
    DEF U!Exists, U!FindUser, Users!Exists, Users!FindUser
<1>3. \A user : U!IsEnabledAdmin(user) <=> Users!IsEnabledAdmin(user)
  BY
    DEF U!IsEnabledAdmin, Users!IsEnabledAdmin
<1>4. \A users : /\ U!FindEnabledAdminCount(users)
                        = Users!FindEnabledAdminCount(users)
                 /\ U!ValidateUsers(users) <=> Users!ValidateUsers(users)
  BY
    DEF U!IsEnabledAdmin, U!EnabledAdmins, U!FindEnabledAdminCount,
        U!ValidateUsers, Users!IsEnabledAdmin, Users!EnabledAdmins,
        Users!FindEnabledAdminCount, Users!ValidateUsers,
        U!Cardinality, Users!Cardinality
<1>5. \A c, user, users : U!UsersAfter(c, user, users)
                             = Users!UsersAfter(c, user, users)
  BY <1>2
    DEF U!Created, U!Updated, U!ReplaceUser, U!RemoveUser, U!UsersAfter,
        Users!Created, Users!Updated, Users!ReplaceUser, Users!RemoveUser,
        Users!UsersAfter
<1>6. /\ \A c : U!IsChecked(c) <=> Users!IsChecked(c)
      /\ \A c : U!Findable(c) <=> Users!Findable(c)
  BY <1>2
    DEF U!IsChecked, U!Findable, Users!IsChecked, Users!Findable
<1>7. \A r \in Requests : U!Allowed(r) <=> Users!Allowed(r)
  BY <1>2, <1>3, <1>4
    DEF U!LosesAdmin, U!UpdateAllowed, U!DeleteAllowed, U!Allowed,
        Users!LosesAdmin, Users!UpdateAllowed, Users!DeleteAllowed,
        Users!Allowed
<1>8. \A r \in Requests : U!RequestStep(r) <=> Users!RequestStep(r)
  BY <1>1, <1>2, <1>3, <1>4, <1>5, <1>6, <1>7
    DEF U!RequestStep, U!Arrive, U!Find, U!FindRefuses, U!Check,
        U!CheckRefuses, U!Mutate, U!Clone, U!Write, U!WriteFails, U!Publish,
        U!GoTo, U!End, U!Refuse, Users!RequestStep, Users!Arrive, Users!Find,
        Users!FindRefuses, Users!Check, Users!CheckRefuses, Users!Mutate,
        Users!Clone, Users!Write, Users!WriteFails, Users!Publish, Users!GoTo,
        Users!End, Users!Refuse
<1>9. U!Restart <=> Users!Restart
  BY <1>1
    DEF U!Restart, Users!Restart
<1>10. U!Init <=> Users!Init
  BY <1>1
    DEF U!Init, Users!Init
<1>11. U!NamesAreUnique <=> Users!NamesAreUnique
  BY <1>4
    DEF U!NamesAreUnique, Users!NamesAreUnique
<1>12. [U!Next]_(U!vars) <=> [Users!Next]_(Users!vars)
  BY <1>8, <1>9
    DEF U!Next, U!vars, Users!Next, Users!vars
<1>. QED
  BY <1>10, <1>11, <1>12

THEOREM NamesStayUnique == Users!Spec => []NamesAreUnique
<1>1. U!Spec => []U!NamesAreUnique
  BY UsersAssumptions, U!UniqueNames
<1>. QED
  BY <1>1, SameUsers, PTL DEF U!Spec, Users!Spec, NamesAreUnique

-----------------------------------------------------------------------------
(***************************************************************************)
(* Lists of commands.  FlattenSeq is a loop; what is true of each list and *)
(* stays true when two are joined is true of its result.                   *)
(***************************************************************************)
IsFlattening(lists, flatten, last) ==
    flatten = [i \in 1 .. last |-> IF i = 1 THEN lists[i] ELSE flatten[i - 1] \o lists[i]]

LEMMA FlatteningContinues ==
    ASSUME NEW lists, NEW last \in Nat \ {0}, NEW flatten,
           IsFlattening(lists, flatten, last)
    PROVE  \E longer : IsFlattening(lists, longer, last + 1)
<1>. DEFINE longer == [i \in 1 .. last + 1 |->
                          IF i = last + 1 THEN flatten[last] \o lists[last + 1]
                          ELSE flatten[i]]
<1>1. \A i \in 1 .. last : longer[i] = flatten[i]
  OBVIOUS
<1>2. \A i \in 1 .. last :
         flatten[i] = IF i = 1 THEN lists[i] ELSE flatten[i - 1] \o lists[i]
  BY DEF IsFlattening
<1>3. \A i \in 1 .. last + 1 :
         longer[i] = IF i = 1 THEN lists[i] ELSE longer[i - 1] \o lists[i]
  <2>1. longer[last + 1] = longer[last] \o lists[last + 1]
    <3>1. longer[last + 1] = flatten[last] \o lists[last + 1]
      <4>1. last + 1 \in 1 .. last + 1
        OBVIOUS
      <4>. QED
        BY <4>1, Zenon
    <3>2. longer[last] = flatten[last]
      BY <1>1
    <3>. QED
      BY <3>1, <3>2
  <2>2. last + 1 # 1 /\ (last + 1) - 1 = last
    OBVIOUS
  <2>3. \A i \in 1 .. last + 1 : i = last + 1 \/ i \in 1 .. last
    OBVIOUS
  <2>4. \A i \in 1 .. last : i # 1 => i - 1 \in 1 .. last
    OBVIOUS
  <2>. HIDE DEF longer
  <2>5. TAKE i \in 1 .. last + 1
  <2>6. CASE i = last + 1
    BY <2>1, <2>2, <2>6
  <2>7. CASE i \in 1 .. last
    <3>1. flatten[i] = IF i = 1 THEN lists[i] ELSE flatten[i - 1] \o lists[i]
      BY <1>2, <2>7
    <3>2. longer[i] = flatten[i]
      BY <1>1, <2>7
    <3>3. i # 1 => longer[i - 1] = flatten[i - 1]
      BY <1>1, <2>4, <2>7
    <3>. QED
      BY <3>1, <3>2, <3>3
  <2>. QED
    BY <2>3, <2>6, <2>7
<1>4. IsFlattening(lists, longer, last + 1)
  BY <1>3 DEF IsFlattening
<1>. QED
  BY <1>4

LEMMA FlatteningEnds ==
    ASSUME NEW lists, NEW last \in Nat \ {0}
    PROVE  \E flatten : IsFlattening(lists, flatten, last)
<1>. DEFINE Stuck == {n \in Nat \ {0} : ~\E flatten : IsFlattening(lists, flatten, n)}
<1>1. SUFFICES ASSUME Stuck # {} PROVE FALSE
  OBVIOUS
<1>2. PICK n \in Stuck : \A m \in Stuck : n <= m
  <2>1. Stuck \in SUBSET Nat
    OBVIOUS
  <2>. HIDE DEF Stuck
  <2>. QED
    BY <1>1, <2>1, LeastNumber
<1>3. IsFlattening(lists, [i \in 1 .. 1 |-> lists[1]], 1)
  BY DEF IsFlattening
<1>4. n # 1
  BY <1>3
<1>5. n - 1 \in Nat \ {0} /\ n - 1 \notin Stuck
  BY <1>2, <1>4
<1>6. \E flatten : IsFlattening(lists, flatten, n - 1)
  BY <1>5
<1>7. \E flatten : IsFlattening(lists, flatten, (n - 1) + 1)
  BY <1>5, <1>6, FlatteningContinues
<1>. QED
  BY <1>2, <1>7

LEMMA FlattenedIs ==
    ASSUME NEW lists, Len(lists) \in Nat \ {0}, lists # <<>>
    PROVE  \E flatten : /\ IsFlattening(lists, flatten, Len(lists))
                        /\ A!FlattenSeq(lists) = flatten[Len(lists)]
<1>1. \E flatten : IsFlattening(lists, flatten, Len(lists))
  BY FlatteningEnds
<1>. QED
  BY <1>1 DEF A!FlattenSeq, IsFlattening

LEMMA FlattenedParts ==
    ASSUME NEW Lists, \A s, t \in Lists : s \o t \in Lists,
           NEW lists \in Seq(Lists), NEW flatten,
           IsFlattening(lists, flatten, Len(lists))
    PROVE  \A i \in 1 .. Len(lists) : flatten[i] \in Lists
<1>1. \A i \in 1 .. Len(lists) :
         flatten[i] = IF i = 1 THEN lists[i] ELSE flatten[i - 1] \o lists[i]
  BY DEF IsFlattening
<1>. DEFINE Wrong == {i \in 1 .. Len(lists) : flatten[i] \notin Lists}
<1>2. SUFFICES ASSUME Wrong # {} PROVE FALSE
  OBVIOUS
<1>3. PICK n \in Wrong : \A m \in Wrong : n <= m
  <2>1. Wrong \in SUBSET Nat
    OBVIOUS
  <2>. HIDE DEF Wrong
  <2>. QED
    BY <1>2, <2>1, LeastNumber
<1>4. lists[n] \in Lists
  OBVIOUS
<1>5. n # 1
  BY <1>1, <1>4
<1>6. n - 1 \in 1 .. Len(lists) /\ n - 1 \notin Wrong
  BY <1>3, <1>5
<1>. QED
  BY <1>1, <1>4, <1>5, <1>6

LEMMA FlattenedStays ==
    ASSUME NEW Lists, \A s, t \in Lists : s \o t \in Lists,
           NEW lists \in Seq(Lists), lists # <<>>
    PROVE  A!FlattenSeq(lists) \in Lists
<1>1. Len(lists) \in Nat \ {0}
  OBVIOUS
<1>2. PICK flatten : /\ IsFlattening(lists, flatten, Len(lists))
                     /\ A!FlattenSeq(lists) = flatten[Len(lists)]
  BY <1>1, FlattenedIs
<1>3. Len(lists) \in 1 .. Len(lists)
  BY <1>1
<1>. QED
  BY <1>2, <1>3, FlattenedParts

Absorbs(S, T, Joined) == \A s \in S, t \in T : s \o t \in Joined

LEMMA FlattenedReaches ==
    ASSUME NEW Lists, NEW Good, Absorbs(Lists, Lists, Lists),
           Absorbs(Lists, Good, Good), Absorbs(Good, Lists, Good),
           NEW lists \in Seq(Lists), NEW k \in DOMAIN lists, lists[k] \in Good
    PROVE  A!FlattenSeq(lists) \in Good
<1>. DEFINE last == Len(lists)
<1>1. last \in Nat /\ last >= k /\ k \in Nat /\ k >= 1
  <2>1. DOMAIN lists = 1 .. Len(lists) /\ Len(lists) \in Nat
    OBVIOUS
  <2>. QED
    BY <2>1
<1>2. PICK flatten : /\ IsFlattening(lists, flatten, Len(lists))
                     /\ A!FlattenSeq(lists) = flatten[Len(lists)]
  <2>1. last # 0 /\ lists # <<>>
    BY <1>1
  <2>. QED
    BY <1>1, <2>1, FlattenedIs
<1>3. \A i \in 1 .. last :
         flatten[i] = IF i = 1 THEN lists[i] ELSE flatten[i - 1] \o lists[i]
  BY <1>2 DEF IsFlattening
<1>4. \A i \in 1 .. last : flatten[i] \in Lists
  BY <1>1, <1>2, FlattenedParts DEF Absorbs
<1>5. \A i \in 1 .. last : lists[i] \in Lists
  OBVIOUS
<1>. HIDE DEF last
<1>. DEFINE Wrong == {i \in k .. last : flatten[i] \notin Good}
<1>6. ASSUME Wrong # {} PROVE FALSE
  <2>1. PICK n \in Wrong : \A m \in Wrong : n <= m
    <3>1. Wrong \in SUBSET Nat
      BY <1>1
    <3>. HIDE DEF Wrong
    <3>. QED
      BY <1>6, <3>1, LeastNumber
  <2>2. n \in 1 .. last /\ n >= k /\ flatten[n] \notin Good
    BY <1>1
  <2>3. CASE n = k
    <3>1. k # 1 => k - 1 \in 1 .. last
      BY <1>1
    <3>2. k # 1 => flatten[k - 1] \in Lists
      BY <1>4, <3>1
    <3>3. flatten[k] = IF k = 1 THEN lists[k] ELSE flatten[k - 1] \o lists[k]
      BY <1>1, <1>3
    <3>. QED
      BY <2>2, <2>3, <3>2, <3>3 DEF Absorbs
  <2>4. CASE n # k
    <3>1. n # 1 /\ n - 1 \in k .. last /\ n - 1 \notin Wrong
      BY <1>1, <2>1, <2>2, <2>4
    <3>2. flatten[n - 1] \in Good
      BY <1>1, <3>1
    <3>3. lists[n] \in Lists
      BY <1>5, <2>2
    <3>4. flatten[n] = flatten[n - 1] \o lists[n]
      BY <1>3, <2>2, <3>1
    <3>. QED
      BY <2>2, <3>2, <3>3, <3>4 DEF Absorbs
  <2>. QED
    BY <2>3, <2>4
<1>7. flatten[last] \in Good
  BY <1>1, <1>6
<1>. QED
  BY <1>2, <1>7 DEF last

-----------------------------------------------------------------------------
(***************************************************************************)
(* What may be in the list of a request: only a deletion removes storage,  *)
(* only a creation creates an app, and both that of their own app.         *)
(***************************************************************************)
IsList(p) == p \in Seq({p[i] : i \in DOMAIN p})

Belongs(c, f) ==
    /\ c.app = f.app
    /\ c.skip \in Nat
    /\ c.do = "apps:create" => f.kind = "create-app"
    /\ c.do = "rm" => f.kind = "delete-app"
    /\ c.do = "options" => f.kind # "delete-app"

Proper(p, f) == IsList(p) /\ \A i \in DOMAIN p : Belongs(p[i], f)

(***************************************************************************)
(* The list of a deletion: only three commands stop it, the storage is     *)
(* removed at the very end, directly after the app, and no failure that is *)
(* passed over leaves out the removal of the app.                          *)
(***************************************************************************)
Deletes(p, f) ==
    \A i \in DOMAIN p :
        /\ p[i].otherwise = "stop" => p[i].do \in {"config", "apps:destroy", "rm"}
        /\ p[i].do = "rm" =>
              /\ i = Len(p)
              /\ \A j \in DOMAIN p :
                    /\ p[j].otherwise # "stop" => j + 1 + p[j].skip < i
                    /\ j + 1 = i => p[j].do = "apps:destroy"

Fits(p, f) == Proper(p, f) /\ (f.kind = "delete-app" => Deletes(p, f))

(***************************************************************************)
(* When all that is left to do is to remove the storage, the app is gone,  *)
(* or one of that name is being created.                                   *)
(***************************************************************************)
IsGone(app) == app \notin dokku.apps \/ A!IsCreated(app)

StorageIsLast(r) == Len(plan[r]) = 1 /\ plan[r][1].do = "rm" => IsGone(asked[r].app)

DokkuFields == {"apps", "services", "links", "url", "settings", "inForce",
                "storage", "deployed", "restarted"}

DeletionInv ==
    /\ DOMAIN dokku = DokkuFields
    /\ DOMAIN asked = Requests
    /\ DOMAIN plan = Requests
    /\ DOMAIN answer = Requests
    /\ failures \in [Requests -> Nat]
    /\ \A r \in Requests :
          /\ Fits(plan[r], asked[r])
          /\ asked[r].kind = "delete-app" => StorageIsLast(r)

LEMMA ListOf ==
    ASSUME NEW S, NEW p \in Seq(S)
    PROVE  IsList(p) /\ Len(p) \in Nat /\ DOMAIN p = 1 .. Len(p)
<1>1. PICK T : T = {p[j] : j \in DOMAIN p}
  OBVIOUS
<1>2. PICK n \in Nat : n = Len(p) /\ DOMAIN p = 1 .. n
  OBVIOUS
<1>3. p \in [1 .. n -> T]
  <2>1. \A i \in 1 .. n : p[i] \in T
    BY <1>1, <1>2
  <2>2. p = [i \in 1 .. n |-> p[i]]
    BY <1>2
  <2>. QED
    BY <2>1, <2>2
<1>4. p \in Seq(T)
  BY <1>3
<1>. QED
  BY <1>1, <1>2, <1>4 DEF IsList

LEMMA ListIs ==
    ASSUME NEW p, IsList(p)
    PROVE  /\ \E S : p \in Seq(S)
           /\ Len(p) \in Nat /\ DOMAIN p = 1 .. Len(p)
<1>1. PICK S : p \in Seq(S)
  BY DEF IsList
<1>. QED
  BY <1>1, ListOf

LEMMA JoinedLists ==
    ASSUME NEW s, NEW t, IsList(s), IsList(t)
    PROVE  /\ IsList(s \o t)
           /\ Len(s \o t) = Len(s) + Len(t)
           /\ \A i \in 1 .. Len(s) : (s \o t)[i] = s[i]
           /\ \A i \in 1 .. Len(t) : (s \o t)[Len(s) + i] = t[i]
<1>1. PICK S : s \in Seq(S)
  BY ListIs
<1>2. PICK T : t \in Seq(T)
  BY ListIs
<1>. DEFINE X == S \cup T
<1>3. s \in Seq(X) /\ t \in Seq(X)
  BY <1>1, <1>2
<1>. HIDE DEF X
<1>4. s \o t \in Seq(X)
  BY <1>3
<1>5. IsList(s \o t)
  BY <1>4, ListOf
<1>. QED
  BY <1>3, <1>5

LEMMA JoinedElements ==
    ASSUME NEW s, NEW t, IsList(s), IsList(t), NEW k \in DOMAIN (s \o t)
    PROVE  \/ k \in DOMAIN s /\ (s \o t)[k] = s[k]
           \/ /\ k > Len(s)
              /\ k - Len(s) \in DOMAIN t
              /\ (s \o t)[k] = t[k - Len(s)]
<1>1. /\ Len(s) \in Nat /\ DOMAIN s = 1 .. Len(s)
      /\ Len(t) \in Nat /\ DOMAIN t = 1 .. Len(t)
  BY ListIs
<1>2. k \in 1 .. Len(s) + Len(t)
  <2>1. Len(s \o t) = Len(s) + Len(t) /\ DOMAIN (s \o t) = 1 .. Len(s \o t)
    BY JoinedLists, ListIs
  <2>. QED
    BY <2>1
<1>3. CASE k <= Len(s)
  BY <1>1, <1>2, <1>3, JoinedLists
<1>4. CASE k > Len(s)
  <2>1. k - Len(s) \in 1 .. Len(t) /\ Len(s) + (k - Len(s)) = k
    BY <1>1, <1>2, <1>4
  <2>2. (s \o t)[Len(s) + (k - Len(s))] = t[k - Len(s)]
    BY <2>1, JoinedLists
  <2>. QED
    BY <1>1, <1>4, <2>1, <2>2
<1>. QED
  BY <1>1, <1>2, <1>3, <1>4

LEMMA JoinedProper ==
    ASSUME NEW s, NEW t, NEW f, Proper(s, f), Proper(t, f)
    PROVE  Proper(s \o t, f)
<1>1. IsList(s) /\ IsList(t)
  BY DEF Proper
<1>2. \A k \in DOMAIN (s \o t) : Belongs((s \o t)[k], f)
  BY <1>1, JoinedElements DEF Proper
<1>. QED
  BY <1>1, <1>2, JoinedLists DEF Proper

LEMMA ShortLists ==
    \A a, b, c, d, e, f :
        /\ Proper(<<>>, f)
        /\ Belongs(a, f) =>
              /\ Proper(<<a>>, f)
              /\ Belongs(b, f) =>
                    /\ Proper(<<a, b>>, f)
                    /\ Belongs(c, f) =>
                          /\ Proper(<<a, b, c>>, f)
                          /\ Belongs(d, f) /\ Belongs(e, f)
                                => Proper(<<a, b, c, d, e>>, f)
<1>. TAKE a, b, c, d, e, f
<1>1. <<>> \in Seq({})
  OBVIOUS
<1>2. <<a>> \in Seq({a})
  OBVIOUS
<1>3. <<a, b>> \in Seq({a, b})
  OBVIOUS
<1>4. <<a, b, c>> \in Seq({a, b, c})
  OBVIOUS
<1>5. <<a, b, c, d, e>> \in Seq({a, b, c, d, e})
  OBVIOUS
<1>6. /\ IsList(<<>>) /\ IsList(<<a>>) /\ IsList(<<a, b>>)
      /\ IsList(<<a, b, c>>) /\ IsList(<<a, b, c, d, e>>)
  BY <1>1, <1>2, <1>3, <1>4, <1>5, ListOf
<1>7. Proper(<<>>, f)
  BY <1>6 DEF Proper
<1>8. Belongs(a, f) => Proper(<<a>>, f)
  BY <1>6 DEF Proper
<1>9. Belongs(a, f) /\ Belongs(b, f) => Proper(<<a, b>>, f)
  BY <1>6 DEF Proper
<1>10. Belongs(a, f) /\ Belongs(b, f) /\ Belongs(c, f) => Proper(<<a, b, c>>, f)
  BY <1>6 DEF Proper
<1>11. /\ Belongs(a, f) /\ Belongs(b, f) /\ Belongs(c, f) /\ Belongs(d, f) /\ Belongs(e, f)
       => Proper(<<a, b, c, d, e>>, f)
  BY <1>6 DEF Proper
<1>. QED
  BY <1>7, <1>8, <1>9, <1>10, <1>11

LEMMA CommandBelongs ==
    ASSUME NEW f, NEW do, NEW item, NEW otherwise, NEW skip \in Nat,
           do = "apps:create" => f.kind = "create-app",
           do = "rm" => f.kind = "delete-app",
           do = "options" => f.kind # "delete-app"
    PROVE  Belongs(A!Command(do, f.app, item, otherwise, skip), f)
  BY DEF Belongs, A!Command

(***************************************************************************)
(* The list of every request is proper.                                    *)
(***************************************************************************)
ServiceCommandsOf(f) ==
    {A!Command(do, f.app, s, "tell", skip) :
        do \in {"unnamed", "create", "link"}, s \in STRING \X STRING, skip \in {0, 1}}

ServiceLists(f) == [i \in DOMAIN f.services |-> A!ServiceCommands(f.app, f.services[i])]

LEMMA ServiceListsAreLists ==
    ASSUME NEW f \in Forms, f.kind = "create-app"
    PROVE  /\ ServiceLists(f) \in Seq(Seq(ServiceCommandsOf(f)))
           /\ \A c \in ServiceCommandsOf(f) :
                 Belongs(c, f) /\ c.do \in {"unnamed", "create", "link"} /\ c.otherwise = "tell"
<1>. DEFINE Commands == ServiceCommandsOf(f)
            lists == ServiceLists(f)
<1>1. f.services \in Seq(STRING \X STRING)
  BY FormsAssumption DEF FormsTypeOK
<1>2. \A s \in STRING \X STRING : A!ServiceCommands(f.app, s) \in Seq(Commands)
  <2>1. TAKE s \in STRING \X STRING
  <2>2. /\ A!Command("unnamed", f.app, s, "tell", 0) \in Commands
        /\ A!Command("create", f.app, s, "tell", 1) \in Commands
        /\ A!Command("link", f.app, s, "tell", 0) \in Commands
    BY DEF ServiceCommandsOf
  <2>. HIDE DEF Commands
  <2>. QED
    BY <2>2 DEF A!ServiceCommands, A!Tell
<1>3. \A c \in Commands :
         Belongs(c, f) /\ c.do \in {"unnamed", "create", "link"} /\ c.otherwise = "tell"
  <2>1. TAKE c \in Commands
  <2>2. PICK do \in {"unnamed", "create", "link"}, s \in STRING \X STRING, skip \in {0, 1} :
           c = A!Command(do, f.app, s, "tell", skip)
    BY DEF ServiceCommandsOf
  <2>3. skip \in Nat /\ do \notin {"apps:create", "rm", "options"}
    OBVIOUS
  <2>4. Belongs(A!Command(do, f.app, s, "tell", skip), f)
    BY <2>3, CommandBelongs
  <2>5. c.do = do /\ c.otherwise = "tell"
    BY <2>2 DEF A!Command
  <2>. QED
    BY <2>2, <2>4, <2>5
<1>. HIDE DEF Commands
<1>4. lists \in Seq(Seq(Commands))
  <2>1. PICK n \in Nat : f.services \in [1 .. n -> STRING \X STRING]
    BY <1>1
  <2>2. DOMAIN f.services = 1 .. n /\ \A i \in 1 .. n : f.services[i] \in STRING \X STRING
    BY <2>1
  <2>3. lists = [i \in 1 .. n |-> A!ServiceCommands(f.app, f.services[i])]
    BY <2>2 DEF ServiceLists
  <2>4. \A i \in 1 .. n : A!ServiceCommands(f.app, f.services[i]) \in Seq(Commands)
    BY <1>2, <2>2
  <2>. HIDE DEF lists
  <2>5. lists \in [1 .. n -> Seq(Commands)]
    BY <2>3, <2>4
  <2>. QED
    BY <2>5
<1>. QED
  BY <1>3, <1>4 DEF Commands

LEMMA ServicesProper ==
    ASSUME NEW f \in Forms, f.kind = "create-app"
    PROVE  /\ A!FlattenSeq(ServiceLists(f)) \in Seq(ServiceCommandsOf(f))
           /\ Proper(A!FlattenSeq(ServiceLists(f)), f)
<1>1. PICK Commands : Commands = ServiceCommandsOf(f)
  OBVIOUS
<1>2. PICK lists : lists = ServiceLists(f)
  OBVIOUS
<1>3. lists \in Seq(Seq(Commands)) /\ \A c \in Commands : Belongs(c, f)
  BY <1>1, <1>2, ServiceListsAreLists
<1>4. PICK flat : flat = A!FlattenSeq(lists)
  OBVIOUS
<1>5. flat \in Seq(Commands)
  <2>1. CASE lists = <<>>
    BY <1>4, <2>1 DEF A!FlattenSeq
  <2>2. CASE lists # <<>>
    <3>1. \A s, t \in Seq(Commands) : s \o t \in Seq(Commands)
      OBVIOUS
    <3>. QED
      BY <1>3, <1>4, <2>2, <3>1, FlattenedStays
  <2>. QED
    BY <2>1, <2>2
<1>6. Proper(flat, f)
  BY <1>3, <1>5, ListOf DEF Proper
<1>. QED
  BY <1>1, <1>2, <1>4, <1>5, <1>6

(***************************************************************************)
(* The commands for the services of a deletion: their failures are passed  *)
(* over, and what such a failure leaves out is one of these commands.      *)
(***************************************************************************)
PassesOver(p, f) ==
    /\ IsList(p)
    /\ \A i \in DOMAIN p : /\ Belongs(p[i], f)
                           /\ p[i].do # "rm"
                           /\ p[i].otherwise # "stop"
                           /\ i + p[i].skip <= Len(p)

LEMMA JoinedPassesOver ==
    ASSUME NEW s, NEW t, NEW f, PassesOver(s, f), PassesOver(t, f)
    PROVE  PassesOver(s \o t, f)
<1>1. IsList(s) /\ IsList(t)
  BY DEF PassesOver
<1>2. /\ Len(s) \in Nat /\ DOMAIN s = 1 .. Len(s)
      /\ Len(t) \in Nat /\ DOMAIN t = 1 .. Len(t)
      /\ IsList(s \o t) /\ Len(s \o t) = Len(s) + Len(t)
  BY <1>1, ListIs, JoinedLists
<1>3. ASSUME NEW k \in DOMAIN (s \o t)
      PROVE  LET c == (s \o t)[k] IN
             /\ Belongs(c, f) /\ c.do # "rm" /\ c.otherwise # "stop"
             /\ k + c.skip <= Len(s) + Len(t)
  <2>1. CASE k \in DOMAIN s /\ (s \o t)[k] = s[k]
    <3>1. s[k].skip \in Nat /\ k + s[k].skip <= Len(s)
      BY <2>1 DEF PassesOver, Belongs
    <3>2. k + s[k].skip <= Len(s) + Len(t)
      BY <1>2, <2>1, <3>1
    <3>. QED
      BY <2>1, <3>2 DEF PassesOver
  <2>2. CASE /\ k > Len(s)
             /\ k - Len(s) \in DOMAIN t
             /\ (s \o t)[k] = t[k - Len(s)]
    <3>. DEFINE j == k - Len(s)
    <3>1. k = Len(s) + j /\ j \in Nat
      <4>1. k \in Nat
        BY <1>2, ListIs
      <4>. QED
        BY <1>2, <2>2, <4>1
    <3>2. j \in DOMAIN t /\ (s \o t)[k] = t[j]
      BY <2>2
    <3>. HIDE DEF j
    <3>3. t[j].skip \in Nat /\ j + t[j].skip <= Len(t)
      BY <3>2 DEF PassesOver, Belongs
    <3>4. k + t[j].skip <= Len(s) + Len(t)
      BY <1>2, <3>1, <3>3
    <3>. QED
      BY <3>2, <3>4 DEF PassesOver
  <2>. QED
    BY <1>1, <2>1, <2>2, JoinedElements
<1>. QED
  BY <1>2, <1>3 DEF PassesOver

LEMMA RemovalPassesOver ==
    ASSUME NEW f, NEW service
    PROVE  /\ PassesOver(A!RemoveService(f.app, service), f)
           /\ PassesOver(<<A!Pass("info", f.app, service, 2)>>
                            \o A!RemoveService(f.app, service), f)
<1>. DEFINE info == A!Pass("info", f.app, service, 2)
            unlink == A!Pass("unlink", f.app, service, 0)
            destroy == A!Pass("destroy", f.app, service, 0)
<1>1. /\ Belongs(info, f) /\ info.skip = 2 /\ info.do # "rm" /\ info.otherwise # "stop"
      /\ Belongs(unlink, f) /\ unlink.skip = 0 /\ unlink.do # "rm"
      /\ unlink.otherwise # "stop"
      /\ Belongs(destroy, f) /\ destroy.skip = 0 /\ destroy.do # "rm"
      /\ destroy.otherwise # "stop"
  BY DEF Belongs, A!Pass, A!Command
<1>2. A!RemoveService(f.app, service) = <<unlink, destroy>>
  BY DEF A!RemoveService
<1>. HIDE DEF info, unlink, destroy
<1>3. Proper(<<info>>, f) /\ Proper(<<unlink, destroy>>, f)
  BY <1>1, ShortLists
<1>4. PassesOver(<<unlink, destroy>>, f)
  BY <1>1, <1>3 DEF PassesOver, Proper
<1>. DEFINE s == <<info>>
            t == <<unlink, destroy>>
<1>5. Len(s) = 1 /\ DOMAIN s = {1} /\ s[1] = info /\ Len(t) = 2
  OBVIOUS
<1>6. Proper(s, f) /\ PassesOver(t, f)
  BY <1>3, <1>4
<1>. HIDE DEF s, t
<1>7. PassesOver(s \o t, f)
  <2>1. IsList(s) /\ IsList(t)
    BY <1>6 DEF Proper, PassesOver
  <2>2. IsList(s \o t) /\ Len(s \o t) = 3
    BY <1>5, <2>1, JoinedLists
  <2>3. ASSUME NEW k \in DOMAIN (s \o t)
        PROVE  LET c == (s \o t)[k] IN
               Belongs(c, f) /\ c.do # "rm" /\ c.otherwise # "stop" /\ k + c.skip <= 3
    <3>1. CASE k \in DOMAIN s /\ (s \o t)[k] = s[k]
      BY <1>1, <1>5, <3>1
    <3>2. CASE /\ k > Len(s)
               /\ k - Len(s) \in DOMAIN t
               /\ (s \o t)[k] = t[k - Len(s)]
      <4>1. /\ Belongs(t[k - 1], f) /\ t[k - 1].do # "rm"
            /\ t[k - 1].otherwise # "stop"
            /\ (k - 1) + t[k - 1].skip <= 2
        BY <1>5, <1>6, <3>2 DEF PassesOver
      <4>2. t[k - 1].skip \in Nat /\ k \in Nat
        BY <2>2, <4>1, ListIs DEF Belongs
      <4>. QED
        BY <1>5, <3>2, <4>1, <4>2
    <3>. QED
      BY <2>1, <3>1, <3>2, JoinedElements
  <2>. QED
    BY <2>2, <2>3 DEF PassesOver
<1>. QED
  BY <1>2, <1>4, <1>7 DEF info, s, t

LEMMA DefaultServicesPassOver ==
    ASSUME NEW f
    PROVE  PassesOver(A!RemoveDefaultServices(f.app), f)
<1>. DEFINE Item(i) == <<A!DatabaseTypes[i], DefaultName[f.app]>>
            List(i) == <<A!Pass("info", f.app, Item(i), 2)>> \o A!RemoveService(f.app, Item(i))
            lists == [i \in DOMAIN A!DatabaseTypes |-> List(i)]
            Elements == UNION {{List(i)[k] : k \in DOMAIN List(i)} : i \in 1 .. 4}
            Lists == {p \in Seq(Elements) : PassesOver(p, f)}
<1>1. A!RemoveDefaultServices(f.app) = A!FlattenSeq(lists)
  BY DEF A!RemoveDefaultServices
<1>2. DOMAIN A!DatabaseTypes = 1 .. 4
  BY DEF A!DatabaseTypes
<1>3. \A i \in 1 .. 4 : PassesOver(List(i), f)
  BY RemovalPassesOver
<1>4. \A i \in 1 .. 4 : List(i) \in Lists
  <2>1. TAKE i \in 1 .. 4
  <2>. HIDE DEF List
  <2>2. \A k \in DOMAIN List(i) : List(i)[k] \in Elements
    OBVIOUS
  <2>. HIDE DEF Elements
  <2>3. PICK p : p = List(i) /\ PassesOver(p, f) /\ IsList(p)
    BY <1>3 DEF PassesOver
  <2>4. p \in Seq(Elements)
    BY <2>2, <2>3, ListIs
  <2>5. p \in Lists
    BY <2>3, <2>4
  <2>. HIDE DEF Lists
  <2>6. p = List(i)
    BY <2>3
  <2>. QED
    BY <2>5, <2>6, Zenon
<1>5. \A s, t \in Lists : s \o t \in Lists
  <2>. HIDE DEF Elements
  <2>1. TAKE s, t \in Lists
  <2>2. s \o t \in Seq(Elements)
    OBVIOUS
  <2>. QED
    BY <2>2, JoinedPassesOver
<1>6. lists = [i \in 1 .. 4 |-> List(i)]
  BY <1>2
<1>. HIDE DEF Lists, List
<1>7. lists \in Seq(Lists) /\ lists # <<>>
  BY <1>4, <1>6
<1>. HIDE DEF lists
<1>8. A!FlattenSeq(lists) \in Lists
  BY <1>5, <1>7, FlattenedStays
<1>. QED
  BY <1>1, <1>8 DEF Lists

LEMMA DeletionProper ==
    ASSUME NEW f \in Forms, f.kind = "delete-app"
    PROVE  /\ Proper(A!Plan(f), f)
           /\ Deletes(A!Plan(f), f)
           /\ ~(Len(A!Plan(f)) = 1 /\ A!Plan(f)[1].do = "rm")
<1>. DEFINE look == A!Stop("config", f.app, A!Nothing)
            destroy == A!Stop("apps:destroy", f.app, A!Nothing)
            rm == A!Stop("rm", f.app, A!Nothing)
            services == A!RemoveDefaultServices(f.app)
            database == A!If(f.deleteDb, <<look>> \o services)
            data == A!If(f.deleteData, <<rm>>)
<1>1. A!Plan(f) = database \o <<destroy>> \o data
  BY DEF A!Plan, A!DeleteApp
<1>2. /\ Belongs(look, f) /\ look.do = "config"
      /\ Belongs(destroy, f) /\ destroy.do = "apps:destroy"
      /\ Belongs(rm, f) /\ rm.do = "rm"
      /\ look.otherwise = "stop" /\ destroy.otherwise = "stop" /\ rm.otherwise = "stop"
  BY DEF Belongs, A!Stop, A!Command
<1>3. PassesOver(services, f)
  BY DefaultServicesPassOver
<1>4. /\ Proper(<<>>, f) /\ Proper(<<look>>, f)
      /\ Proper(<<destroy>>, f) /\ Proper(<<rm>>, f)
  BY <1>2, ShortLists
<1>. HIDE DEF look, destroy, rm, services
<1>5. /\ Proper(database, f)
      /\ \A i \in DOMAIN database :
            /\ database[i].do # "rm"
            /\ database[i].otherwise = "stop" => database[i].do = "config"
            /\ database[i].otherwise # "stop" => i + database[i].skip <= Len(database)
  <2>1. CASE f.deleteDb
    <3>1. database = <<look>> \o services
      BY <2>1 DEF A!If
    <3>. DEFINE first == <<look>>
    <3>2. Proper(first, f) /\ Len(first) = 1 /\ DOMAIN first = {1} /\ first[1] = look
      BY <1>4
    <3>. HIDE DEF first
    <3>3. Proper(services, f)
      BY <1>3 DEF PassesOver, Proper
    <3>4. IsList(first) /\ IsList(services)
      BY <3>2, <3>3 DEF Proper
    <3>5. Len(first \o services) = 1 + Len(services) /\ Len(services) \in Nat
      <4>1. Len(first \o services) = Len(first) + Len(services)
        BY <3>4, JoinedLists
      <4>2. Len(services) \in Nat
        BY <3>4, ListIs
      <4>. QED
        BY <3>2, <4>1, <4>2
    <3>6. ASSUME NEW i \in DOMAIN (first \o services)
          PROVE  LET c == (first \o services)[i] IN
                 /\ c.do # "rm"
                 /\ c.otherwise = "stop" => c.do = "config"
                 /\ c.otherwise # "stop" => i + c.skip <= 1 + Len(services)
      <4>1. CASE i \in DOMAIN first /\ (first \o services)[i] = first[i]
        BY <1>2, <3>2, <4>1
      <4>2. CASE /\ i > Len(first)
                 /\ i - Len(first) \in DOMAIN services
                 /\ (first \o services)[i] = services[i - Len(first)]
        <5>1. /\ Belongs(services[i - 1], f) /\ services[i - 1].do # "rm"
              /\ services[i - 1].otherwise # "stop"
              /\ (i - 1) + services[i - 1].skip <= Len(services)
          BY <1>3, <3>2, <4>2 DEF PassesOver
        <5>2. services[i - 1].skip \in Nat /\ i \in Nat
          BY <3>4, <5>1, JoinedLists, ListIs DEF Belongs
        <5>. QED
          BY <3>2, <3>5, <4>2, <5>1, <5>2
      <4>. QED
        BY <3>4, <4>1, <4>2, JoinedElements
    <3>7. Proper(first \o services, f)
      BY <3>2, <3>3, JoinedProper
    <3>. QED
      BY <3>1, <3>5, <3>6, <3>7 DEF first
  <2>2. CASE ~f.deleteDb
    BY <1>4, <2>2 DEF A!If
  <2>. QED
    BY <2>1, <2>2
<1>. DEFINE last == <<destroy>>
            start == database \o last
<1>6. Proper(last, f) /\ Len(last) = 1 /\ last[1] = destroy
  BY <1>4
<1>. HIDE DEF database, last
<1>7. IsList(database) /\ IsList(last) /\ Proper(start, f)
  BY <1>5, <1>6, JoinedProper DEF Proper
<1>8. /\ Len(database) \in Nat /\ DOMAIN database = 1 .. Len(database)
      /\ IsList(start) /\ Len(start) = Len(database) + 1
      /\ DOMAIN start = 1 .. Len(database) + 1
  <2>1. IsList(start) /\ Len(start) = Len(database) + Len(last)
    BY <1>7, JoinedLists
  <2>2. Len(database) \in Nat /\ DOMAIN database = 1 .. Len(database)
    BY <1>7, ListIs
  <2>3. DOMAIN start = 1 .. Len(start)
    BY <2>1, ListIs
  <2>. HIDE DEF start
  <2>. QED
    BY <1>6, <2>1, <2>2, <2>3
<1>9. /\ \A i \in 1 .. Len(database) : start[i] = database[i]
      /\ start[Len(database) + 1] = destroy
  BY <1>6, <1>7, <1>8, JoinedLists
<1>10. \A i \in DOMAIN start :
          /\ start[i].do # "rm"
          /\ start[i].otherwise = "stop" => start[i].do \in {"config", "apps:destroy"}
          /\ start[i].otherwise # "stop" => i + start[i].skip < Len(start)
  <2>1. TAKE i \in DOMAIN start
  <2>2. CASE i = Len(database) + 1
    BY <1>2, <1>9, <2>2
  <2>3. CASE i \in 1 .. Len(database)
    <3>1. start[i] = database[i] /\ i \in DOMAIN database
      BY <1>8, <1>9, <2>3
    <3>2. database[i].skip \in Nat
      BY <1>5, <3>1 DEF Proper, Belongs
    <3>. QED
      BY <1>5, <1>8, <2>3, <3>1, <3>2
  <2>. QED
    BY <1>8, <2>2, <2>3
<1>. HIDE DEF start
<1>11. CASE ~f.deleteData
  <2>. DEFINE p == start \o <<>>
  <2>1. A!Plan(f) = p /\ Proper(p, f)
    BY <1>1, <1>4, <1>7, <1>11, JoinedProper DEF A!If, start, last
  <2>2. IsList(<<>>) /\ DOMAIN <<>> = {}
    BY <1>4 DEF Proper
  <2>3. \A i \in DOMAIN p : i \in DOMAIN start /\ p[i] = start[i]
    BY <1>8, <2>2, JoinedElements
  <2>. HIDE DEF p
  <2>4. Deletes(p, f)
    BY <1>10, <2>3 DEF Deletes
  <2>5. Len(p) = 1 => 1 \in DOMAIN p
    BY <2>1, ListIs DEF Proper
  <2>. QED
    BY <1>10, <2>1, <2>3, <2>4, <2>5
<1>12. CASE f.deleteData
  <2>. DEFINE end == <<rm>>
              p == start \o end
              n == Len(database) + 2
  <2>1. Proper(end, f) /\ Len(end) = 1 /\ end[1] = rm
    BY <1>4
  <2>2. A!Plan(f) = p
    BY <1>1, <1>12 DEF A!If, start, last
  <2>. HIDE DEF end
  <2>3. Proper(p, f) /\ IsList(end)
    BY <1>7, <2>1, JoinedProper DEF Proper
  <2>4. Len(p) = n /\ DOMAIN p = 1 .. n /\ n \in Nat
    <3>1. IsList(p) /\ Len(p) = Len(start) + Len(end)
      BY <1>8, <2>3, JoinedLists
    <3>2. DOMAIN p = 1 .. Len(p)
      BY <3>1, ListIs
    <3>. HIDE DEF p
    <3>. QED
      BY <1>8, <2>1, <3>1, <3>2
  <2>5. /\ \A i \in 1 .. n - 1 : p[i] = start[i] /\ i \in DOMAIN start
        /\ p[n] = rm
    BY <1>8, <2>1, <2>3, JoinedLists
  <2>6. p[n - 1] = destroy
    BY <1>8, <1>9, <2>5
  <2>. HIDE DEF p
  <2>7. \A i \in DOMAIN p : i = n \/ i \in 1 .. n - 1
    BY <2>4
  <2>8. \A i \in DOMAIN p : p[i].otherwise = "stop" => p[i].do \in {"config", "apps:destroy", "rm"}
    BY <1>2, <1>10, <2>5, <2>7
  <2>9. \A i \in DOMAIN p : p[i].do = "rm" => i = n
    BY <1>10, <2>5, <2>7
  <2>10. \A j \in DOMAIN p : p[j].otherwise # "stop" => j + 1 + p[j].skip < n
    <3>1. TAKE j \in DOMAIN p
    <3>2. CASE j = n
      BY <1>2, <2>5, <3>2
    <3>3. CASE j \in 1 .. n - 1
      <4>1. p[j].skip \in Nat
        BY <2>3 DEF Proper, Belongs
      <4>. QED
        BY <1>8, <1>10, <2>5, <3>3, <4>1
    <3>. QED
      BY <2>7, <3>2, <3>3
  <2>11. \A j \in DOMAIN p : j + 1 = n => p[j].do = "apps:destroy"
    BY <1>2, <2>4, <2>6
  <2>12. Deletes(p, f)
    BY <2>4, <2>8, <2>9, <2>10, <2>11 DEF Deletes
  <2>13. Len(p) # 1
    BY <1>8, <2>4
  <2>. QED
    BY <2>2, <2>3, <2>12, <2>13
<1>. QED
  BY <1>11, <1>12

LEMMA PlanProper ==
    ASSUME NEW f \in Forms
    PROVE  Proper(A!Plan(f), f)
<1>. USE ShortLists, CommandBelongs
<1>1. CASE f.kind = "create-app"
  <2>. DEFINE flat == A!FlattenSeq(ServiceLists(f))
              first == <<A!Stop("apps:create", f.app, A!Nothing)>>
              env == A!If("env" \in f.wants, A!EnvCommands(f.app))
              domain == A!If("domain" \in f.wants, A!DomainCommands(f.app))
              port == A!If("port" \in f.wants, A!PortCommands(f.app))
              ssl == A!If({"domain", "ssl"} \subseteq f.wants, A!SSLCommands(f.app))
              mount == A!If("mount" \in f.wants, A!MountCommands(f.app))
              image == A!If("image" \in f.wants, A!ImageCommands(f.app))
  <2>1. Proper(flat, f)
    BY <1>1, ServicesProper
  <2>2. Proper(first, f)
    BY <1>1 DEF A!Stop
  <2>3. Proper(env, f)
    BY DEF A!If, A!EnvCommands, A!Tell
  <2>4. Proper(domain, f)
    BY DEF A!If, A!DomainCommands, A!Tell, A!Log
  <2>5. Proper(port, f)
    BY DEF A!If, A!PortCommands, A!Tell
  <2>6. Proper(ssl, f)
    BY DEF A!If, A!SSLCommands, A!Tell
  <2>7. Proper(mount, f)
    BY DEF A!If, A!MountCommands, A!Tell, A!Log
  <2>8. Proper(image, f)
    BY DEF A!If, A!ImageCommands, A!Tell
  <2>9. A!Plan(f) = first \o flat \o env \o domain \o port \o ssl \o mount \o image
    BY <1>1 DEF A!Plan, A!CreateApp, ServiceLists
  <2>. HIDE DEF flat, first, env, domain, port, ssl, mount, image
  <2>10. Proper(first \o flat \o env \o domain, f)
    BY <2>1, <2>2, <2>3, <2>4, JoinedProper
  <2>11. Proper(first \o flat \o env \o domain \o port \o ssl, f)
    BY <2>5, <2>6, <2>10, JoinedProper
  <2>. QED
    BY <2>7, <2>8, <2>9, <2>11, JoinedProper
<1>2. CASE f.kind = "delete-app"
  BY <1>2, DeletionProper
<1>3. CASE f.kind \in SetOrUnset \ {"nginx"}
  <2>0. \/ f.kind = "config" \/ f.kind = "port" \/ f.kind = "redirect"
        \/ f.kind = "scale" \/ f.kind = "procfile" \/ f.kind = "restart-policy"
    BY <1>3 DEF SetOrUnset
  <2>1. f.do \in {"set", "unset"}
    BY <1>3, FormsAssumption DEF FormsTypeOK
  <2>2. \E item : A!Plan(f) = <<A!Command(f.do, f.app, item, "stop", 0)>>
    <3>1. CASE f.kind = "config"
      BY <3>1 DEF A!Plan, A!SetConfig, A!Stop
    <3>2. CASE f.kind = "port"
      BY <3>2 DEF A!Plan, A!SetPort, A!Stop
    <3>3. CASE f.kind = "redirect"
      BY <3>3 DEF A!Plan, A!SetRedirect, A!Stop
    <3>4. CASE f.kind = "scale"
      BY <3>4 DEF A!Plan, A!ScaleApp, A!Stop
    <3>5. CASE f.kind = "procfile"
      BY <3>5 DEF A!Plan, A!SetProcfilePath, A!Stop
    <3>6. CASE f.kind = "restart-policy"
      BY <3>6 DEF A!Plan, A!SetRestartPolicy, A!Stop
    <3>. QED
      BY <2>0, <3>1, <3>2, <3>3, <3>4, <3>5, <3>6, Zenon
  <2>3. PICK item, c : c = A!Command(f.do, f.app, item, "stop", 0) /\ A!Plan(f) = <<c>>
    BY <2>2
  <2>4. Belongs(c, f)
    BY <2>1, <2>3, CommandBelongs
  <2>. QED
    BY <2>3, <2>4, ShortLists
<1>4. CASE f.kind = "nginx"
  <2>1. f.do \in {"set", "unset"}
    BY <1>4, FormsAssumption DEF FormsTypeOK, SetOrUnset
  <2>2. A!Plan(f) = A!SetNginx(f)
    BY <1>4 DEF A!Plan
  <2>3. Proper(A!SetNginx(f), f)
    BY <1>4, <2>1 DEF A!SetNginx, A!Stop
  <2>. QED
    BY <2>2, <2>3
<1>5. CASE f.kind = "add-domain"
  <2>. DEFINE first == <<A!Stop("set", f.app, "domain")>>
              ssl == A!If(f.ssl, A!EnableSSL(f, "tell"))
  <2>1. Proper(first, f)
    BY <1>5 DEF A!Stop
  <2>2. Proper(ssl, f)
    BY DEF A!If, A!EnableSSL
  <2>3. A!Plan(f) = first \o ssl
    BY <1>5 DEF A!Plan, A!AddDomain
  <2>. HIDE DEF first, ssl
  <2>. QED
    BY <2>1, <2>2, <2>3, JoinedProper
<1>6. CASE f.kind = "remove-domain"
  <2>1. A!Plan(f) = A!RemoveDomain(f)
    BY <1>6 DEF A!Plan
  <2>2. Proper(A!RemoveDomain(f), f)
    BY <1>6 DEF A!RemoveDomain, A!Stop
  <2>. QED
    BY <2>1, <2>2
<1>7. CASE f.kind = "ssl"
  <2>1. A!Plan(f) = A!SSLEnable(f)
    BY <1>7 DEF A!Plan
  <2>2. Proper(A!SSLEnable(f), f)
    BY <1>7 DEF A!SSLEnable, A!EnableSSL, A!Stop
  <2>. QED
    BY <2>1, <2>2
<1>8. CASE f.kind = "mount"
  <2>1. A!Plan(f) = A!MountStorage(f)
    BY <1>8 DEF A!Plan
  <2>2. Proper(A!MountStorage(f), f)
    <3>1. /\ Belongs(A!Stop("mkdir", f.app, A!Nothing), f)
          /\ Belongs(A!Stop("mkdir", f.app, "source"), f)
          /\ Belongs(A!Stop("chown", f.app, "source"), f)
          /\ Belongs(A!Stop("chmod", f.app, "source"), f)
          /\ Belongs(A!Stop("set", f.app, "mount"), f)
      BY DEF A!Stop
    <3>. QED
      BY <3>1 DEF A!MountStorage
  <2>. QED
    BY <2>1, <2>2
<1>9. CASE f.kind = "unmount"
  <2>1. A!Plan(f) = A!UnmountStorage(f)
    BY <1>9 DEF A!Plan
  <2>2. Proper(A!UnmountStorage(f), f)
    BY <1>9 DEF A!UnmountStorage, A!Stop
  <2>. QED
    BY <2>1, <2>2
<1>10. CASE f.kind = "add-option"
  <2>1. A!Plan(f) = A!AddOption(f)
    BY <1>10 DEF A!Plan
  <2>2. Proper(A!AddOption(f), f)
    BY <1>10 DEF A!AddOption, A!Stop
  <2>. QED
    BY <2>1, <2>2
<1>11. CASE f.kind = "update-option"
  <2>1. A!Plan(f) = A!UpdateOption(f)
    BY <1>11 DEF A!Plan
  <2>2. Proper(A!UpdateOption(f), f)
    BY <1>11 DEF A!UpdateOption, A!Stop
  <2>. QED
    BY <2>1, <2>2
<1>12. CASE f.kind = "delete-option"
  <2>1. A!Plan(f) = A!DeleteOption(f)
    BY <1>12 DEF A!Plan
  <2>2. Proper(A!DeleteOption(f), f)
    BY <1>12 DEF A!DeleteOption, A!Stop
  <2>. QED
    BY <2>1, <2>2
<1>13. CASE f.kind = "limits"
  <2>1. A!Plan(f) = A!SetLimits(f)
    BY <1>13 DEF A!Plan
  <2>2. Proper(A!SetLimits(f), f)
    BY <1>13 DEF A!SetLimits, A!Stop
  <2>. QED
    BY <2>1, <2>2
<1>14. CASE f.kind = "create-service"
  <2>1. A!Plan(f) = A!CreateService(f)
    BY <1>14 DEF A!Plan
  <2>2. Proper(A!CreateService(f), f)
    BY <1>14 DEF A!CreateService, A!Stop
  <2>. QED
    BY <2>1, <2>2
<1>15. CASE f.kind = "link"
  <2>1. A!Plan(f) = A!LinkService(f)
    BY <1>15 DEF A!Plan
  <2>2. Proper(A!LinkService(f), f)
    BY <1>15 DEF A!LinkService, A!Stop
  <2>. QED
    BY <2>1, <2>2
<1>16. CASE f.kind = "unlink"
  <2>1. A!Plan(f) = A!UnlinkService(f)
    BY <1>16 DEF A!Plan
  <2>2. Proper(A!UnlinkService(f), f)
    BY <1>16 DEF A!UnlinkService, A!Stop
  <2>. QED
    BY <2>1, <2>2
<1>17. CASE f.kind = "delete-service"
  <2>1. A!Plan(f) = A!DeleteService(f)
    BY <1>17 DEF A!Plan
  <2>2. Proper(A!DeleteService(f), f)
    BY <1>17 DEF A!DeleteService, A!Stop
  <2>. QED
    BY <2>1, <2>2
<1>18. CASE f.kind = "service-config"
  <2>1. A!Plan(f) = A!SaveServiceConfig(f)
    BY <1>18 DEF A!Plan
  <2>2. Proper(A!SaveServiceConfig(f), f)
    BY <1>18 DEF A!SaveServiceConfig, A!Stop
  <2>. QED
    BY <2>1, <2>2
<1>19. CASE f.kind = "service-limits"
  <2>1. A!Plan(f) = A!LimitService(f)
    BY <1>19 DEF A!Plan
  <2>2. Proper(A!LimitService(f), f)
    BY <1>19 DEF A!LimitService, A!Stop
  <2>. QED
    BY <2>1, <2>2
<1>. QED
  BY <1>1, <1>2, <1>3, <1>4, <1>5, <1>6, <1>7, <1>8, <1>9, <1>10,
     <1>11, <1>12, <1>13, <1>14, <1>15, <1>16, <1>17, <1>18, <1>19,
     FormsAssumption DEF FormsTypeOK, SetOrUnset

(***************************************************************************)
(* What is left of a list fits as well.                                    *)
(***************************************************************************)
IsRest(q, p, k) ==
    /\ IsList(q)
    /\ Len(q) = IF k < Len(p) THEN Len(p) - k ELSE 0
    /\ \A i \in DOMAIN q : i + k \in DOMAIN p /\ q[i] = p[i + k]

LEMMA TailIsRest ==
    ASSUME NEW p, IsList(p), p # <<>>
    PROVE  IsRest(Tail(p), p, 1) /\ 1 \in DOMAIN p /\ Head(p) = p[1]
<1>1. PICK S : p \in Seq(S)
  BY ListIs
<1>2. Tail(p) \in Seq(S) /\ Len(p) \in Nat \ {0}
  BY <1>1
<1>3. IsList(Tail(p))
  BY <1>2, ListOf
<1>4. /\ Len(Tail(p)) = Len(p) - 1
      /\ \A i \in 1 .. Len(p) - 1 : Tail(p)[i] = p[i + 1]
  BY <1>1, <1>2
<1>5. DOMAIN Tail(p) = 1 .. Len(p) - 1 /\ DOMAIN p = 1 .. Len(p)
  BY <1>1, <1>2, <1>4
<1>. QED
  BY <1>1, <1>2, <1>3, <1>4, <1>5 DEF IsRest

LEMMA SubSeqIsRest ==
    ASSUME NEW p, IsList(p), NEW skip \in Nat
    PROVE  IsRest(SubSeq(p, 2 + skip, Len(p)), p, 1 + skip)
<1>. DEFINE k == 1 + skip
            q == SubSeq(p, k + 1, Len(p))
<1>1. PICK S : p \in Seq(S)
  BY ListIs
<1>2. Len(p) \in Nat /\ DOMAIN p = 1 .. Len(p) /\ k \in Nat
  BY <1>1
<1>3. q \in Seq(S)
  BY <1>1, <1>2
<1>4. Len(q) = IF k < Len(p) THEN Len(p) - k ELSE 0
  BY <1>1, <1>2
<1>5. \A i \in 1 .. Len(p) - k : q[i] = p[i + k]
  BY <1>1, <1>2
<1>6. IsList(q) /\ DOMAIN q = 1 .. Len(q)
  BY <1>3, ListOf
<1>7. 2 + skip = k + 1
  OBVIOUS
<1>. HIDE DEF q, k
<1>8. \A i \in DOMAIN q : i \in 1 .. Len(p) - k /\ i + k \in DOMAIN p
  <2>1. CASE k < Len(p)
    BY <1>2, <1>4, <1>6, <2>1
  <2>2. CASE ~(k < Len(p))
    <3>1. DOMAIN q = 1 .. 0
      BY <1>4, <1>6, <2>2
    <3>. QED
      BY <3>1
  <2>. QED
    BY <2>1, <2>2
<1>. QED
  BY <1>4, <1>5, <1>6, <1>7, <1>8 DEF IsRest, q, k

LEMMA RestFits ==
    ASSUME NEW p, NEW f, NEW q, NEW k \in Nat, Fits(p, f), IsRest(q, p, k)
    PROVE  Fits(q, f)
<1>1. Proper(q, f)
  BY DEF Fits, Proper, IsRest
<1>2. /\ Len(p) \in Nat /\ DOMAIN p = 1 .. Len(p)
      /\ Len(q) \in Nat /\ DOMAIN q = 1 .. Len(q)
  BY <1>1, ListIs DEF Fits, Proper
<1>3. ASSUME f.kind = "delete-app", NEW i \in DOMAIN q
      PROVE  /\ q[i].otherwise = "stop" => q[i].do \in {"config", "apps:destroy", "rm"}
             /\ q[i].do = "rm" =>
                   /\ i = Len(q)
                   /\ \A j \in DOMAIN q :
                         /\ q[j].otherwise # "stop" => j + 1 + q[j].skip < i
                         /\ j + 1 = i => q[j].do = "apps:destroy"
  <2>1. Deletes(p, f)
    BY <1>3 DEF Fits
  <2>2. i + k \in DOMAIN p /\ q[i] = p[i + k]
    BY DEF IsRest
  <2>3. q[i].otherwise = "stop" => q[i].do \in {"config", "apps:destroy", "rm"}
    BY <2>1, <2>2 DEF Deletes
  <2>4. ASSUME q[i].do = "rm"
        PROVE  i = Len(q)
    <3>1. i + k = Len(p)
      BY <2>1, <2>2, <2>4 DEF Deletes
    <3>2. Len(q) = IF k < Len(p) THEN Len(p) - k ELSE 0
      BY DEF IsRest
    <3>3. i \in Nat /\ i >= 1
      BY <1>2
    <3>4. k < Len(p)
      BY <1>2, <3>1, <3>3
    <3>. QED
      BY <1>2, <3>1, <3>2, <3>3, <3>4
  <2>5. ASSUME q[i].do = "rm", NEW j \in DOMAIN q
        PROVE  /\ q[j].otherwise # "stop" => j + 1 + q[j].skip < i
               /\ j + 1 = i => q[j].do = "apps:destroy"
    <3>1. j + k \in DOMAIN p /\ q[j] = p[j + k]
      BY DEF IsRest
    <3>2. /\ q[j].otherwise # "stop" => (j + k) + 1 + q[j].skip < i + k
          /\ (j + k) + 1 = i + k => q[j].do = "apps:destroy"
      BY <2>1, <2>2, <2>5, <3>1 DEF Deletes
    <3>3. q[j].skip \in Nat /\ j \in Nat /\ i \in Nat
      BY <1>1, <1>2 DEF Proper, Belongs
    <3>. QED
      BY <3>2, <3>3
  <2>. QED
    BY <2>3, <2>4, <2>5
<1>4. f.kind = "delete-app" => Deletes(q, f)
  BY <1>3 DEF Deletes
<1>. QED
  BY <1>1, <1>4 DEF Fits

(***************************************************************************)
(* The services the configuration names come before the rest.              *)
(***************************************************************************)
LEMMA ConfiguredPassesOver ==
    ASSUME NEW w, NEW f
    PROVE  PassesOver(A!RemoveConfigured(w, f.app), f)
<1>. DEFINE Named(u) == A!If(w.url[f.app][u] # A!NoService,
                             A!RemoveService(f.app, w.url[f.app][u]))
<1>1. A!RemoveConfigured(w, f.app) = Named("DATABASE_URL") \o Named("REDIS_URL")
  BY DEF A!RemoveConfigured
<1>2. PassesOver(<<>>, f)
  <2>1. IsList(<<>>)
    BY ShortLists DEF Proper
  <2>. QED
    BY <2>1 DEF PassesOver
<1>3. \A u : PassesOver(Named(u), f)
  <2>1. TAKE u
  <2>2. PassesOver(A!RemoveService(f.app, w.url[f.app][u]), f)
    BY RemovalPassesOver
  <2>. QED
    BY <1>2, <2>2 DEF A!If
<1>. HIDE DEF Named
<1>. QED
  BY <1>1, <1>3, JoinedPassesOver

LEMMA BlockFits ==
    ASSUME NEW f, NEW block, NEW rest, PassesOver(block, f), Fits(rest, f),
           \A i \in DOMAIN rest : rest[i].do = "rm" => i # 1
    PROVE  Fits(block \o rest, f)
<1>. DEFINE q == block \o rest
            m == Len(block)
<1>1. Proper(block, f) /\ Proper(rest, f)
  BY DEF PassesOver, Proper, Fits
<1>2. Proper(q, f) /\ IsList(block) /\ IsList(rest) /\ IsList(q)
  BY <1>1, JoinedProper DEF Proper
<1>3. Len(q) = m + Len(rest) /\ m \in Nat /\ Len(rest) \in Nat
  <2>1. Len(q) = m + Len(rest)
    BY <1>2, JoinedLists
  <2>. QED
    BY <1>2, <2>1, ListIs
<1>4. ASSUME NEW i \in DOMAIN q
      PROVE  \/ i \in DOMAIN block /\ q[i] = block[i]
             \/ i > m /\ i - m \in DOMAIN rest /\ q[i] = rest[i - m]
  BY <1>2, JoinedElements
<1>5. DOMAIN q = 1 .. Len(q) /\ DOMAIN rest = 1 .. Len(rest)
  BY <1>2, ListIs
<1>. HIDE DEF q, m
<1>6. ASSUME f.kind = "delete-app", NEW i \in DOMAIN q
      PROVE  /\ q[i].otherwise = "stop" => q[i].do \in {"config", "apps:destroy", "rm"}
             /\ q[i].do = "rm" =>
                   /\ i = Len(q)
                   /\ \A j \in DOMAIN q :
                         /\ q[j].otherwise # "stop" => j + 1 + q[j].skip < i
                         /\ j + 1 = i => q[j].do = "apps:destroy"
  <2>1. Deletes(rest, f)
    BY <1>6 DEF Fits
  <2>2. CASE i \in DOMAIN block /\ q[i] = block[i]
    BY <2>2 DEF PassesOver
  <2>3. CASE i > m /\ i - m \in DOMAIN rest /\ q[i] = rest[i - m]
    <3>1. q[i].otherwise = "stop" => q[i].do \in {"config", "apps:destroy", "rm"}
      BY <2>1, <2>3 DEF Deletes
    <3>2. ASSUME q[i].do = "rm"
          PROVE  i = Len(q)
      <4>1. i - m = Len(rest)
        BY <2>1, <2>3, <3>2 DEF Deletes
      <4>. QED
        BY <1>3, <1>5, <4>1
    <3>3. ASSUME q[i].do = "rm", NEW j \in DOMAIN q
          PROVE  /\ q[j].otherwise # "stop" => j + 1 + q[j].skip < i
                 /\ j + 1 = i => q[j].do = "apps:destroy"
      <4>1. i = m + Len(rest) /\ i - m \in DOMAIN rest
        BY <1>3, <2>3, <3>2, <3>3
      <4>2. CASE j \in DOMAIN block /\ q[j] = block[j]
        <5>1. q[j].skip \in Nat /\ j + q[j].skip <= m
          BY <4>2 DEF PassesOver, Belongs, m
        <5>2. i - m # 1 /\ j \in 1 .. m
          BY <1>2, <2>3, <3>3, <4>2, ListIs DEF m
        <5>3. i \in Nat /\ i >= m + 2
          BY <1>3, <1>5, <2>3, <5>2
        <5>. QED
          BY <1>3, <5>1, <5>2, <5>3
      <4>3. CASE j > m /\ j - m \in DOMAIN rest /\ q[j] = rest[j - m]
        <5>1. /\ q[j].otherwise # "stop" => (j - m) + 1 + q[j].skip < i - m
              /\ (j - m) + 1 = i - m => q[j].do = "apps:destroy"
          BY <2>1, <2>3, <3>3, <4>3 DEF Deletes
        <5>2. q[j].skip \in Nat
          BY <1>2 DEF Proper, Belongs
        <5>. QED
          BY <1>3, <1>5, <5>1, <5>2
      <4>. QED
        BY <1>4, <4>2, <4>3
    <3>. QED
      BY <3>1, <3>2, <3>3
  <2>. QED
    BY <1>4, <2>2, <2>3
<1>7. f.kind = "delete-app" => Deletes(q, f)
  BY <1>6 DEF Deletes
<1>. QED
  BY <1>2, <1>7 DEF Fits, q

LEMMA PlanFits ==
    ASSUME NEW f \in Forms
    PROVE  /\ Fits(A!Plan(f), f)
           /\ f.kind = "delete-app" => ~(Len(A!Plan(f)) = 1 /\ A!Plan(f)[1].do = "rm")
  BY PlanProper, DeletionProper DEF Fits

(***************************************************************************)
(* What a command does to the apps and the storage.                        *)
(***************************************************************************)
LEMMA AfterKeeps ==
    ASSUME NEW w, DOMAIN w = DokkuFields, NEW c
    PROVE  /\ DOMAIN A!After(w, c) = DokkuFields
           /\ \A app \in A!After(w, c).apps :
                 app \in w.apps \/ (c.do = "apps:create" /\ app = c.app)
           /\ c.do = "apps:destroy" => c.app \notin A!After(w, c).apps
           /\ \A app \in w.storage \ A!After(w, c).storage : c.do = "rm" /\ app = c.app
<1>. DEFINE v == A!After(w, c)
<1>. USE DEF DokkuFields
<1>1. CASE c.do = "apps:create"
  BY <1>1 DEF A!After
<1>2. CASE c.do = "apps:destroy"
  BY <1>2 DEF A!After, A!DestroyApp
<1>3. CASE c.do = "link"
  BY <1>3 DEF A!After, A!Link
<1>4. CASE c.do = "unlink"
  BY <1>4 DEF A!After, A!Unlink
<1>5. CASE c.do \in {"create", "destroy", "set", "unset"}
  BY <1>5 DEF A!After
<1>6. CASE c.do \in {"deploy", "apply"}
  BY <1>6 DEF A!After
<1>7. CASE c.do \in {"mkdir", "rm"}
  BY <1>7 DEF A!After
<1>8. CASE c.do \in {"write-conf", "restart"}
  BY <1>8 DEF A!After
<1>9. CASE c.do \notin {"apps:create", "apps:destroy", "link", "unlink", "create", "destroy",
                        "set", "unset", "deploy", "apply", "mkdir", "rm", "write-conf",
                        "restart"}
  BY <1>9 DEF A!After
<1>. QED
  BY <1>1, <1>2, <1>3, <1>4, <1>5, <1>6, <1>7, <1>8, <1>9

(***************************************************************************)
(* DeletionInv is inductive.                                               *)
(***************************************************************************)
LEMMA InitDeletion == A!Init => DeletionInv
<1>. SUFFICES ASSUME A!Init PROVE DeletionInv
  OBVIOUS
<1>1. DOMAIN dokku = DokkuFields
  BY DEF A!Init, DokkuFields
<1>2. failures \in [Requests -> Nat]
  BY DEF A!Init
<1>3. ASSUME NEW r \in Requests
      PROVE  /\ Fits(plan[r], asked[r])
             /\ asked[r].kind # "delete-app"
  <2>1. plan[r] = <<>> /\ asked[r].kind = "none"
    BY DEF A!Init, A!NoForm
  <2>2. Proper(<<>>, asked[r])
    BY ShortLists
  <2>. QED
    BY <2>1, <2>2 DEF Fits
<1>. QED
  BY <1>1, <1>2, <1>3 DEF DeletionInv, A!Init

LEMMA CommandRuns ==
    ASSUME DeletionInv, NEW r \in Requests, A!HasCommand(r)
    PROVE  /\ IsList(plan[r])
           /\ 1 \in DOMAIN plan[r]
           /\ A!Current(r) = plan[r][1]
           /\ IsRest(Tail(plan[r]), plan[r], 1)
           /\ Belongs(A!Current(r), asked[r])
<1>1. Proper(plan[r], asked[r]) /\ plan[r] # <<>>
  BY DEF DeletionInv, Fits, A!HasCommand
<1>2. IsList(plan[r])
  BY <1>1 DEF Proper
<1>. QED
  BY <1>1, <1>2, TailIsRest DEF Proper, A!Current

LEMMA CreatedStays ==
    ASSUME NEW app, A!IsCreated(app), asked' = asked
    PROVE  A!IsCreated(app)'
  BY DEF A!IsCreated

(***************************************************************************)
(* A request runs a command, or tries to, and has another list left.       *)
(***************************************************************************)
Runs(r, q) ==
    /\ A!HasCommand(r)
    /\ dokku' \in {dokku, A!After(dokku, A!Current(r))}
    /\ plan' = [plan EXCEPT ![r] = q]
    /\ asked' = asked
    /\ DOMAIN answer' = Requests
    /\ failures' \in [Requests -> Nat]
    /\ Fits(q, asked[r])
    /\ asked[r].kind = "delete-app" /\ Len(q) = 1 /\ q[1].do = "rm"
          => asked[r].app \notin dokku'.apps

LEMMA RunKeeps ==
    ASSUME DeletionInv, NEW r \in Requests, NEW q, Runs(r, q)
    PROVE  DeletionInv'
<1>. USE DEF Runs
<1>. DEFINE c == A!Current(r)
<1>1. Belongs(c, asked[r])
  BY CommandRuns
<1>2. /\ DOMAIN dokku' = DokkuFields
      /\ \A app \in dokku'.apps :
            app \in dokku.apps \/ (c.do = "apps:create" /\ app = c.app)
  <2>1. DOMAIN dokku = DokkuFields
    BY DEF DeletionInv
  <2>. QED
    BY <2>1, AfterKeeps
<1>3. /\ plan'[r] = q
      /\ \A p \in Requests : p # r => plan'[p] = plan[p]
      /\ DOMAIN plan' = Requests
  BY DEF DeletionInv
<1>4. \A p \in Requests : Fits(plan'[p], asked'[p])
  BY <1>3 DEF DeletionInv
<1>5. \A app : IsGone(app) => IsGone(app)'
  <2>1. TAKE app
  <2>2. SUFFICES ASSUME IsGone(app), app \in dokku'.apps PROVE A!IsCreated(app)'
    BY DEF IsGone
  <2>3. CASE app \in dokku.apps
    BY <2>2, <2>3, CreatedStays DEF IsGone
  <2>4. CASE c.do = "apps:create" /\ app = c.app
    <3>1. asked'[r].kind = "create-app" /\ asked'[r].app = app
      BY <1>1, <2>4 DEF Belongs
    <3>. QED
      BY <3>1 DEF A!IsCreated
  <2>. QED
    BY <1>2, <2>2, <2>3, <2>4
<1>6. \A p \in Requests : asked'[p].kind = "delete-app" => StorageIsLast(p)'
  <2>1. TAKE p \in Requests
  <2>2. SUFFICES ASSUME asked'[p].kind = "delete-app", Len(plan'[p]) = 1,
                        plan'[p][1].do = "rm"
                 PROVE  IsGone(asked[p].app)'
    BY DEF StorageIsLast
  <2>3. CASE p = r
    BY <1>3, <2>2, <2>3 DEF IsGone
  <2>4. CASE p # r
    <3>1. IsGone(asked[p].app)
      BY <1>3, <2>2, <2>4 DEF DeletionInv, StorageIsLast
    <3>2. asked'[p].app = asked[p].app
      OBVIOUS
    <3>. QED
      BY <1>5, <3>1, <3>2 DEF IsGone
  <2>. QED
    BY <2>3, <2>4
<1>. QED
  BY <1>2, <1>3, <1>4, <1>6 DEF DeletionInv

LEMMA StartKeeps ==
    ASSUME DeletionInv, NEW r \in Requests, NEW f \in Forms, A!Start(r, f)
    PROVE  DeletionInv'
<1>1. /\ asked[r] = A!NoForm
      /\ asked' = [asked EXCEPT ![r] = f]
      /\ plan' = [plan EXCEPT ![r] = A!Plan(f)]
      /\ dokku' = dokku /\ answer' = answer /\ failures' = failures
  BY DEF A!Start
<1>2. /\ asked'[r] = f /\ plan'[r] = A!Plan(f)
      /\ \A p \in Requests : p # r => asked'[p] = asked[p] /\ plan'[p] = plan[p]
      /\ DOMAIN asked' = Requests /\ DOMAIN plan' = Requests
  BY <1>1 DEF DeletionInv
<1>3. \A p \in Requests : Fits(plan'[p], asked'[p])
  BY <1>2, PlanFits DEF DeletionInv
<1>4. \A app : A!IsCreated(app) => A!IsCreated(app)'
  <2>1. TAKE app
  <2>2. SUFFICES ASSUME A!IsCreated(app) PROVE A!IsCreated(app)'
    OBVIOUS
  <2>3. PICK p \in Requests : asked[p].kind = "create-app" /\ asked[p].app = app
    BY <2>2 DEF A!IsCreated
  <2>4. p # r
    BY <1>1, <2>3 DEF A!NoForm
  <2>. QED
    BY <1>2, <2>3, <2>4 DEF A!IsCreated
<1>5. \A p \in Requests : asked'[p].kind = "delete-app" => StorageIsLast(p)'
  <2>1. TAKE p \in Requests
  <2>2. SUFFICES ASSUME asked'[p].kind = "delete-app", Len(plan'[p]) = 1,
                        plan'[p][1].do = "rm"
                 PROVE  IsGone(asked[p].app)'
    BY DEF StorageIsLast
  <2>3. p # r
    BY <1>2, <2>2, PlanFits
  <2>4. IsGone(asked[p].app)
    BY <1>2, <2>2, <2>3 DEF DeletionInv, StorageIsLast
  <2>. QED
    BY <1>1, <1>2, <1>4, <2>3, <2>4 DEF IsGone
<1>. QED
  BY <1>1, <1>2, <1>3, <1>5 DEF DeletionInv

LEMMA ReadConfigKeeps ==
    ASSUME DeletionInv, NEW r \in Requests, A!ReadConfig(r)
    PROVE  DeletionInv'
<1>. DEFINE block == A!RemoveConfigured(dokku, A!Current(r).app)
            rest == Tail(plan[r])
<1>1. /\ A!HasCommand(r) /\ A!Current(r).do = "config"
      /\ plan' = [plan EXCEPT ![r] = block \o rest]
      /\ dokku' = dokku /\ asked' = asked /\ answer' = answer /\ failures' = failures
  BY DEF A!ReadConfig
<1>2. IsRest(rest, plan[r], 1) /\ 1 \in DOMAIN plan[r] /\ A!Current(r) = plan[r][1]
  BY <1>1, CommandRuns
<1>3. A!Current(r).app = asked[r].app
  BY <1>1, CommandRuns DEF Belongs
<1>4. PassesOver(block, asked[r])
  BY <1>3, ConfiguredPassesOver
<1>5. /\ Fits(rest, asked[r])
      /\ \A i \in DOMAIN rest : rest[i].do = "rm" => i # 1
  <2>1. Fits(rest, asked[r])
    BY <1>2, RestFits DEF DeletionInv
  <2>2. ASSUME 1 \in DOMAIN rest, rest[1].do = "rm"
        PROVE  FALSE
    <3>1. 2 \in DOMAIN plan[r] /\ plan[r][2].do = "rm"
      BY <1>2, <2>2 DEF IsRest
    <3>2. asked[r].kind = "delete-app" /\ Deletes(plan[r], asked[r])
      BY <3>1 DEF DeletionInv, Fits, Proper, Belongs
    <3>3. plan[r][1].do = "apps:destroy"
      BY <1>2, <3>1, <3>2 DEF Deletes
    <3>. QED
      BY <1>1, <1>2, <3>3
  <2>. QED
    BY <2>1, <2>2
<1>. HIDE DEF block, rest
<1>6. PICK q : q = block \o rest
  OBVIOUS
<1>7. Fits(q, asked[r])
  BY <1>4, <1>5, <1>6, BlockFits
<1>9. ASSUME Len(q) = 1, q[1].do = "rm"
      PROVE  FALSE
  <2>1. IsList(block) /\ IsList(rest)
    BY <1>2, <1>4 DEF PassesOver, IsRest
  <2>2. 1 \in DOMAIN q
    <3>1. IsList(q)
      BY <1>6, <2>1, JoinedLists
    <3>. QED
      BY <1>9, <3>1, ListIs
  <2>3. CASE 1 \in DOMAIN block /\ q[1] = block[1]
    BY <1>4, <1>9, <2>3 DEF PassesOver
  <2>4. CASE /\ 1 > Len(block)
             /\ 1 - Len(block) \in DOMAIN rest
             /\ q[1] = rest[1 - Len(block)]
    <3>1. Len(block) \in Nat
      BY <2>1, ListIs
    <3>2. 1 \in DOMAIN rest /\ rest[1].do = "rm"
      BY <1>9, <2>4, <3>1
    <3>. QED
      BY <1>5, <3>2
  <2>. QED
    BY <1>6, <2>1, <2>2, <2>3, <2>4, JoinedElements
<1>8. /\ DOMAIN answer' = Requests /\ failures' \in [Requests -> Nat]
      /\ dokku' \in {dokku, A!After(dokku, A!Current(r))}
  BY <1>1 DEF DeletionInv
<1>10. Runs(r, q)
  BY <1>1, <1>6, <1>7, <1>8, <1>9 DEF Runs
<1>. QED
  BY <1>10, RunKeeps

LEMMA SelectOptionKeeps ==
    ASSUME DeletionInv, NEW r \in Requests, A!SelectOption(r)
    PROVE  DeletionInv'
<1>. DEFINE rest == Tail(plan[r])
<1>1. PICK option :
         plan' = [plan EXCEPT ![r] = <<A!Stop("unset", A!Current(r).app, option)>> \o rest]
  BY DEF A!SelectOption
<1>2. /\ A!HasCommand(r) /\ A!Current(r).do = "options"
      /\ dokku' = dokku /\ asked' = asked /\ answer' = answer /\ failures' = failures
  BY DEF A!SelectOption
<1>3. A!Current(r).app = asked[r].app /\ asked[r].kind # "delete-app"
  BY <1>2, CommandRuns DEF Belongs
<1>4. IsRest(rest, plan[r], 1)
  BY <1>2, CommandRuns
<1>. DEFINE first == <<A!Stop("unset", asked[r].app, option)>>
<1>5. Proper(first, asked[r])
  <2>1. Belongs(A!Stop("unset", asked[r].app, option), asked[r])
    BY DEF Belongs, A!Stop, A!Command
  <2>. QED
    BY <2>1, ShortLists
<1>6. Proper(rest, asked[r])
  BY <1>4, RestFits DEF DeletionInv, Fits
<1>7. PICK q : q = first \o rest /\ plan' = [plan EXCEPT ![r] = q]
  BY <1>1, <1>3
<1>. HIDE DEF first, rest
<1>8. Fits(q, asked[r])
  BY <1>3, <1>5, <1>6, <1>7, JoinedProper DEF Fits
<1>9. /\ DOMAIN answer' = Requests /\ failures' \in [Requests -> Nat]
      /\ dokku' \in {dokku, A!After(dokku, A!Current(r))}
  BY <1>2 DEF DeletionInv
<1>10. Runs(r, q)
  BY <1>2, <1>3, <1>7, <1>8, <1>9 DEF Runs
<1>. QED
  BY <1>10, RunKeeps

LEMMA SucceedsKeeps ==
    ASSUME DeletionInv, NEW r \in Requests, A!Succeeds(r)
    PROVE  DeletionInv'
<1>0. PICK q : q = Tail(plan[r])
  OBVIOUS
<1>1. A!HasCommand(r) /\ dokku' = A!After(dokku, A!Current(r))
  BY DEF A!Succeeds
<1>2. /\ plan' = [plan EXCEPT ![r] = q] /\ asked' = asked
      /\ answer' = answer /\ failures' = failures
  BY <1>0 DEF A!Succeeds
<1>3. IsRest(q, plan[r], 1) /\ 1 \in DOMAIN plan[r] /\ A!Current(r) = plan[r][1]
  BY <1>0, <1>1, CommandRuns
<1>4. Fits(q, asked[r])
  BY <1>3, RestFits DEF DeletionInv
<1>5. ASSUME asked[r].kind = "delete-app", Len(q) = 1, q[1].do = "rm"
      PROVE  asked[r].app \notin dokku'.apps
  <2>1. Deletes(plan[r], asked[r]) /\ Proper(plan[r], asked[r])
    BY <1>5 DEF DeletionInv, Fits
  <2>2. 1 \in DOMAIN q
    BY <1>3, <1>5, ListIs DEF IsRest
  <2>3. 2 \in DOMAIN plan[r] /\ plan[r][2].do = "rm"
    BY <1>3, <1>5, <2>2 DEF IsRest
  <2>4. A!Current(r).do = "apps:destroy"
    BY <1>3, <2>1, <2>3 DEF Deletes
  <2>5. A!Current(r).app = asked[r].app
    BY <1>3, <2>1 DEF Proper, Belongs
  <2>. QED
    BY <1>1, <2>4, <2>5, AfterKeeps DEF DeletionInv
<1>6. /\ dokku' \in {dokku, A!After(dokku, A!Current(r))}
      /\ DOMAIN answer' = Requests /\ failures' \in [Requests -> Nat]
  BY <1>1, <1>2 DEF DeletionInv
<1>10. Runs(r, q)
  BY <1>1, <1>2, <1>4, <1>5, <1>6 DEF Runs
<1>. QED
  BY <1>10, RunKeeps

LEMMA StopsKeeps ==
    ASSUME DeletionInv, NEW r \in Requests, A!Stops(r)
    PROVE  DeletionInv'
<1>1. A!HasCommand(r) /\ A!Trouble(r) /\ A!AnswerError(r) /\ asked' = asked
  BY DEF A!Stops
<1>2. /\ plan' = [plan EXCEPT ![r] = <<>>]
      /\ DOMAIN answer' = Requests
  BY <1>1 DEF A!AnswerError, DeletionInv
<1>3. /\ dokku' \in {dokku, A!After(dokku, A!Current(r))}
      /\ failures' \in [Requests -> Nat]
  BY <1>1 DEF A!Trouble, DeletionInv
<1>4. Fits(<<>>, asked[r]) /\ Len(<<>>) # 1
  <2>1. Proper(<<>>, asked[r])
    BY ShortLists
  <2>. QED
    BY <2>1 DEF Fits, Deletes
<1>5. PICK q : q = <<>>
  OBVIOUS
<1>6. plan' = [plan EXCEPT ![r] = q] /\ Fits(q, asked[r]) /\ Len(q) # 1
  BY <1>2, <1>4, <1>5
<1>10. Runs(r, q)
  BY <1>1, <1>2, <1>3, <1>6 DEF Runs
<1>. QED
  BY <1>10, RunKeeps

LEMMA GoesOnKeeps ==
    ASSUME DeletionInv, NEW r \in Requests, A!GoesOn(r)
    PROVE  DeletionInv'
<1>. DEFINE c == A!Current(r)
<1>0. PICK q : q = SubSeq(plan[r], 2 + c.skip, Len(plan[r]))
  OBVIOUS
<1>1. /\ A!HasCommand(r) /\ A!Trouble(r) /\ asked' = asked
      /\ answer' = answer /\ c.otherwise # "stop"
      /\ plan' = [plan EXCEPT ![r] = q]
  BY <1>0 DEF A!GoesOn
<1>2. /\ IsList(plan[r]) /\ 1 \in DOMAIN plan[r] /\ c = plan[r][1]
      /\ c.skip \in Nat
  BY <1>1, CommandRuns DEF Belongs
<1>3. IsRest(q, plan[r], 1 + c.skip)
  BY <1>0, <1>2, SubSeqIsRest
<1>4. Fits(q, asked[r])
  <2>1. 1 + c.skip \in Nat
    BY <1>2
  <2>. HIDE DEF c
  <2>. QED
    BY <1>3, <2>1, RestFits DEF DeletionInv
<1>5. /\ dokku' \in {dokku, A!After(dokku, A!Current(r))}
      /\ failures' \in [Requests -> Nat]
  BY <1>1 DEF A!Trouble, DeletionInv
<1>6. ASSUME asked[r].kind = "delete-app", Len(q) = 1, q[1].do = "rm"
      PROVE  FALSE
  <2>1. Deletes(plan[r], asked[r])
    BY <1>6 DEF DeletionInv, Fits
  <2>2. 1 \in DOMAIN q
    BY <1>3, <1>6, ListIs DEF IsRest
  <2>3. 2 + c.skip \in DOMAIN plan[r] /\ plan[r][2 + c.skip].do = "rm"
    <3>1. 1 + (1 + c.skip) = 2 + c.skip
      BY <1>2
    <3>. QED
      BY <1>3, <1>6, <2>2, <3>1 DEF IsRest
  <2>4. 1 + 1 + c.skip < 2 + c.skip
    BY <1>1, <1>2, <2>1, <2>3 DEF Deletes
  <2>. QED
    BY <1>2, <2>4
<1>7. plan' = [plan EXCEPT ![r] = q] /\ DOMAIN answer' = Requests
  BY <1>1 DEF DeletionInv
<1>10. Runs(r, q)
  BY <1>1, <1>4, <1>5, <1>6, <1>7 DEF Runs
<1>. QED
  BY <1>10, RunKeeps

LEMMA FinishKeeps ==
    ASSUME DeletionInv, NEW r \in Requests, A!Finish(r)
    PROVE  DeletionInv'
  BY DEF A!Finish, DeletionInv, StorageIsLast, IsGone, A!IsCreated, Fits

LEMMA NextKeeps == DeletionInv /\ [A!Next]_(A!vars) => DeletionInv'
<1>. SUFFICES ASSUME DeletionInv, [A!Next]_(A!vars) PROVE DeletionInv'
  OBVIOUS
<1>1. CASE UNCHANGED A!vars
  BY <1>1 DEF A!vars, DeletionInv, StorageIsLast, IsGone, A!IsCreated
<1>2. CASE A!Next
  BY <1>2, StartKeeps, ReadConfigKeeps, SelectOptionKeeps, SucceedsKeeps, StopsKeeps,
     GoesOnKeeps, FinishKeeps DEF A!Next
<1>. QED
  BY <1>1, <1>2

LEMMA DeletionInductive == A!Spec => []DeletionInv
  BY InitDeletion, NextKeeps, PTL DEF A!Spec

(***************************************************************************)
(* Storage goes only by the last command of a deletion, when the app is    *)
(* gone.                                                                   *)
(***************************************************************************)
LEMMA CommandKeepsData ==
    ASSUME DeletionInv, NEW r \in Requests, A!HasCommand(r),
           dokku' \in {dokku, A!After(dokku, A!Current(r))},
           NEW app \in dokku.storage \ dokku'.storage
    PROVE  IsGone(app)
<1>1. A!Current(r).do = "rm" /\ app = A!Current(r).app
  <2>1. DOMAIN dokku = DokkuFields
    BY DEF DeletionInv
  <2>2. app \in dokku.storage \ A!After(dokku, A!Current(r)).storage
    <3>1. app \in dokku.storage /\ app \notin dokku'.storage
      OBVIOUS
    <3>2. dokku' # dokku
      BY <3>1
    <3>3. dokku' = A!After(dokku, A!Current(r))
      BY <3>2
    <3>. QED
      BY <3>1, <3>3
  <2>3. PICK c : c = A!Current(r)
    OBVIOUS
  <2>4. \A a \in dokku.storage \ A!After(dokku, c).storage : c.do = "rm" /\ a = c.app
    BY <2>1, AfterKeeps
  <2>. QED
    BY <2>2, <2>3, <2>4
<1>2. /\ 1 \in DOMAIN plan[r] /\ A!Current(r) = plan[r][1]
      /\ Belongs(A!Current(r), asked[r])
  BY CommandRuns
<1>3. asked[r].kind = "delete-app" /\ app = asked[r].app
  BY <1>1, <1>2 DEF Belongs
<1>4. Len(plan[r]) = 1 /\ plan[r][1].do = "rm"
  BY <1>1, <1>2, <1>3 DEF DeletionInv, Fits, Deletes
<1>. QED
  BY <1>3, <1>4 DEF DeletionInv, StorageIsLast

(***************************************************************************)
(* The data of an app outlives the app, for all forms, apps and services,  *)
(* however requests overlap and whatever commands fail.                    *)
(***************************************************************************)
THEOREM DataIsSafe == A!Spec => DataOutlivesApp
<1>. DEFINE Step == \A app \in dokku.storage \ dokku'.storage :
                       app \notin dokku.apps \/ A!IsCreated(app)
<1>1. ASSUME DeletionInv, [A!Next]_(A!vars) PROVE [Step]_(A!vars)
  <2>1. SUFFICES ASSUME NEW app \in dokku.storage \ dokku'.storage
                 PROVE  IsGone(app)
    BY DEF IsGone
  <2>2. dokku' # dokku
    BY <2>1
  <2>3. PICK r \in Requests : \/ A!Succeeds(r)
                              \/ A!Stops(r)
                              \/ A!GoesOn(r)
    BY <1>1, <2>2 DEF A!Next, A!vars, A!Start, A!ReadConfig, A!SelectOption, A!Finish
  <2>4. /\ A!HasCommand(r)
        /\ dokku' \in {dokku, A!After(dokku, A!Current(r))}
    BY <2>3 DEF A!Succeeds, A!Stops, A!GoesOn, A!Trouble
  <2>. QED
    BY <1>1, <2>1, <2>4, CommandKeepsData
<1>2. A!Spec => [][Step]_(A!vars)
  BY <1>1, DeletionInductive, PTL DEF A!Spec
<1>. QED
  BY <1>2 DEF DataOutlivesApp, A!DataOutlivesApp

(***************************************************************************)
(* A deletion can be repeated as long as the app is there, for all forms,  *)
(* apps and services: of its commands only those about the app itself can  *)
(* end it.                                                                 *)
(***************************************************************************)
THEOREM DeletionRepeats == A!Spec => DeletionCanBeRepeated
<1>. DEFINE Step == \A r \in Requests :
                       /\ asked[r].kind = "delete-app"
                       /\ alone[r] /\ failures'[r] = 0
                       /\ answer[r] = "none" /\ answer'[r] = "error"
                       => asked[r].app \notin dokku.apps
<1>1. ASSUME DeletionInv, [A!Next]_(A!vars) PROVE [Step]_(A!vars)
  <2>1. SUFFICES ASSUME NEW r \in Requests, asked[r].kind = "delete-app",
                        failures'[r] = 0, answer[r] = "none", answer'[r] = "error"
                 PROVE  asked[r].app \notin dokku.apps
    OBVIOUS
  <2>2. PICK q \in Requests : A!Stops(q) \/ A!Finish(q)
    BY <1>1, <2>1 DEF A!Next, A!vars, A!Start, A!ReadConfig, A!SelectOption, A!Succeeds,
                      A!GoesOn
  <2>3. A!Stops(r)
    BY <1>1, <2>1, <2>2 DEF DeletionInv, A!Stops, A!AnswerError, A!Finish
  <2>4. A!HasCommand(r) /\ A!Trouble(r) /\ A!Current(r).otherwise = "stop"
    BY <2>3 DEF A!Stops
  <2>5. ~A!Accepts(dokku, A!Current(r))
    BY <1>1, <2>1, <2>4 DEF A!Trouble, DeletionInv
  <2>6. /\ 1 \in DOMAIN plan[r] /\ A!Current(r) = plan[r][1]
        /\ Belongs(A!Current(r), asked[r])
    BY <1>1, <2>4, CommandRuns
  <2>7. A!Current(r).do \in {"config", "apps:destroy", "rm"}
    BY <1>1, <2>1, <2>4, <2>6 DEF DeletionInv, Fits, Deletes
  <2>8. A!Current(r).app \notin dokku.apps
    BY <2>5, <2>7 DEF A!Accepts
  <2>. QED
    BY <2>6, <2>8 DEF Belongs
<1>2. A!Spec => [][Step]_(A!vars)
  BY <1>1, DeletionInductive, PTL DEF A!Spec
<1>. QED
  BY <1>2 DEF DeletionCanBeRepeated, A!DeletionCanBeRepeated

-----------------------------------------------------------------------------
(***************************************************************************)
(* What a request has to reach: the effects of some of its commands.  A    *)
(* goal is such a command, and Effect says that what it does is done.      *)
(***************************************************************************)
Goal(do, app, item) == [do |-> do, app |-> app, item |-> item]

Effect(w, g) ==
    CASE g.do = "apps:create"  -> g.app \in w.apps
      [] g.do = "apps:destroy" -> g.app \notin w.apps /\ \A l \in w.links : l[2] # g.app
      [] g.do = "rm"           -> g.app \notin w.storage
      [] g.do = "set"          -> g.item \in w.settings[g.app]
      [] g.do = "unset"        -> g.item \notin w.settings[g.app]
      [] g.do = "deploy"       -> /\ g.app \in w.deployed
                                  /\ w.inForce[g.app] = w.settings[g.app]
      [] g.do = "apply"        -> w.inForce[g.app] = w.settings[g.app]
      [] g.do = "create"       -> g.item \in w.services
      [] g.do = "destroy"      -> g.item \notin w.services
      [] g.do = "link"         -> <<g.item, g.app>> \in w.links
      [] g.do = "unlink"       -> <<g.item, g.app>> \notin w.links
      [] g.do = "restart"      -> g.item \in w.restarted
      [] OTHER                 -> FALSE

ServiceGoal(f, i) ==
    Goal(IF f.services[i] = A!NoService THEN "unnamed" ELSE "link", f.app, f.services[i])

CreationGoals(f) ==
    {Goal("apps:create", f.app, A!Nothing)}
    \cup {ServiceGoal(f, i) : i \in DOMAIN f.services}
    \cup {Goal("set", f.app, item) :
             item \in {x \in f.wants \ {"image"} : x = "ssl" => "domain" \in f.wants}}
    \cup (IF "image" \in f.wants THEN {Goal("deploy", f.app, A!Nothing)} ELSE {})

Goals(f) ==
    CASE f.kind = "create-app" -> CreationGoals(f)
      [] f.kind = "delete-app" ->
             {Goal("apps:destroy", f.app, A!Nothing)}
             \cup (IF f.deleteData THEN {Goal("rm", f.app, A!Nothing)} ELSE {})
      [] f.kind \in SetOrUnset \ {"nginx"} ->
             {Goal(f.do, f.app, A!SettingOf(f.kind))}
      [] f.kind = "nginx" ->
             {Goal(f.do, f.app, "nginx"), Goal("apply", f.app, A!Nothing)}
      [] f.kind = "add-domain" ->
             {Goal("set", f.app, "domain")}
             \cup (IF f.ssl THEN {Goal("set", f.app, "ssl")} ELSE {})
      [] f.kind \in {"ssl", "mount", "limits"} ->
             {Goal("set", f.app, A!SettingOf(f.kind))}
      [] f.kind \in {"remove-domain", "unmount"} ->
             {Goal("unset", f.app, A!SettingOf(f.kind))}
      [] f.kind \in {"add-option", "update-option"} -> {Goal("set", f.app, f.option)}
      [] f.kind = "create-service" -> {Goal("create", f.app, f.service)}
      [] f.kind \in {"link", "unlink"} -> {Goal(f.kind, f.app, f.service)}
      [] f.kind = "delete-service" -> {Goal("destroy", f.app, f.service)}
      [] f.kind = "service-config" /\ f.service[1] = "postgres" ->
             {Goal("restart", f.app, f.service)}
      [] OTHER -> {}

(***************************************************************************)
(* Which commands may undo the effect of which.  A command that puts       *)
(* others into the list might be followed by any.                          *)
(***************************************************************************)
Expands == {"config", "options"}

Undoing(do) ==
    CASE do = "apps:create"       -> {"apps:destroy"}
      [] do = "apps:destroy"      -> {"apps:create", "link"}
      [] do = "rm"                -> {"mkdir"}
      [] do = "set"               -> {"unset", "apps:create", "apps:destroy"}
      [] do = "unset"             -> {"set", "apps:create", "apps:destroy"}
      [] do \in {"deploy", "apply"} -> {"set", "unset", "apps:create", "apps:destroy"}
      [] do = "create"            -> {"destroy"}
      [] do = "destroy"           -> {"create"}
      [] do = "link"              -> {"unlink", "apps:destroy"}
      [] do = "unlink"            -> {"link"}
      [] do = "restart"           -> {"write-conf"}
      [] OTHER                    -> {}

Undoes(c, g) ==
    \/ c.do \in Expands
    \/ /\ c.do \in Undoing(g.do)
       /\ {c.do, g.do} = {"set", "unset"} => c.item = g.item

Spares(p, g) == IsList(p) /\ \A i \in DOMAIN p : ~Undoes(p[i], g)

(***************************************************************************)
(* A list leads to a goal when one of its commands has that effect, no     *)
(* later one undoes it, a failure of it is not kept from the browser, and  *)
(* no failure that is leaves it out.  The one excuse is the directory of a *)
(* mount when an app is created.                                           *)
(***************************************************************************)
IsQuiet(c) == c.otherwise \notin {"stop", "tell"}

Does(c, g) == /\ c.do = g.do /\ c.app = g.app /\ c.item = g.item
              /\ c.do \notin Expands
              /\ ~IsQuiet(c)

ExcusedBy(c, g, f) ==
    /\ c.otherwise = "log" /\ c.do = "mkdir"
    /\ f.kind = "create-app" /\ g.do = "set" /\ g.item = "mount"

LeadsAt(p, g, f, i) ==
    /\ Does(p[i], g)
    /\ \A j \in DOMAIN p :
          /\ i < j => ~Undoes(p[j], g)
          /\ j < i /\ IsQuiet(p[j]) => j + p[j].skip < i \/ ExcusedBy(p[j], g, f)

Leads(p, g, f) == IsList(p) /\ \E i \in DOMAIN p : LeadsAt(p, g, f, i)

(***************************************************************************)
(* The inductive invariant of SuccessIsComplete: as long as a request is   *)
(* alone and nobody has heard of a failure, what it is to reach is reached *)
(* and will stay, or its list leads there.                                 *)
(***************************************************************************)
Comes(p, w, g, f) == (Effect(w, g) /\ Spares(p, g)) \/ Leads(p, g, f)

Excused(r, g) ==
    /\ "mkdir" \in logged[r]
    /\ asked[r].kind = "create-app" /\ g.do = "set" /\ g.item = "mount"

Clean(r) == alone[r] /\ asked[r] # A!NoForm /\ answer[r] # "error" /\ ~told[r]

Promises(r) ==
    Clean(r) => \A g \in Goals(asked[r]) :
                   Excused(r, g) \/ Comes(plan[r], dokku, g, asked[r])

IsAlone(r) ==
    alone[r] /\ asked[r] # A!NoForm => \A q \in Requests \ {r} : ~A!Active(q)

SuccessInv ==
    /\ DOMAIN dokku.settings = Apps
    /\ DOMAIN dokku.inForce = Apps
    /\ DOMAIN told = Requests
    /\ DOMAIN logged = Requests
    /\ DOMAIN alone = Requests
    /\ \A r \in Requests :
          /\ asked[r] = A!NoForm => answer[r] = "none"
          /\ asked[r] # A!NoForm => asked[r] \in Forms
          /\ answer[r] # "none" => plan[r] = <<>>
          /\ IsAlone(r)
          /\ Promises(r)

(***************************************************************************)
(* A command has its effect when dokku accepts it, and no other command    *)
(* than those of Undoing takes the effect away.                            *)
(***************************************************************************)
IsWorld(w) ==
    /\ DOMAIN w = DokkuFields
    /\ DOMAIN w.settings = Apps
    /\ DOMAIN w.inForce = Apps

IsGoal(g) ==
    /\ g.do \in {"apps:create", "apps:destroy", "rm", "set", "unset", "deploy", "apply",
                 "create", "destroy", "link", "unlink", "restart", "unnamed"}
    /\ g.do \in {"set", "unset", "deploy", "apply"} => g.app \in Apps

LEMMA AfterIsWorld ==
    ASSUME NEW w, IsWorld(w), NEW c
    PROVE  IsWorld(A!After(w, c))
<1>. USE DEF DokkuFields, IsWorld
<1>0. DOMAIN A!After(w, c) = DokkuFields
  BY AfterKeeps
<1>1. CASE c.do = "apps:create"
  BY <1>1 DEF A!After
<1>2. CASE c.do = "apps:destroy"
  BY <1>2 DEF A!After, A!DestroyApp
<1>3. CASE c.do = "link"
  BY <1>3 DEF A!After, A!Link
<1>4. CASE c.do = "unlink"
  BY <1>4 DEF A!After, A!Unlink
<1>5. CASE c.do \in {"create", "destroy"}
  BY <1>5 DEF A!After
<1>10. CASE c.do \in {"set", "unset"}
  BY <1>10 DEF A!After
<1>6. CASE c.do \in {"deploy", "apply"}
  BY <1>6 DEF A!After
<1>7. CASE c.do \in {"mkdir", "rm"}
  BY <1>7 DEF A!After
<1>8. CASE c.do \in {"write-conf", "restart"}
  BY <1>8 DEF A!After
<1>9. CASE c.do \notin {"apps:create", "apps:destroy", "link", "unlink", "create", "destroy",
                        "set", "unset", "deploy", "apply", "mkdir", "rm", "write-conf",
                        "restart"}
  BY <1>9 DEF A!After
<1>. QED
  BY <1>0, <1>1, <1>2, <1>3, <1>4, <1>5, <1>6, <1>7, <1>8, <1>9, <1>10

LEMMA CommandTakesEffect ==
    ASSUME NEW w, IsWorld(w), NEW c, NEW g, IsGoal(g), Does(c, g), A!Accepts(w, c)
    PROVE  Effect(A!After(w, c), g)
<1>. USE DEF DokkuFields, IsWorld, IsGoal, Does, Effect
<1>1. CASE g.do = "apps:create"
  BY <1>1 DEF A!After
<1>2. CASE g.do = "apps:destroy"
  BY <1>2 DEF A!After, A!DestroyApp
<1>3. CASE g.do = "rm"
  BY <1>3 DEF A!After
<1>4. CASE g.do = "set"
  BY <1>4 DEF A!After
<1>5. CASE g.do = "unset"
  BY <1>5 DEF A!After
<1>6. CASE g.do = "deploy"
  BY <1>6 DEF A!After
<1>7. CASE g.do = "apply"
  BY <1>7 DEF A!After
<1>8. CASE g.do = "create"
  BY <1>8 DEF A!After
<1>9. CASE g.do = "destroy"
  BY <1>9 DEF A!After
<1>10. CASE g.do = "link"
  BY <1>10 DEF A!After, A!Link
<1>11. CASE g.do = "unlink"
  BY <1>11 DEF A!After, A!Unlink
<1>12. CASE g.do = "restart"
  BY <1>12 DEF A!After
<1>13. CASE g.do = "unnamed"
  BY <1>13 DEF A!Accepts
<1>. QED
  BY <1>1, <1>2, <1>3, <1>4, <1>5, <1>6, <1>7, <1>8, <1>9, <1>10, <1>11, <1>12, <1>13

LEMMA EffectStays ==
    ASSUME NEW w, IsWorld(w), NEW c, NEW g, IsGoal(g), Effect(w, g), ~Undoes(c, g)
    PROVE  Effect(A!After(w, c), g)
<1>21. PICK v : v = A!After(w, c)
  OBVIOUS
<1>22. SUFFICES Effect(v, g)
  BY <1>21
<1>. USE DEF IsGoal
<1>0. c.do \notin Undoing(g.do) \/ ({c.do, g.do} = {"set", "unset"} /\ c.item # g.item)
  BY DEF Undoes
<1>1. CASE c.do = "apps:create"
  <2>1. /\ v.apps = w.apps \cup {c.app}
        /\ v.settings = [w.settings EXCEPT ![c.app] = {"default-domain"}]
        /\ v.services = w.services /\ v.links = w.links /\ v.inForce = w.inForce
        /\ v.storage = w.storage /\ v.deployed = w.deployed /\ v.restarted = w.restarted
    BY <1>21, <1>1 DEF A!After, IsWorld, DokkuFields
  <2>. QED
    BY <1>0, <1>1, <2>1 DEF Effect, Undoing, IsWorld
<1>2. CASE c.do = "apps:destroy"
  <2>1. /\ v.apps = w.apps \ {c.app}
        /\ v.deployed = w.deployed \ {c.app}
        /\ v.settings = [w.settings EXCEPT ![c.app] = {}]
        /\ v.inForce = [w.inForce EXCEPT ![c.app] = {}]
        /\ v.links \subseteq w.links
        /\ v.services = w.services /\ v.storage = w.storage /\ v.restarted = w.restarted
    BY <1>21, <1>2 DEF A!After, IsWorld, DokkuFields, A!DestroyApp
  <2>. QED
    BY <1>0, <1>2, <2>1 DEF Effect, Undoing, IsWorld
<1>3. CASE c.do = "link"
  <2>1. /\ v.links = w.links \cup {<<c.item, c.app>>}
        /\ v.apps = w.apps /\ v.services = w.services /\ v.settings = w.settings
        /\ v.inForce = w.inForce /\ v.storage = w.storage /\ v.deployed = w.deployed
        /\ v.restarted = w.restarted
    BY <1>21, <1>3 DEF A!After, IsWorld, DokkuFields, A!Link
  <2>. QED
    BY <1>0, <1>3, <2>1 DEF Effect, Undoing, IsWorld
<1>4. CASE c.do = "unlink"
  <2>1. /\ v.links = w.links \ {<<c.item, c.app>>}
        /\ v.apps = w.apps /\ v.services = w.services /\ v.settings = w.settings
        /\ v.inForce = w.inForce /\ v.storage = w.storage /\ v.deployed = w.deployed
        /\ v.restarted = w.restarted
    BY <1>21, <1>4 DEF A!After, IsWorld, DokkuFields, A!Unlink
  <2>. QED
    BY <1>0, <1>4, <2>1 DEF Effect, Undoing, IsWorld
<1>5. CASE c.do = "create"
  <2>1. /\ v.services = w.services \cup {c.item}
        /\ v.apps = w.apps /\ v.links = w.links /\ v.settings = w.settings
        /\ v.inForce = w.inForce /\ v.storage = w.storage /\ v.deployed = w.deployed
        /\ v.restarted = w.restarted
    BY <1>21, <1>5 DEF A!After, IsWorld, DokkuFields
  <2>. QED
    BY <1>0, <1>5, <2>1 DEF Effect, Undoing, IsWorld
<1>6. CASE c.do = "destroy"
  <2>1. /\ v.services = w.services \ {c.item}
        /\ v.apps = w.apps /\ v.links = w.links /\ v.settings = w.settings
        /\ v.inForce = w.inForce /\ v.storage = w.storage /\ v.deployed = w.deployed
        /\ v.restarted = w.restarted
    BY <1>21, <1>6 DEF A!After, IsWorld, DokkuFields
  <2>. QED
    BY <1>0, <1>6, <2>1 DEF Effect, Undoing, IsWorld
<1>7. CASE c.do = "set"
  <2>1. /\ v.settings = [w.settings EXCEPT ![c.app] = @ \cup {c.item}]
        /\ v.apps = w.apps /\ v.services = w.services /\ v.links = w.links
        /\ v.inForce = w.inForce /\ v.storage = w.storage /\ v.deployed = w.deployed
        /\ v.restarted = w.restarted
    BY <1>21, <1>7 DEF A!After, IsWorld, DokkuFields
  <2>. QED
    BY <1>0, <1>7, <2>1 DEF Effect, Undoing, IsWorld
<1>8. CASE c.do = "unset"
  <2>1. /\ v.settings = [w.settings EXCEPT ![c.app] = @ \ {c.item}]
        /\ v.apps = w.apps /\ v.services = w.services /\ v.links = w.links
        /\ v.inForce = w.inForce /\ v.storage = w.storage /\ v.deployed = w.deployed
        /\ v.restarted = w.restarted
    BY <1>21, <1>8 DEF A!After, IsWorld, DokkuFields
  <2>. QED
    BY <1>0, <1>8, <2>1 DEF Effect, Undoing, IsWorld
<1>9. CASE c.do = "deploy"
  <2>1. /\ v.deployed = w.deployed \cup {c.app}
        /\ v.inForce = [w.inForce EXCEPT ![c.app] = w.settings[c.app]]
        /\ v.apps = w.apps /\ v.services = w.services /\ v.links = w.links
        /\ v.settings = w.settings /\ v.storage = w.storage /\ v.restarted = w.restarted
    BY <1>21, <1>9 DEF A!After, IsWorld, DokkuFields
  <2>. QED
    BY <1>0, <1>9, <2>1 DEF Effect, Undoing, IsWorld
<1>10. CASE c.do = "apply"
  <2>1. /\ v.inForce = [w.inForce EXCEPT ![c.app] = w.settings[c.app]]
        /\ v.apps = w.apps /\ v.services = w.services /\ v.links = w.links
        /\ v.settings = w.settings /\ v.storage = w.storage /\ v.deployed = w.deployed
        /\ v.restarted = w.restarted
    BY <1>21, <1>10 DEF A!After, IsWorld, DokkuFields
  <2>. QED
    BY <1>0, <1>10, <2>1 DEF Effect, Undoing, IsWorld
<1>11. CASE c.do = "mkdir"
  <2>1. /\ v.storage = w.storage \cup {c.app}
        /\ v.apps = w.apps /\ v.services = w.services /\ v.links = w.links
        /\ v.settings = w.settings /\ v.inForce = w.inForce /\ v.deployed = w.deployed
        /\ v.restarted = w.restarted
    BY <1>21, <1>11 DEF A!After, IsWorld, DokkuFields
  <2>. QED
    BY <1>0, <1>11, <2>1 DEF Effect, Undoing, IsWorld
<1>12. CASE c.do = "rm"
  <2>1. /\ v.storage = w.storage \ {c.app}
        /\ v.apps = w.apps /\ v.services = w.services /\ v.links = w.links
        /\ v.settings = w.settings /\ v.inForce = w.inForce /\ v.deployed = w.deployed
        /\ v.restarted = w.restarted
    BY <1>21, <1>12 DEF A!After, IsWorld, DokkuFields
  <2>. QED
    BY <1>0, <1>12, <2>1 DEF Effect, Undoing, IsWorld
<1>13. CASE c.do = "write-conf"
  <2>1. /\ v.restarted = w.restarted \ {c.item}
        /\ v.apps = w.apps /\ v.services = w.services /\ v.links = w.links
        /\ v.settings = w.settings /\ v.inForce = w.inForce /\ v.storage = w.storage
        /\ v.deployed = w.deployed
    BY <1>21, <1>13 DEF A!After, IsWorld, DokkuFields
  <2>. QED
    BY <1>0, <1>13, <2>1 DEF Effect, Undoing, IsWorld
<1>14. CASE c.do = "restart"
  <2>1. /\ v.restarted = w.restarted \cup {c.item}
        /\ v.apps = w.apps /\ v.services = w.services /\ v.links = w.links
        /\ v.settings = w.settings /\ v.inForce = w.inForce /\ v.storage = w.storage
        /\ v.deployed = w.deployed
    BY <1>21, <1>14 DEF A!After, IsWorld, DokkuFields
  <2>. QED
    BY <1>0, <1>14, <2>1 DEF Effect, Undoing, IsWorld
<1>15. CASE c.do \notin {"apps:create", "apps:destroy", "link", "unlink", "create",
                         "destroy", "set", "unset", "deploy", "apply", "mkdir", "rm",
                         "write-conf", "restart"}
  <2>1. v = w
    BY <1>21, <1>15 DEF A!After
  <2>. QED
    BY <2>1
<1>. QED
  BY <1>1, <1>2, <1>3, <1>4, <1>5, <1>6, <1>7, <1>8,
     <1>9, <1>10, <1>11, <1>12, <1>13, <1>14, <1>15

(***************************************************************************)
(* What leads to a goal still does when the list is worked off, when       *)
(* commands are put before it that leave out none but each other, and when *)
(* commands that spare the goal are put after it.                          *)
(***************************************************************************)
LEMMA RestLeads ==
    ASSUME NEW f, NEW g, NEW p, Proper(p, f), NEW i \in DOMAIN p, LeadsAt(p, g, f, i),
           NEW q, NEW k \in Nat, IsRest(q, p, k), k < i
    PROVE  Leads(q, g, f)
<1>0. IsList(p) /\ IsList(q)
  BY DEF Proper, IsRest
<1>1. /\ Len(p) \in Nat /\ DOMAIN p = 1 .. Len(p)
      /\ Len(q) \in Nat /\ DOMAIN q = 1 .. Len(q)
  <2>1. Len(p) \in Nat /\ DOMAIN p = 1 .. Len(p)
    BY <1>0, ListIs
  <2>2. Len(q) \in Nat /\ DOMAIN q = 1 .. Len(q)
    BY <1>0, ListIs
  <2>. QED
    BY <2>1, <2>2
<1>2. Len(q) = Len(p) - k
  <2>1. Len(q) = IF k < Len(p) THEN Len(p) - k ELSE 0
    BY DEF IsRest
  <2>2. i \in Nat /\ i <= Len(p)
    BY <1>1
  <2>3. Len(p) \in Nat
    BY <1>1
  <2>. QED
    BY <2>1, <2>2, <2>3
<1>3. i - k \in DOMAIN q /\ (i - k) + k = i
  BY <1>1, <1>2
<1>4. \A j \in DOMAIN q : j + k \in DOMAIN p /\ q[j] = p[j + k]
  BY DEF IsRest
<1>5. Does(q[i - k], g)
  BY <1>3, <1>4 DEF LeadsAt
<1>6. ASSUME NEW j \in DOMAIN q
      PROVE  /\ i - k < j => ~Undoes(q[j], g)
             /\ j < i - k /\ IsQuiet(q[j])
                   => j + q[j].skip < i - k \/ ExcusedBy(q[j], g, f)
  <2>1. /\ i < j + k => ~Undoes(q[j], g)
        /\ j + k < i /\ IsQuiet(q[j])
              => (j + k) + q[j].skip < i \/ ExcusedBy(q[j], g, f)
    BY <1>4 DEF LeadsAt
  <2>2. q[j].skip \in Nat
    BY <1>4 DEF Proper, Belongs
  <2>. QED
    BY <1>1, <2>1, <2>2
<1>7. LeadsAt(q, g, f, i - k)
  BY <1>5, <1>6 DEF LeadsAt
<1>. QED
  BY <1>0, <1>3, <1>7 DEF Leads

Contained(s, f) ==
    Proper(s, f) /\ \A i \in DOMAIN s : IsQuiet(s[i]) => i + s[i].skip <= Len(s)

LEMMA BlockLeads ==
    ASSUME NEW f, NEW g, NEW s, Contained(s, f),
           NEW t, Proper(t, f), Leads(t, g, f)
    PROVE  Leads(s \o t, g, f)
<1>. DEFINE n == Len(s)
<1>1. /\ IsList(s) /\ IsList(t) /\ IsList(s \o t)
      /\ n \in Nat /\ DOMAIN s = 1 .. n
      /\ Len(t) \in Nat /\ DOMAIN t = 1 .. Len(t)
      /\ DOMAIN (s \o t) = 1 .. n + Len(t)
  <2>1. IsList(s) /\ IsList(t)
    BY DEF Contained, Proper, Leads
  <2>2. IsList(s \o t) /\ Len(s \o t) = n + Len(t)
    BY <2>1, JoinedLists
  <2>. QED
    BY <2>1, <2>2, ListIs
<1>2. PICK i \in DOMAIN t : LeadsAt(t, g, f, i)
  BY DEF Leads
<1>3. (s \o t)[n + i] = t[i] /\ n + i \in DOMAIN (s \o t)
  BY <1>1, JoinedLists
<1>4. PICK p : p = s \o t
  OBVIOUS
<1>5. Does(p[n + i], g)
  BY <1>2, <1>3, <1>4 DEF LeadsAt
<1>6. ASSUME NEW j \in DOMAIN p
      PROVE  /\ n + i < j => ~Undoes(p[j], g)
             /\ j < n + i /\ IsQuiet(p[j])
                   => j + p[j].skip < n + i \/ ExcusedBy(p[j], g, f)
  <2>1. j \in Nat
    BY <1>1, <1>4
  <2>2. CASE j \in DOMAIN s /\ p[j] = s[j]
    <3>1. s[j].skip \in Nat
      BY <2>2 DEF Contained, Proper, Belongs
    <3>2. IsQuiet(p[j]) => j + p[j].skip <= n
      BY <2>2 DEF Contained
    <3>. HIDE DEF n
    <3>3. ~(n + i < j)
      BY <1>1, <2>2
    <3>. QED
      BY <1>1, <2>1, <2>2, <3>1, <3>2, <3>3
  <2>3. CASE j > n /\ j - n \in DOMAIN t /\ p[j] = t[j - n]
    <3>. DEFINE m == j - n
    <3>0. m \in DOMAIN t /\ p[j] = t[m]
      BY <2>3
    <3>1. /\ i < m => ~Undoes(p[j], g)
          /\ m < i /\ IsQuiet(p[j]) => m + p[j].skip < i \/ ExcusedBy(p[j], g, f)
      <4>. HIDE DEF m
      <4>. QED
        BY <1>2, <3>0 DEF LeadsAt
    <3>2. p[j].skip \in Nat
      BY <3>0 DEF Proper, Belongs
    <3>3. IsQuiet(p[j]) /\ j < n + i /\ ~ExcusedBy(p[j], g, f)
             => (j - n) + p[j].skip < i
      BY <1>1, <2>1, <2>3, <3>1
    <3>. HIDE DEF n
    <3>4. j < n + i /\ IsQuiet(p[j]) /\ ~ExcusedBy(p[j], g, f) => j + p[j].skip < n + i
      BY <1>1, <2>1, <3>2, <3>3
    <3>. QED
      BY <1>1, <2>1, <3>1, <3>4
  <2>. QED
    BY <1>1, <1>4, <2>2, <2>3, JoinedElements
<1>7. LeadsAt(p, g, f, n + i)
  BY <1>5, <1>6 DEF LeadsAt
<1>. QED
  BY <1>1, <1>3, <1>4, <1>7 DEF Leads

LEMMA SparedLeads ==
    ASSUME NEW f, NEW g, NEW s, Leads(s, g, f), NEW t, Spares(t, g)
    PROVE  Leads(s \o t, g, f)
<1>1. /\ IsList(s) /\ IsList(t) /\ IsList(s \o t)
      /\ Len(s) \in Nat /\ DOMAIN s = 1 .. Len(s)
      /\ Len(t) \in Nat /\ DOMAIN t = 1 .. Len(t)
      /\ DOMAIN (s \o t) = 1 .. Len(s) + Len(t)
  <2>1. IsList(s) /\ IsList(t)
    BY DEF Spares, Leads
  <2>2. IsList(s \o t) /\ Len(s \o t) = Len(s) + Len(t)
    BY <2>1, JoinedLists
  <2>. QED
    BY <2>1, <2>2, ListIs
<1>2. PICK i \in DOMAIN s : LeadsAt(s, g, f, i)
  BY DEF Leads
<1>3. PICK p : p = s \o t
  OBVIOUS
<1>4. p[i] = s[i] /\ i \in DOMAIN p
  BY <1>1, <1>3, JoinedLists
<1>5. ASSUME NEW j \in DOMAIN p
      PROVE  /\ i < j => ~Undoes(p[j], g)
             /\ j < i /\ IsQuiet(p[j])
                   => j + p[j].skip < i \/ ExcusedBy(p[j], g, f)
  <2>1. CASE j \in DOMAIN s /\ p[j] = s[j]
    BY <1>2, <2>1 DEF LeadsAt
  <2>2. CASE j > Len(s) /\ j - Len(s) \in DOMAIN t /\ p[j] = t[j - Len(s)]
    <3>1. ~Undoes(p[j], g)
      BY <2>2 DEF Spares
    <3>2. ~(j < i)
      BY <1>1, <1>3, <2>2
    <3>. QED
      BY <3>1, <3>2
  <2>. QED
    BY <1>1, <1>3, <2>1, <2>2, JoinedElements
<1>6. LeadsAt(p, g, f, i)
  BY <1>2, <1>4, <1>5 DEF LeadsAt
<1>. QED
  BY <1>1, <1>3, <1>4, <1>6 DEF Leads

LEMMA JoinedContained ==
    ASSUME NEW s, NEW t, NEW f, Contained(s, f), Contained(t, f)
    PROVE  Contained(s \o t, f)
<1>1. Proper(s, f) /\ Proper(t, f) /\ IsList(s) /\ IsList(t)
  BY DEF Contained, Proper
<1>2. Proper(s \o t, f)
  BY <1>1, JoinedProper
<1>3. /\ Len(s) \in Nat /\ DOMAIN s = 1 .. Len(s)
      /\ Len(t) \in Nat /\ DOMAIN t = 1 .. Len(t)
      /\ Len(s \o t) = Len(s) + Len(t)
  BY <1>1, ListIs, JoinedLists
<1>4. PICK p : p = s \o t
  OBVIOUS
<1>5. ASSUME NEW k \in DOMAIN p, IsQuiet(p[k])
      PROVE  k + p[k].skip <= Len(s) + Len(t)
  <2>1. k \in Nat /\ p[k].skip \in Nat
    BY <1>2, <1>4, ListIs DEF Proper, Belongs
  <2>2. CASE k \in DOMAIN s /\ p[k] = s[k]
    BY <1>3, <1>5, <2>1, <2>2 DEF Contained
  <2>3. CASE k > Len(s) /\ k - Len(s) \in DOMAIN t /\ p[k] = t[k - Len(s)]
    <3>1. (k - Len(s)) + p[k].skip <= Len(t)
      BY <1>5, <2>3 DEF Contained
    <3>. QED
      BY <1>3, <2>1, <3>1
  <2>. QED
    BY <1>1, <1>4, <2>2, <2>3, JoinedElements
<1>. QED
  BY <1>2, <1>3, <1>4, <1>5 DEF Contained

LEMMA JoinedSpares ==
    ASSUME NEW s, NEW t, NEW g, Spares(s, g), Spares(t, g)
    PROVE  Spares(s \o t, g)
<1>1. IsList(s) /\ IsList(t)
  BY DEF Spares
<1>2. \A k \in DOMAIN (s \o t) : ~Undoes((s \o t)[k], g)
  BY <1>1, JoinedElements DEF Spares
<1>. QED
  BY <1>1, <1>2, JoinedLists DEF Spares

LEMMA RestSpares ==
    ASSUME NEW p, NEW q, NEW g, NEW k \in Nat, Spares(p, g), IsRest(q, p, k)
    PROVE  Spares(q, g)
  BY DEF Spares, IsRest

(***************************************************************************)
(* Lists of a few commands.                                                *)
(***************************************************************************)
LEMMA ShortLeads ==
    \A a, b, c, f, g :
        Belongs(a, f) =>
           /\ ~IsQuiet(a) => Contained(<<a>>, f)
           /\ ~Undoes(a, g) => Spares(<<a>>, g)
           /\ Does(a, g) => Leads(<<a>>, g, f)
           /\ Belongs(b, f) =>
                 /\ Does(a, g) /\ ~Undoes(b, g) => Leads(<<a, b>>, g, f)
                 /\ Does(b, g) /\ ~IsQuiet(a) => Leads(<<a, b>>, g, f)
                 /\ Belongs(c, f) /\ Does(c, g) /\ ~IsQuiet(a) /\ ~IsQuiet(b)
                       => Leads(<<a, b, c>>, g, f)
<1>. TAKE a, b, c, f, g
<1>1. SUFFICES ASSUME Belongs(a, f)
               PROVE  /\ ~IsQuiet(a) => Contained(<<a>>, f)
                      /\ ~Undoes(a, g) => Spares(<<a>>, g)
                      /\ Does(a, g) => Leads(<<a>>, g, f)
                      /\ Belongs(b, f) =>
                            /\ Does(a, g) /\ ~Undoes(b, g) => Leads(<<a, b>>, g, f)
                            /\ Does(b, g) /\ ~IsQuiet(a) => Leads(<<a, b>>, g, f)
                            /\ Belongs(c, f) /\ Does(c, g) /\ ~IsQuiet(a) /\ ~IsQuiet(b)
                                  => Leads(<<a, b, c>>, g, f)
  OBVIOUS
<1>2. /\ Proper(<<a>>, f)
      /\ Belongs(b, f) => Proper(<<a, b>>, f)
      /\ Belongs(b, f) /\ Belongs(c, f) => Proper(<<a, b, c>>, f)
  BY <1>1, ShortLists
<1>3. ~IsQuiet(a) => Contained(<<a>>, f)
  BY <1>2 DEF Contained
<1>4. ~Undoes(a, g) => Spares(<<a>>, g)
  BY <1>2 DEF Spares, Proper
<1>5. ASSUME Does(a, g) PROVE Leads(<<a>>, g, f)
  <2>1. LeadsAt(<<a>>, g, f, 1)
    BY <1>5 DEF LeadsAt
  <2>. QED
    BY <1>2, <2>1 DEF Leads, Proper
<1>6. ASSUME Belongs(b, f), Does(a, g), ~Undoes(b, g) PROVE Leads(<<a, b>>, g, f)
  <2>1. LeadsAt(<<a, b>>, g, f, 1)
    BY <1>6 DEF LeadsAt
  <2>. QED
    BY <1>2, <1>6, <2>1 DEF Leads, Proper
<1>7. ASSUME Belongs(b, f), Does(b, g), ~IsQuiet(a) PROVE Leads(<<a, b>>, g, f)
  <2>1. LeadsAt(<<a, b>>, g, f, 2)
    BY <1>7 DEF LeadsAt
  <2>. QED
    BY <1>2, <1>7, <2>1 DEF Leads, Proper
<1>8. ASSUME Belongs(b, f), Belongs(c, f), Does(c, g), ~IsQuiet(a), ~IsQuiet(b)
      PROVE  Leads(<<a, b, c>>, g, f)
  <2>1. LeadsAt(<<a, b, c>>, g, f, 3)
    BY <1>8 DEF LeadsAt
  <2>. QED
    BY <1>2, <1>8, <2>1 DEF Leads, Proper
<1>. QED
  BY <1>3, <1>4, <1>5, <1>6, <1>7, <1>8

(***************************************************************************)
(* The services of a new app: the list of each leads to its link, or has   *)
(* the command that dokku refuses; and so does all of them together.       *)
(***************************************************************************)
LEMMA ServicesLead ==
    ASSUME NEW f \in Forms, f.kind = "create-app"
    PROVE  /\ Contained(A!FlattenSeq(ServiceLists(f)), f)
           /\ Spares(A!FlattenSeq(ServiceLists(f)), Goal("apps:create", f.app, A!Nothing))
           /\ \A i \in DOMAIN f.services :
                 Leads(A!FlattenSeq(ServiceLists(f)), ServiceGoal(f, i), f)
<1>1. PICK Commands : Commands = ServiceCommandsOf(f)
  OBVIOUS
<1>2. PICK lists : lists = ServiceLists(f)
  OBVIOUS
<1>3. /\ lists \in Seq(Seq(Commands))
      /\ \A c \in Commands :
            Belongs(c, f) /\ c.do \in {"unnamed", "create", "link"} /\ c.otherwise = "tell"
  BY <1>1, <1>2, ServiceListsAreLists
<1>4. \A s \in Seq(Commands) : Contained(s, f)
  <2>1. TAKE s \in Seq(Commands)
  <2>2. IsList(s) /\ \A i \in DOMAIN s : s[i] \in Commands
    BY ListOf
  <2>. QED
    BY <1>3, <2>2 DEF Contained, Proper, IsQuiet
<1>5. ASSUME NEW g, g.do \in {"apps:create", "link", "unnamed"}
      PROVE  \A s \in Seq(Commands) : Spares(s, g)
  <2>1. TAKE s \in Seq(Commands)
  <2>2. IsList(s) /\ \A i \in DOMAIN s : s[i] \in Commands
    BY ListOf
  <2>3. \A c \in Commands : ~Undoes(c, g)
    BY <1>3, <1>5 DEF Undoes, Undoing, Expands
  <2>. QED
    BY <2>2, <2>3 DEF Spares
<1>6. PICK flat : flat = A!FlattenSeq(lists)
  OBVIOUS
<1>7. flat \in Seq(Commands)
  BY <1>1, <1>2, <1>6, ServicesProper
<1>8. ASSUME NEW i \in DOMAIN f.services
      PROVE  Leads(flat, ServiceGoal(f, i), f)
  <2>1. PICK g : g = ServiceGoal(f, i)
    OBVIOUS
  <2>2. g.do \in {"link", "unnamed"}
    BY <2>1 DEF ServiceGoal, Goal
  <2>. DEFINE Good == {s \in Seq(Commands) : Leads(s, g, f)}
  <2>3. i \in DOMAIN lists /\ lists[i] = A!ServiceCommands(f.app, f.services[i])
    BY <1>2 DEF ServiceLists
  <2>4. lists[i] \in Good
    <3>1. lists[i] \in Seq(Commands)
      BY <1>3, <2>3
    <3>2. Leads(A!ServiceCommands(f.app, f.services[i]), g, f)
      <4>1. PICK s : s = f.services[i]
        OBVIOUS
      <4>2. CASE s = A!NoService
        <5>1. Does(A!Tell("unnamed", f.app, s, 0), g)
          BY <2>1, <4>1, <4>2 DEF Does, ServiceGoal, Goal, A!Tell, A!Command, Expands, IsQuiet
        <5>2. Belongs(A!Tell("unnamed", f.app, s, 0), f)
          BY DEF Belongs, A!Tell, A!Command
        <5>3. Leads(<<A!Tell("unnamed", f.app, s, 0)>>, g, f)
          BY <5>1, <5>2, ShortLeads
        <5>. QED
          BY <4>1, <4>2, <5>3 DEF A!ServiceCommands
      <4>3. CASE s # A!NoService
        <5>1. Does(A!Tell("link", f.app, s, 0), g)
          BY <2>1, <4>1, <4>3 DEF Does, ServiceGoal, Goal, A!Tell, A!Command, Expands, IsQuiet
        <5>2. /\ Belongs(A!Tell("create", f.app, s, 1), f)
              /\ Belongs(A!Tell("link", f.app, s, 0), f)
              /\ ~IsQuiet(A!Tell("create", f.app, s, 1))
          BY DEF Belongs, A!Tell, A!Command, IsQuiet
        <5>3. Leads(<<A!Tell("create", f.app, s, 1), A!Tell("link", f.app, s, 0)>>, g, f)
          BY <5>1, <5>2, ShortLeads
        <5>. QED
          BY <4>1, <4>3, <5>3 DEF A!ServiceCommands
      <4>. QED
        BY <4>2, <4>3
    <3>. QED
      BY <2>3, <3>1, <3>2
  <2>5. Absorbs(Seq(Commands), Seq(Commands), Seq(Commands))
    BY DEF Absorbs
  <2>6. Absorbs(Seq(Commands), Good, Good)
    <3>1. SUFFICES ASSUME NEW s \in Seq(Commands), NEW t \in Good PROVE s \o t \in Good
      BY DEF Absorbs
    <3>2. s \o t \in Seq(Commands)
      OBVIOUS
    <3>3. Contained(s, f) /\ Proper(t, f) /\ Leads(t, g, f)
      BY <1>4 DEF Contained
    <3>4. Leads(s \o t, g, f)
      BY <3>3, BlockLeads
    <3>. QED
      BY <3>2, <3>4
  <2>7. Absorbs(Good, Seq(Commands), Good)
    <3>1. SUFFICES ASSUME NEW s \in Good, NEW t \in Seq(Commands) PROVE s \o t \in Good
      BY DEF Absorbs
    <3>2. s \o t \in Seq(Commands)
      OBVIOUS
    <3>3. Leads(s, g, f) /\ Spares(t, g)
      BY <1>5, <2>2
    <3>4. Leads(s \o t, g, f)
      BY <3>3, SparedLeads
    <3>. QED
      BY <3>2, <3>4
  <2>. HIDE DEF Good
  <2>8. A!FlattenSeq(lists) \in Good
    BY <1>3, <2>3, <2>4, <2>5, <2>6, <2>7, FlattenedReaches
  <2>. QED
    BY <1>6, <2>1, <2>8 DEF Good
<1>9. Spares(flat, Goal("apps:create", f.app, A!Nothing))
  BY <1>5, <1>7 DEF Goal
<1>. QED
  BY <1>2, <1>4, <1>6, <1>7, <1>8, <1>9

(***************************************************************************)
(* The other parts of the creation: each leads to what it sets and spares  *)
(* what the others set.                                                    *)
(***************************************************************************)
IsGentle(g) ==
    \/ g.do \in {"apps:create", "link", "unnamed"}
    \/ g.do = "set" /\ g.item # "default-domain"

IsPart(s, f) == Contained(s, f) /\ \A g : IsGentle(g) => Spares(s, g)

LEMMA NoPart == ASSUME NEW f PROVE IsPart(<<>>, f)
<1>1. Proper(<<>>, f) /\ IsList(<<>>)
  BY ShortLists DEF Proper
<1>. QED
  BY <1>1 DEF IsPart, Contained, Spares

LEMMA TellPart ==
    ASSUME NEW f, NEW do \in {"set", "deploy"}, NEW item
    PROVE  /\ IsPart(<<A!Tell(do, f.app, item, 0)>>, f)
           /\ Leads(<<A!Tell(do, f.app, item, 0)>>, Goal(do, f.app, item), f)
<1>1. PICK c : c = A!Tell(do, f.app, item, 0)
  OBVIOUS
<1>2. c.do = do /\ c.item = item /\ c.otherwise = "tell"
  BY <1>1 DEF A!Tell, A!Command
<1>3. Belongs(c, f)
  BY <1>1 DEF Belongs, A!Tell, A!Command
<1>4. ~IsQuiet(c)
  BY <1>2 DEF IsQuiet
<1>5. Does(c, Goal(do, f.app, item))
  BY <1>2, <1>3, <1>4 DEF Does, Goal, Expands, Belongs
<1>6. ASSUME NEW g, IsGentle(g) PROVE ~Undoes(c, g)
  BY <1>2, <1>6 DEF IsGentle, Undoes, Undoing, Expands
<1>. QED
  BY <1>1, <1>3, <1>4, <1>5, <1>6, ShortLeads DEF IsPart

LEMMA DomainPart ==
    ASSUME NEW f
    PROVE  /\ IsPart(A!DomainCommands(f.app), f)
           /\ Leads(A!DomainCommands(f.app), Goal("set", f.app, "domain"), f)
<1>1. PICK a, b, c : /\ a = A!Log("read-vhost", f.app, A!Nothing, 1)
                     /\ b = A!Log("unset", f.app, "default-domain", 0)
                     /\ c = A!Tell("set", f.app, "domain", 0)
  OBVIOUS
<1>2. /\ a.do = "read-vhost" /\ a.skip = 1
      /\ b.do = "unset" /\ b.item = "default-domain" /\ b.skip = 0
      /\ c.do = "set" /\ c.item = "domain" /\ c.otherwise = "tell"
  BY <1>1 DEF A!Tell, A!Log, A!Command
<1>3. Belongs(a, f) /\ Belongs(b, f) /\ Belongs(c, f)
  BY <1>1 DEF Belongs, A!Tell, A!Log, A!Command
<1>4. ~IsQuiet(c)
  BY <1>2 DEF IsQuiet
<1>5. Does(c, Goal("set", f.app, "domain"))
  BY <1>2, <1>3, <1>4 DEF Does, Goal, Expands, Belongs
<1>6. ASSUME NEW g, IsGentle(g) PROVE ~Undoes(a, g) /\ ~Undoes(b, g) /\ ~Undoes(c, g)
  BY <1>2, <1>6 DEF IsGentle, Undoes, Undoing, Expands
<1>7. PICK p : p = <<a, b, c>>
  OBVIOUS
<1>8. p = A!DomainCommands(f.app)
  BY <1>1, <1>7 DEF A!DomainCommands
<1>9. Proper(p, f) /\ IsList(p)
  BY <1>3, <1>7, ShortLists DEF Proper
<1>10. DOMAIN p = {1, 2, 3} /\ Len(p) = 3 /\ p[1] = a /\ p[2] = b /\ p[3] = c
  BY <1>7
<1>11. Contained(p, f)
  BY <1>2, <1>4, <1>9, <1>10 DEF Contained
<1>12. \A g : IsGentle(g) => Spares(p, g)
  BY <1>6, <1>9, <1>10 DEF Spares
<1>13. LeadsAt(p, Goal("set", f.app, "domain"), f, 3)
  BY <1>2, <1>5, <1>10 DEF LeadsAt
<1>. QED
  BY <1>8, <1>9, <1>10, <1>11, <1>12, <1>13 DEF IsPart, Leads

LEMMA MountPart ==
    ASSUME NEW f, f.kind = "create-app"
    PROVE  /\ IsPart(A!MountCommands(f.app), f)
           /\ Leads(A!MountCommands(f.app), Goal("set", f.app, "mount"), f)
<1>1. PICK a, b, c, d, e : /\ a = A!Tell("mkdir", f.app, A!Nothing, 4)
                           /\ b = A!Log("chown", f.app, A!Nothing, 0)
                           /\ c = A!Log("mkdir", f.app, "source", 2)
                           /\ d = A!Log("chown", f.app, "source", 0)
                           /\ e = A!Tell("set", f.app, "mount", 0)
  OBVIOUS
<1>2. /\ a.do = "mkdir" /\ a.otherwise = "tell"
      /\ b.do = "chown" /\ b.skip = 0
      /\ c.do = "mkdir" /\ c.otherwise = "log" /\ c.skip = 2
      /\ d.do = "chown" /\ d.skip = 0
      /\ e.do = "set" /\ e.item = "mount" /\ e.otherwise = "tell"
  BY <1>1 DEF A!Tell, A!Log, A!Command
<1>3. Belongs(a, f) /\ Belongs(b, f) /\ Belongs(c, f) /\ Belongs(d, f) /\ Belongs(e, f)
  BY <1>1 DEF Belongs, A!Tell, A!Log, A!Command
<1>4. ~IsQuiet(a) /\ ~IsQuiet(e)
  BY <1>2 DEF IsQuiet
<1>5. Does(e, Goal("set", f.app, "mount"))
  BY <1>2, <1>3, <1>4 DEF Does, Goal, Expands, Belongs
<1>6. ASSUME NEW g, IsGentle(g)
      PROVE  /\ ~Undoes(a, g) /\ ~Undoes(b, g) /\ ~Undoes(c, g)
             /\ ~Undoes(d, g) /\ ~Undoes(e, g)
  BY <1>2, <1>6 DEF IsGentle, Undoes, Undoing, Expands
<1>7. PICK p : p = <<a, b, c, d, e>>
  OBVIOUS
<1>8. p = A!MountCommands(f.app)
  BY <1>1, <1>7 DEF A!MountCommands
<1>9. Proper(p, f) /\ IsList(p)
  BY <1>3, <1>7, ShortLists DEF Proper
<1>10. /\ DOMAIN p = {1, 2, 3, 4, 5} /\ Len(p) = 5
       /\ p[1] = a /\ p[2] = b /\ p[3] = c /\ p[4] = d /\ p[5] = e
  BY <1>7
<1>11. Contained(p, f)
  BY <1>2, <1>4, <1>9, <1>10 DEF Contained
<1>12. \A g : IsGentle(g) => Spares(p, g)
  BY <1>6, <1>9, <1>10 DEF Spares
<1>13. ExcusedBy(c, Goal("set", f.app, "mount"), f)
  BY <1>2 DEF ExcusedBy, Goal
<1>14. LeadsAt(p, Goal("set", f.app, "mount"), f, 5)
  BY <1>2, <1>4, <1>5, <1>10, <1>13 DEF LeadsAt
<1>. QED
  BY <1>8, <1>9, <1>10, <1>11, <1>12, <1>14 DEF IsPart, Leads

LEMMA PartFollows ==
    ASSUME NEW f, NEW s, Contained(s, f), NEW t, IsPart(t, f)
    PROVE  /\ Contained(s \o t, f)
           /\ \A g : /\ IsGentle(g) /\ Leads(s, g, f) => Leads(s \o t, g, f)
                     /\ Leads(t, g, f) => Leads(s \o t, g, f)
<1>1. Contained(t, f) /\ Proper(t, f) /\ \A g : IsGentle(g) => Spares(t, g)
  BY DEF IsPart, Contained
<1>. QED
  BY <1>1, JoinedContained, SparedLeads, BlockLeads

LEMMA CreationLeads ==
    ASSUME NEW f \in Forms, f.kind = "create-app", NEW g \in CreationGoals(f)
    PROVE  Leads(A!Plan(f), g, f)
<1>. DEFINE first == <<A!Stop("apps:create", f.app, A!Nothing)>>
            flat == A!FlattenSeq(ServiceLists(f))
            env == A!If("env" \in f.wants, A!EnvCommands(f.app))
            domain == A!If("domain" \in f.wants, A!DomainCommands(f.app))
            port == A!If("port" \in f.wants, A!PortCommands(f.app))
            ssl == A!If({"domain", "ssl"} \subseteq f.wants, A!SSLCommands(f.app))
            mount == A!If("mount" \in f.wants, A!MountCommands(f.app))
            image == A!If("image" \in f.wants, A!ImageCommands(f.app))
            p1 == first \o flat
            p2 == p1 \o env
            p3 == p2 \o domain
            p4 == p3 \o port
            p5 == p4 \o ssl
            p6 == p5 \o mount
            p7 == p6 \o image
<1>1. A!Plan(f) = p7
  BY DEF A!Plan, A!CreateApp, ServiceLists
<1>2. /\ IsPart(env, f)
      /\ "env" \in f.wants => Leads(env, Goal("set", f.app, "env"), f)
  BY NoPart, TellPart DEF A!If, A!EnvCommands
<1>3. /\ IsPart(domain, f)
      /\ "domain" \in f.wants => Leads(domain, Goal("set", f.app, "domain"), f)
  BY NoPart, DomainPart DEF A!If
<1>4. /\ IsPart(port, f)
      /\ "port" \in f.wants => Leads(port, Goal("set", f.app, "port"), f)
  BY NoPart, TellPart DEF A!If, A!PortCommands
<1>5. /\ IsPart(ssl, f)
      /\ {"domain", "ssl"} \subseteq f.wants => Leads(ssl, Goal("set", f.app, "ssl"), f)
  BY NoPart, TellPart DEF A!If, A!SSLCommands
<1>6. /\ IsPart(mount, f)
      /\ "mount" \in f.wants => Leads(mount, Goal("set", f.app, "mount"), f)
  BY NoPart, MountPart DEF A!If
<1>7. /\ IsPart(image, f)
      /\ "image" \in f.wants => Leads(image, Goal("deploy", f.app, A!Nothing), f)
  BY NoPart, TellPart DEF A!If, A!ImageCommands
<1>8. /\ Contained(first, f)
      /\ Leads(first, Goal("apps:create", f.app, A!Nothing), f)
  <2>1. PICK c : c = A!Stop("apps:create", f.app, A!Nothing)
    OBVIOUS
  <2>2. Belongs(c, f) /\ ~IsQuiet(c) /\ Does(c, Goal("apps:create", f.app, A!Nothing))
    BY <2>1 DEF Belongs, IsQuiet, Does, Goal, Expands, A!Stop, A!Command
  <2>. QED
    BY <2>1, <2>2, ShortLeads
<1>9. /\ Contained(flat, f) /\ Proper(flat, f)
      /\ Spares(flat, Goal("apps:create", f.app, A!Nothing))
      /\ \A i \in DOMAIN f.services : Leads(flat, ServiceGoal(f, i), f)
  BY ServicesLead DEF Contained
<1>. HIDE DEF first, flat, env, domain, port, ssl, mount, image
<1>10. /\ Contained(p1, f)
       /\ Leads(p1, Goal("apps:create", f.app, A!Nothing), f)
       /\ \A i \in DOMAIN f.services : Leads(p1, ServiceGoal(f, i), f)
  BY <1>8, <1>9, JoinedContained, SparedLeads, BlockLeads
<1>. HIDE DEF p1
<1>11. /\ Contained(p2, f)
       /\ \A h : /\ IsGentle(h) /\ Leads(p1, h, f) => Leads(p2, h, f)
                 /\ Leads(env, h, f) => Leads(p2, h, f)
  BY <1>2, <1>10, PartFollows
<1>. HIDE DEF p2
<1>12. /\ Contained(p3, f)
       /\ \A h : /\ IsGentle(h) /\ Leads(p2, h, f) => Leads(p3, h, f)
                 /\ Leads(domain, h, f) => Leads(p3, h, f)
  BY <1>3, <1>11, PartFollows
<1>. HIDE DEF p3
<1>13. /\ Contained(p4, f)
       /\ \A h : /\ IsGentle(h) /\ Leads(p3, h, f) => Leads(p4, h, f)
                 /\ Leads(port, h, f) => Leads(p4, h, f)
  BY <1>4, <1>12, PartFollows
<1>. HIDE DEF p4
<1>14. /\ Contained(p5, f)
       /\ \A h : /\ IsGentle(h) /\ Leads(p4, h, f) => Leads(p5, h, f)
                 /\ Leads(ssl, h, f) => Leads(p5, h, f)
  BY <1>5, <1>13, PartFollows
<1>. HIDE DEF p5
<1>15. /\ Contained(p6, f)
       /\ \A h : /\ IsGentle(h) /\ Leads(p5, h, f) => Leads(p6, h, f)
                 /\ Leads(mount, h, f) => Leads(p6, h, f)
  BY <1>6, <1>14, PartFollows
<1>. HIDE DEF p6
<1>16. \A h : /\ IsGentle(h) /\ Leads(p6, h, f) => Leads(p7, h, f)
              /\ Leads(image, h, f) => Leads(p7, h, f)
  BY <1>7, <1>15, PartFollows
<1>. HIDE DEF p7
<1>17. CASE g = Goal("apps:create", f.app, A!Nothing)
  <2>1. IsGentle(g)
    BY <1>17 DEF IsGentle, Goal
  <2>. QED
    BY <1>1, <1>10, <1>11, <1>12, <1>13, <1>14, <1>15, <1>16, <1>17, <2>1
<1>18. ASSUME NEW i \in DOMAIN f.services, g = ServiceGoal(f, i)
       PROVE  Leads(A!Plan(f), g, f)
  <2>1. IsGentle(g)
    BY <1>18 DEF IsGentle, ServiceGoal, Goal
  <2>. QED
    BY <1>1, <1>10, <1>11, <1>12, <1>13, <1>14, <1>15, <1>16, <1>18, <2>1
<1>19. ASSUME NEW item \in f.wants \ {"image"}, item = "ssl" => "domain" \in f.wants,
              g = Goal("set", f.app, item)
       PROVE  Leads(A!Plan(f), g, f)
  <2>1. item \in {"env", "domain", "port", "ssl", "mount"}
    BY FormsAssumption DEF FormsTypeOK
  <2>2. IsGentle(g)
    BY <1>19, <2>1 DEF IsGentle, Goal
  <2>3. CASE item = "env"
    <3>1. Leads(p2, g, f)
      BY <1>2, <1>11, <1>19, <2>3
    <3>. QED
      BY <1>1, <1>12, <1>13, <1>14, <1>15, <1>16, <2>2, <3>1
  <2>4. CASE item = "domain"
    <3>1. Leads(p3, g, f)
      BY <1>3, <1>12, <1>19, <2>4
    <3>. QED
      BY <1>1, <1>13, <1>14, <1>15, <1>16, <2>2, <3>1
  <2>5. CASE item = "port"
    <3>1. Leads(p4, g, f)
      BY <1>4, <1>13, <1>19, <2>5
    <3>. QED
      BY <1>1, <1>14, <1>15, <1>16, <2>2, <3>1
  <2>6. CASE item = "ssl"
    <3>1. Leads(p5, g, f)
      BY <1>5, <1>14, <1>19, <2>6
    <3>. QED
      BY <1>1, <1>15, <1>16, <2>2, <3>1
  <2>7. CASE item = "mount"
    <3>1. Leads(p6, g, f)
      BY <1>6, <1>15, <1>19, <2>7
    <3>. QED
      BY <1>1, <1>16, <2>2, <3>1
  <2>. QED
    BY <2>1, <2>3, <2>4, <2>5, <2>6, <2>7
<1>20. CASE "image" \in f.wants /\ g = Goal("deploy", f.app, A!Nothing)
  BY <1>1, <1>7, <1>16, <1>20
<1>. QED
  BY <1>17, <1>18, <1>19, <1>20 DEF CreationGoals

LEMMA DeletionLeads ==
    ASSUME NEW f, f.kind = "delete-app", NEW g \in Goals(f)
    PROVE  Leads(A!Plan(f), g, f)
<1>1. PICK look, destroy, rm : /\ look = A!Stop("config", f.app, A!Nothing)
                               /\ destroy = A!Stop("apps:destroy", f.app, A!Nothing)
                               /\ rm = A!Stop("rm", f.app, A!Nothing)
  OBVIOUS
<1>2. PICK services : services = A!RemoveDefaultServices(f.app)
  OBVIOUS
<1>3. PICK database : database = A!If(f.deleteDb, <<look>> \o services)
  OBVIOUS
<1>4. PICK data : data = A!If(f.deleteData, <<rm>>)
  OBVIOUS
<1>5. A!Plan(f) = (database \o <<destroy>>) \o data
  BY <1>1, <1>2, <1>3, <1>4 DEF A!Plan, A!DeleteApp
<1>6. /\ Belongs(look, f) /\ ~IsQuiet(look)
      /\ Belongs(destroy, f) /\ ~IsQuiet(destroy)
      /\ Belongs(rm, f) /\ ~IsQuiet(rm)
      /\ Does(destroy, Goal("apps:destroy", f.app, A!Nothing))
      /\ Does(rm, Goal("rm", f.app, A!Nothing))
      /\ ~Undoes(rm, Goal("apps:destroy", f.app, A!Nothing))
  BY <1>1 DEF Belongs, IsQuiet, Does, Undoes, Undoing, Goal, Expands, A!Stop, A!Command
<1>7. Contained(<<>>, f) /\ \A h : Spares(<<>>, h)
  <2>1. Proper(<<>>, f) /\ IsList(<<>>)
    BY ShortLists DEF Proper
  <2>. QED
    BY <2>1 DEF Contained, Spares
<1>8. Contained(database, f)
  <2>1. PassesOver(services, f)
    BY <1>2, DefaultServicesPassOver
  <2>2. Contained(services, f)
    BY <2>1 DEF PassesOver, Contained, Proper
  <2>3. Contained(<<look>>, f)
    BY <1>6, ShortLeads
  <2>4. Contained(<<look>> \o services, f)
    BY <2>2, <2>3, JoinedContained
  <2>. QED
    BY <1>3, <1>7, <2>4 DEF A!If
<1>9. PICK start : start = database \o <<destroy>>
  OBVIOUS
<1>10. /\ Contained(<<destroy>>, f)
       /\ Leads(<<destroy>>, Goal("apps:destroy", f.app, A!Nothing), f)
       /\ Proper(<<destroy>>, f)
  BY <1>6, ShortLeads DEF Contained
<1>11. /\ Contained(start, f)
       /\ Leads(start, Goal("apps:destroy", f.app, A!Nothing), f)
  BY <1>8, <1>9, <1>10, JoinedContained, BlockLeads
<1>12. Spares(data, Goal("apps:destroy", f.app, A!Nothing))
  BY <1>4, <1>6, <1>7, ShortLeads DEF A!If
<1>13. CASE g = Goal("apps:destroy", f.app, A!Nothing)
  BY <1>5, <1>9, <1>11, <1>12, <1>13, SparedLeads
<1>14. CASE f.deleteData /\ g = Goal("rm", f.app, A!Nothing)
  <2>1. data = <<rm>>
    BY <1>4, <1>14 DEF A!If
  <2>2. Leads(<<rm>>, g, f) /\ Proper(<<rm>>, f)
    BY <1>6, <1>14, ShortLeads, ShortLists
  <2>3. Leads(start \o <<rm>>, g, f)
    BY <1>11, <2>2, BlockLeads
  <2>. QED
    BY <1>5, <1>9, <2>1, <2>3
<1>. QED
  BY <1>13, <1>14 DEF Goals, SetOrUnset

(***************************************************************************)
(* One command, or the last of two or three that all stop the request.     *)
(***************************************************************************)
LastCommands == {"set", "unset", "apply", "create", "link", "unlink", "destroy", "restart"}

LEMMA LastDoes ==
    ASSUME NEW f, NEW g, g.do \in LastCommands, g.app = f.app
    PROVE  Belongs(A!Stop(g.do, f.app, g.item), f) /\ Does(A!Stop(g.do, f.app, g.item), g)
  BY DEF LastCommands, Belongs, Does, IsQuiet, Expands, A!Stop, A!Command

LEMMA EarlierStops ==
    ASSUME NEW f, NEW s,
           NEW do \in {"options", "write-conf", "list-services", "containers", "list-apps",
                       "unlinked", "docker-update"},
           do = "options" => f.kind # "delete-app"
    PROVE  Belongs(A!Stop(do, f.app, s), f) /\ ~IsQuiet(A!Stop(do, f.app, s))
  BY DEF Belongs, IsQuiet, A!Stop, A!Command

LEMMA StopLeads ==
    ASSUME NEW f, NEW g, g.do \in LastCommands, g.app = f.app
    PROVE  Leads(<<A!Stop(g.do, f.app, g.item)>>, g, f)
  BY LastDoes, ShortLeads

LEMMA StopLeadsSecond ==
    ASSUME NEW f, NEW g, g.do \in LastCommands, g.app = f.app,
           NEW a, Belongs(a, f), ~IsQuiet(a)
    PROVE  Leads(<<a, A!Stop(g.do, f.app, g.item)>>, g, f)
  BY LastDoes, ShortLeads

LEMMA StopLeadsThird ==
    ASSUME NEW f, NEW g, g.do \in LastCommands, g.app = f.app,
           NEW a, Belongs(a, f), ~IsQuiet(a), NEW b, Belongs(b, f), ~IsQuiet(b)
    PROVE  Leads(<<a, b, A!Stop(g.do, f.app, g.item)>>, g, f)
  BY LastDoes, ShortLeads

LEMMA SSLLeads ==
    ASSUME NEW f, NEW otherwise \in {"stop", "tell"}
    PROVE  /\ Proper(A!EnableSSL(f, otherwise), f)
           /\ Leads(A!EnableSSL(f, otherwise), Goal("set", f.app, "ssl"), f)
           /\ Spares(A!EnableSSL(f, otherwise), Goal("set", f.app, "domain"))
<1>1. PICK a, b, c : /\ a = A!Command("list-plugins", f.app, A!Nothing, otherwise, 2)
                     /\ b = A!Command("domains", f.app, A!Nothing, otherwise, 1)
                     /\ c = A!Command("set", f.app, "ssl", otherwise, 0)
  OBVIOUS
<1>2. Belongs(a, f) /\ Belongs(b, f) /\ Belongs(c, f)
  BY <1>1 DEF Belongs, A!Command
<1>3. /\ ~IsQuiet(a) /\ ~IsQuiet(b) /\ Does(c, Goal("set", f.app, "ssl"))
      /\ ~Undoes(a, Goal("set", f.app, "domain"))
      /\ ~Undoes(b, Goal("set", f.app, "domain"))
      /\ ~Undoes(c, Goal("set", f.app, "domain"))
  BY <1>1 DEF IsQuiet, Does, Undoes, Undoing, Goal, Expands, A!Command
<1>4. PICK p : p = <<a, b, c>>
  OBVIOUS
<1>5. p = A!EnableSSL(f, otherwise)
  BY <1>1, <1>4 DEF A!EnableSSL
<1>6. Proper(p, f) /\ IsList(p)
  BY <1>2, <1>4, ShortLists DEF Proper
<1>7. Leads(p, Goal("set", f.app, "ssl"), f)
  BY <1>2, <1>3, <1>4, ShortLeads
<1>8. DOMAIN p = {1, 2, 3} /\ p[1] = a /\ p[2] = b /\ p[3] = c
  BY <1>4
<1>9. Spares(p, Goal("set", f.app, "domain"))
  BY <1>3, <1>6, <1>8 DEF Spares
<1>. QED
  BY <1>5, <1>6, <1>7, <1>9

(***************************************************************************)
(* The plan of every form leads to all it is to reach.                     *)
(***************************************************************************)
LEMMA PlanLeads ==
    ASSUME NEW f \in Forms, NEW g \in Goals(f)
    PROVE  Leads(A!Plan(f), g, f)
<1>1. CASE f.kind = "create-app"
  BY <1>1, CreationLeads DEF Goals, SetOrUnset
<1>2. CASE f.kind = "delete-app"
  BY <1>2, DeletionLeads
<1>3. CASE f.kind \in SetOrUnset \ {"nginx"}
  <2>1. g = Goal(f.do, f.app, A!SettingOf(f.kind)) /\ f.do \in {"set", "unset"}
    BY <1>3, FormsAssumption DEF Goals, FormsTypeOK, SetOrUnset
  <2>2. Leads(<<A!Stop(f.do, f.app, A!SettingOf(f.kind))>>, g, f)
    BY <2>1, StopLeads DEF Goal, LastCommands
  <2>3. A!Plan(f) = <<A!Stop(f.do, f.app, A!SettingOf(f.kind))>>
    <3>1. CASE f.kind = "config"
      BY <3>1 DEF A!Plan, A!SettingOf, A!SetConfig
    <3>2. CASE f.kind = "port"
      BY <3>2 DEF A!Plan, A!SettingOf, A!SetPort
    <3>3. CASE f.kind = "redirect"
      BY <3>3 DEF A!Plan, A!SettingOf, A!SetRedirect
    <3>4. CASE f.kind = "scale"
      BY <3>4 DEF A!Plan, A!SettingOf, A!ScaleApp
    <3>5. CASE f.kind = "procfile"
      BY <3>5 DEF A!Plan, A!SettingOf, A!SetProcfilePath
    <3>6. CASE f.kind = "restart-policy"
      BY <3>6 DEF A!Plan, A!SettingOf, A!SetRestartPolicy
    <3>. QED
      BY <1>3, <3>1, <3>2, <3>3, <3>4, <3>5, <3>6 DEF SetOrUnset
  <2>. QED
    BY <2>2, <2>3
<1>4. CASE f.kind = "nginx"
  <2>0. f.do \in {"set", "unset"}
    BY <1>4, FormsAssumption DEF FormsTypeOK, SetOrUnset
  <2>1. PICK a, b : a = A!Stop(f.do, f.app, "nginx") /\ b = A!Stop("apply", f.app, A!Nothing)
    OBVIOUS
  <2>2. /\ Belongs(a, f) /\ ~IsQuiet(a) /\ Does(a, Goal(f.do, f.app, "nginx"))
        /\ Belongs(b, f) /\ ~IsQuiet(b) /\ Does(b, Goal("apply", f.app, A!Nothing))
        /\ ~Undoes(b, Goal(f.do, f.app, "nginx"))
    BY <2>0, <2>1
       DEF Belongs, IsQuiet, Does, Undoes, Undoing, Goal, Expands, A!Stop, A!Command
  <2>3. /\ Leads(<<a, b>>, Goal(f.do, f.app, "nginx"), f)
        /\ Leads(<<a, b>>, Goal("apply", f.app, A!Nothing), f)
    BY <2>2, ShortLeads
  <2>4. A!Plan(f) = <<a, b>>
    BY <1>4, <2>1 DEF A!Plan, A!SetNginx
  <2>5. g \in {Goal(f.do, f.app, "nginx"), Goal("apply", f.app, A!Nothing)}
    BY <1>4 DEF Goals, SetOrUnset
  <2>. QED
    BY <2>3, <2>4, <2>5
<1>5. CASE f.kind = "add-domain"
  <2>1. PICK a : a = A!Stop("set", f.app, "domain")
    OBVIOUS
  <2>2. PICK ssl : ssl = A!If(f.ssl, A!EnableSSL(f, "tell"))
    OBVIOUS
  <2>3. A!Plan(f) = <<a>> \o ssl
    BY <1>5, <2>1, <2>2 DEF A!Plan, A!AddDomain
  <2>4. Belongs(a, f) /\ ~IsQuiet(a) /\ Does(a, Goal("set", f.app, "domain"))
    BY <2>1 DEF Belongs, IsQuiet, Does, Goal, Expands, A!Stop, A!Command
  <2>5. Contained(<<a>>, f) /\ Leads(<<a>>, Goal("set", f.app, "domain"), f)
    BY <2>4, ShortLeads
  <2>6. Spares(ssl, Goal("set", f.app, "domain"))
    <3>1. Spares(<<>>, Goal("set", f.app, "domain"))
      <4>1. IsList(<<>>)
        BY ShortLists DEF Proper
      <4>. QED
        BY <4>1 DEF Spares
    <3>. QED
      BY <2>2, <3>1, SSLLeads DEF A!If
  <2>7. f.ssl => Proper(ssl, f) /\ Leads(ssl, Goal("set", f.app, "ssl"), f)
    BY <2>2, SSLLeads DEF A!If
  <2>8. CASE g = Goal("set", f.app, "domain")
    BY <2>3, <2>5, <2>6, <2>8, SparedLeads
  <2>9. CASE f.ssl /\ g = Goal("set", f.app, "ssl")
    BY <2>3, <2>5, <2>7, <2>9, BlockLeads
  <2>10. \/ g = Goal("set", f.app, "domain")
         \/ f.ssl /\ g = Goal("set", f.app, "ssl")
    BY <1>5 DEF Goals, SetOrUnset
  <2>. QED
    BY <2>8, <2>9, <2>10
<1>6. CASE f.kind = "ssl"
  <2>1. A!Plan(f) = A!EnableSSL(f, "stop")
    BY <1>6 DEF A!Plan, A!SSLEnable
  <2>2. g = Goal("set", f.app, "ssl")
    BY <1>6 DEF Goals, SetOrUnset, A!SettingOf
  <2>. QED
    BY <2>1, <2>2, SSLLeads
<1>7. CASE f.kind = "mount"
  <2>1. PICK a, b, c, d, e : /\ a = A!Stop("mkdir", f.app, A!Nothing)
                             /\ b = A!Stop("mkdir", f.app, "source")
                             /\ c = A!Stop("chown", f.app, "source")
                             /\ d = A!Stop("chmod", f.app, "source")
                             /\ e = A!Stop("set", f.app, "mount")
    OBVIOUS
  <2>2. PICK p : p = <<a, b, c, d, e>>
    OBVIOUS
  <2>3. A!Plan(f) = p
    BY <1>7, <2>1, <2>2 DEF A!Plan, A!MountStorage
  <2>4. g = Goal("set", f.app, "mount")
    BY <1>7 DEF Goals, SetOrUnset, A!SettingOf
  <2>5. /\ ~IsQuiet(a) /\ ~IsQuiet(b) /\ ~IsQuiet(c) /\ ~IsQuiet(d) /\ ~IsQuiet(e)
        /\ Does(e, g)
    BY <2>1, <2>4 DEF IsQuiet, Does, Goal, Expands, A!Stop, A!Command
  <2>6. Belongs(a, f) /\ Belongs(b, f) /\ Belongs(c, f) /\ Belongs(d, f) /\ Belongs(e, f)
    BY <2>1 DEF Belongs, A!Stop, A!Command
  <2>7. IsList(p)
    BY <2>2, <2>6, ShortLists DEF Proper
  <2>8. /\ DOMAIN p = {1, 2, 3, 4, 5}
        /\ p[1] = a /\ p[2] = b /\ p[3] = c /\ p[4] = d /\ p[5] = e
    BY <2>2
  <2>9. LeadsAt(p, g, f, 5)
    BY <2>5, <2>8 DEF LeadsAt
  <2>. QED
    BY <2>3, <2>7, <2>8, <2>9 DEF Leads
<1>8. CASE f.kind = "limits"
  <2>1. g = Goal("set", f.app, "limit")
    BY <1>8 DEF Goals, SetOrUnset, A!SettingOf
  <2>2. A!Plan(f) = <<A!Stop("containers", f.app, A!Nothing),
                      A!Stop("docker-update", f.app, A!Nothing), A!Stop("set", f.app, "limit")>>
    BY <1>8 DEF A!Plan, A!SetLimits
  <2>3. g.do = "set" /\ g.app = f.app /\ g.item = "limit"
    BY <2>1 DEF Goal
  <2>4. /\ Belongs(A!Stop("containers", f.app, A!Nothing), f)
        /\ ~IsQuiet(A!Stop("containers", f.app, A!Nothing))
        /\ Belongs(A!Stop("docker-update", f.app, A!Nothing), f)
        /\ ~IsQuiet(A!Stop("docker-update", f.app, A!Nothing))
    BY EarlierStops
  <2>5. Leads(<<A!Stop("containers", f.app, A!Nothing), A!Stop("docker-update", f.app, A!Nothing),
                A!Stop(g.do, f.app, g.item)>>, g, f)
    BY <2>3, <2>4, StopLeadsThird DEF LastCommands
  <2>. QED
    BY <2>2, <2>3, <2>5
<1>9. CASE f.kind = "remove-domain"
  <2>1. g = Goal("unset", f.app, "domain") /\ A!Plan(f) = <<A!Stop("unset", f.app, "domain")>>
    BY <1>9 DEF Goals, SetOrUnset, A!SettingOf, A!Plan, A!RemoveDomain
  <2>. QED
    BY <2>1, StopLeads DEF Goal, LastCommands
<1>10. CASE f.kind = "unmount"
  <2>1. g = Goal("unset", f.app, "mount") /\ A!Plan(f) = <<A!Stop("unset", f.app, "mount")>>
    BY <1>10 DEF Goals, SetOrUnset, A!SettingOf, A!Plan, A!UnmountStorage
  <2>. QED
    BY <2>1, StopLeads DEF Goal, LastCommands
<1>11. CASE f.kind = "add-option"
  <2>1. g = Goal("set", f.app, f.option) /\ A!Plan(f) = <<A!Stop("set", f.app, f.option)>>
    BY <1>11 DEF Goals, SetOrUnset, A!Plan, A!AddOption
  <2>. QED
    BY <2>1, StopLeads DEF Goal, LastCommands
<1>12. CASE f.kind = "update-option"
  <2>1. /\ g = Goal("set", f.app, f.option)
        /\ A!Plan(f) = <<A!Stop("options", f.app, A!Nothing), A!Stop("set", f.app, f.option)>>
    BY <1>12 DEF Goals, SetOrUnset, A!Plan, A!UpdateOption
  <2>2. g.do = "set" /\ g.app = f.app /\ g.item = f.option
    BY <2>1 DEF Goal
  <2>3. PICK a : a = A!Stop("options", f.app, A!Nothing)
    OBVIOUS
  <2>4. Belongs(a, f) /\ ~IsQuiet(a)
    BY <1>12, <2>3, EarlierStops
  <2>5. Leads(<<a, A!Stop(g.do, f.app, g.item)>>, g, f)
    BY <2>2, <2>4, StopLeadsSecond DEF LastCommands
  <2>. QED
    BY <2>1, <2>2, <2>3, <2>5
<1>13. CASE f.kind = "create-service"
  <2>1. /\ g = Goal("create", f.app, f.service)
        /\ A!Plan(f) = <<A!Stop("create", f.app, f.service)>>
    BY <1>13 DEF Goals, SetOrUnset, A!Plan, A!CreateService
  <2>. QED
    BY <2>1, StopLeads DEF Goal, LastCommands
<1>14. CASE f.kind \in {"link", "unlink"}
  <2>1. g = Goal(f.kind, f.app, f.service)
    BY <1>14 DEF Goals, SetOrUnset
  <2>2. A!Plan(f) = <<A!Stop("list-services", f.app, f.service),
                      A!Stop("list-apps", f.app, f.service),
                      A!Stop(f.kind, f.app, f.service)>>
    <3>1. CASE f.kind = "link"
      BY <3>1 DEF A!Plan, A!LinkService
    <3>2. CASE f.kind = "unlink"
      BY <3>2 DEF A!Plan, A!UnlinkService
    <3>. QED
      BY <1>14, <3>1, <3>2
  <2>3. g.do = f.kind /\ g.app = f.app /\ g.item = f.service
    BY <2>1 DEF Goal
  <2>4. /\ Belongs(A!Stop("list-services", f.app, f.service), f)
        /\ ~IsQuiet(A!Stop("list-services", f.app, f.service))
        /\ Belongs(A!Stop("list-apps", f.app, f.service), f)
        /\ ~IsQuiet(A!Stop("list-apps", f.app, f.service))
    BY EarlierStops
  <2>5. Leads(<<A!Stop("list-services", f.app, f.service), A!Stop("list-apps", f.app, f.service),
                A!Stop(g.do, f.app, g.item)>>, g, f)
    BY <1>14, <2>3, <2>4, StopLeadsThird DEF LastCommands
  <2>. QED
    BY <2>2, <2>3, <2>5
<1>15. CASE f.kind = "delete-service"
  <2>1. g = Goal("destroy", f.app, f.service)
    BY <1>15 DEF Goals, SetOrUnset
  <2>2. A!Plan(f) = <<A!Stop("list-services", f.app, f.service),
                      A!Stop("unlinked", f.app, f.service),
                      A!Stop("destroy", f.app, f.service)>>
    BY <1>15 DEF A!Plan, A!DeleteService
  <2>3. g.do = "destroy" /\ g.app = f.app /\ g.item = f.service
    BY <2>1 DEF Goal
  <2>4. /\ Belongs(A!Stop("list-services", f.app, f.service), f)
        /\ ~IsQuiet(A!Stop("list-services", f.app, f.service))
        /\ Belongs(A!Stop("unlinked", f.app, f.service), f)
        /\ ~IsQuiet(A!Stop("unlinked", f.app, f.service))
    BY EarlierStops
  <2>5. Leads(<<A!Stop("list-services", f.app, f.service), A!Stop("unlinked", f.app, f.service),
                A!Stop(g.do, f.app, g.item)>>, g, f)
    BY <2>3, <2>4, StopLeadsThird DEF LastCommands
  <2>. QED
    BY <2>2, <2>3, <2>5
<1>16. CASE f.kind = "service-config"
  <2>1. f.service[1] = "postgres" /\ g = Goal("restart", f.app, f.service)
    BY <1>16 DEF Goals, SetOrUnset
  <2>2. A!Plan(f) = <<A!Stop("write-conf", f.app, f.service),
                      A!Stop("restart", f.app, f.service)>>
    BY <1>16, <2>1 DEF A!Plan, A!SaveServiceConfig
  <2>3. g.do = "restart" /\ g.app = f.app /\ g.item = f.service
    BY <2>1 DEF Goal
  <2>4. PICK a : a = A!Stop("write-conf", f.app, f.service)
    OBVIOUS
  <2>5. Belongs(a, f) /\ ~IsQuiet(a)
    BY <2>4, EarlierStops
  <2>6. Leads(<<a, A!Stop(g.do, f.app, g.item)>>, g, f)
    BY <2>3, <2>5, StopLeadsSecond DEF LastCommands
  <2>. QED
    BY <2>2, <2>3, <2>4, <2>6
<1>17. CASE f.kind \in {"delete-option", "service-limits"}
  BY <1>17 DEF Goals, SetOrUnset
<1>. QED
  BY <1>1, <1>2, <1>3, <1>4, <1>5, <1>6, <1>7, <1>8, <1>9, <1>10, <1>11, <1>12, <1>13,
     <1>14, <1>15, <1>16, <1>17, FormsAssumption DEF FormsTypeOK, SetOrUnset

(***************************************************************************)
(* When all that a request is to reach is reached, the request is          *)
(* fulfilled.                                                              *)
(***************************************************************************)
LEMMA GoalsAreGoals ==
    ASSUME NEW f \in Forms, NEW g \in Goals(f)
    PROVE  IsGoal(g)
<1>. USE DEF Goal, IsGoal
<1>0. f.app \in Apps \/ f.kind \in {"create-service", "delete-service", "service-config",
                                    "service-limits"}
  BY FormsAssumption DEF FormsTypeOK
<1>1. CASE f.kind = "create-app"
  <2>1. g \in CreationGoals(f)
    BY <1>1 DEF Goals, SetOrUnset
  <2>2. f.app \in Apps
    BY <1>0, <1>1
  <2>. QED
    BY <2>1, <2>2 DEF CreationGoals, ServiceGoal
<1>2. CASE f.kind = "delete-app"
  BY <1>0, <1>2 DEF Goals, SetOrUnset
<1>3. CASE f.kind \in SetOrUnset
  <2>1. f.do \in {"set", "unset"} /\ f.app \in Apps
    BY <1>0, <1>3, FormsAssumption DEF FormsTypeOK, SetOrUnset
  <2>2. g.do \in {"set", "unset", "apply"} /\ g.app = f.app
    BY <1>3, <2>1 DEF Goals, SetOrUnset
  <2>. QED
    BY <2>1, <2>2
<1>4. CASE f.kind \in {"add-domain", "ssl", "mount", "limits"}
  <2>1. g.do = "set" /\ g.app = f.app
    BY <1>4 DEF Goals, SetOrUnset
  <2>. QED
    BY <1>0, <1>4, <2>1
<1>5. CASE f.kind \in {"remove-domain", "unmount", "add-option", "update-option"}
  <2>1. g.do \in {"set", "unset"} /\ g.app = f.app
    BY <1>5 DEF Goals, SetOrUnset
  <2>. QED
    BY <1>0, <1>5, <2>1
<1>6. CASE f.kind \in {"create-service", "link", "unlink", "delete-service", "service-config"}
  BY <1>6 DEF Goals, SetOrUnset
<1>7. CASE f.kind \in {"delete-option", "service-limits"}
  BY <1>7 DEF Goals, SetOrUnset
<1>. QED
  BY <1>1, <1>2, <1>3, <1>4, <1>5, <1>6, <1>7, FormsAssumption DEF FormsTypeOK

IsExcused(f, excused, g) ==
    f.kind = "create-app" /\ excused = {"mount"} /\ g.do = "set" /\ g.item = "mount"

LEMMA CreationFulfilled ==
    ASSUME NEW f \in Forms, f.kind = "create-app", NEW excused \in {{}, {"mount"}},
           \A g \in CreationGoals(f) : Effect(dokku, g) \/ IsExcused(f, excused, g)
    PROVE  A!Created(f, excused)
<1>1. f.app \in dokku.apps
  <2>1. PICK g : g = Goal("apps:create", f.app, A!Nothing)
    OBVIOUS
  <2>2. g \in CreationGoals(f) /\ g.do = "apps:create" /\ g.app = f.app
    BY <2>1 DEF CreationGoals, Goal
  <2>. QED
    BY <2>2 DEF Effect, IsExcused
<1>2. ASSUME NEW i \in DOMAIN f.services
      PROVE  <<f.services[i], f.app>> \in dokku.links
  <2>1. PICK g : g = ServiceGoal(f, i)
    OBVIOUS
  <2>2. /\ g \in CreationGoals(f) /\ g.app = f.app /\ g.item = f.services[i]
        /\ g.do \in {"unnamed", "link"}
    BY <2>1 DEF CreationGoals, ServiceGoal, Goal
  <2>3. Effect(dokku, g)
    BY <2>2 DEF IsExcused
  <2>4. g.do # "unnamed"
    BY <2>3 DEF Effect
  <2>. QED
    BY <2>2, <2>3, <2>4 DEF Effect
<1>3. ASSUME NEW item \in f.wants \ (excused \cup {"image"}),
             item = "ssl" => "domain" \in f.wants
      PROVE  item \in dokku.settings[f.app]
  <2>1. PICK g : g = Goal("set", f.app, item)
    OBVIOUS
  <2>2. g \in CreationGoals(f) /\ g.do = "set" /\ g.app = f.app /\ g.item = item
    BY <1>3, <2>1 DEF CreationGoals, Goal
  <2>3. ~IsExcused(f, excused, g)
    BY <1>3, <2>2 DEF IsExcused
  <2>. QED
    BY <2>2, <2>3 DEF Effect
<1>4. ASSUME "image" \in f.wants
      PROVE  f.app \in dokku.deployed /\ dokku.inForce[f.app] = dokku.settings[f.app]
  <2>1. PICK g : g = Goal("deploy", f.app, A!Nothing)
    OBVIOUS
  <2>2. g \in CreationGoals(f) /\ g.do = "deploy" /\ g.app = f.app
    BY <1>4, <2>1 DEF CreationGoals, Goal
  <2>. QED
    BY <2>2 DEF Effect, IsExcused
<1>5. PICK Wanted : Wanted = IF "domain" \in f.wants THEN f.wants \ excused
                                                    ELSE f.wants \ (excused \cup {"ssl"})
  OBVIOUS
<1>6. Wanted \ {"image"} \subseteq dokku.settings[f.app]
  BY <1>3, <1>5
<1>. QED
  BY <1>1, <1>2, <1>4, <1>5, <1>6 DEF A!Created

LEMMA GoalsFulfil ==
    ASSUME NEW f \in Forms, NEW excused \in {{}, {"mount"}},
           \A g \in Goals(f) : Effect(dokku, g) \/ IsExcused(f, excused, g)
    PROVE  A!Fulfilled(f, excused)
<1>1. CASE f.kind = "create-app"
  <2>1. Goals(f) = CreationGoals(f)
    BY <1>1 DEF Goals, SetOrUnset
  <2>2. A!Created(f, excused)
    BY <1>1, <2>1, CreationFulfilled
  <2>. QED
    BY <1>1, <2>2 DEF A!Fulfilled
<1>2. ASSUME f.kind # "create-app" PROVE \A g \in Goals(f) : Effect(dokku, g)
  BY <1>2 DEF IsExcused
<1>3. CASE f.kind = "delete-app"
  <2>1. Goal("apps:destroy", f.app, A!Nothing) \in Goals(f)
    BY <1>3 DEF Goals, SetOrUnset
  <2>2. f.deleteData => Goal("rm", f.app, A!Nothing) \in Goals(f)
    BY <1>3 DEF Goals, SetOrUnset
  <2>3. f.app \notin dokku.apps /\ \A l \in dokku.links : l[2] # f.app
    BY <1>2, <1>3, <2>1 DEF Effect, Goal
  <2>4. f.deleteData => f.app \notin dokku.storage
    BY <1>2, <1>3, <2>2 DEF Effect, Goal
  <2>. QED
    BY <1>3, <2>3, <2>4 DEF A!Fulfilled, A!Deleted
<1>4. CASE f.kind \in SetOrUnset \ {"nginx"}
  <2>1. f.do \in {"set", "unset"}
    BY <1>4, FormsAssumption DEF FormsTypeOK, SetOrUnset
  <2>2. Goal(f.do, f.app, A!SettingOf(f.kind)) \in Goals(f)
    BY <1>4 DEF Goals, SetOrUnset
  <2>3. Effect(dokku, Goal(f.do, f.app, A!SettingOf(f.kind)))
    BY <1>2, <1>4, <2>2 DEF SetOrUnset
  <2>4. A!SettingOf(f.kind) \in dokku.settings[f.app] <=> f.do = "set"
    BY <2>1, <2>3 DEF Effect, Goal
  <2>. QED
    BY <1>4, <2>4 DEF A!Fulfilled, A!Has, SetOrUnset
<1>5. CASE f.kind = "nginx"
  <2>1. f.do \in {"set", "unset"}
    BY <1>5, FormsAssumption DEF FormsTypeOK, SetOrUnset
  <2>2. /\ Goal(f.do, f.app, "nginx") \in Goals(f)
        /\ Goal("apply", f.app, A!Nothing) \in Goals(f)
    BY <1>5 DEF Goals, SetOrUnset
  <2>3. "nginx" \in dokku.settings[f.app] <=> f.do = "set"
    BY <1>2, <1>5, <2>1, <2>2 DEF Effect, Goal
  <2>4. dokku.inForce[f.app] = dokku.settings[f.app]
    BY <1>2, <1>5, <2>2 DEF Effect, Goal
  <2>. QED
    BY <1>5, <2>3, <2>4 DEF A!Fulfilled, A!Has
<1>6. CASE f.kind = "add-domain"
  <2>1. /\ Goal("set", f.app, "domain") \in Goals(f)
        /\ f.ssl => Goal("set", f.app, "ssl") \in Goals(f)
    BY <1>6 DEF Goals, SetOrUnset
  <2>2. /\ "domain" \in dokku.settings[f.app]
        /\ f.ssl => "ssl" \in dokku.settings[f.app]
    BY <1>2, <1>6, <2>1 DEF Effect, Goal
  <2>. QED
    BY <1>6, <2>2 DEF A!Fulfilled, A!Has
<1>7. CASE f.kind \in {"ssl", "mount", "limits"}
  <2>1. Goal("set", f.app, A!SettingOf(f.kind)) \in Goals(f)
    BY <1>7 DEF Goals, SetOrUnset
  <2>2. A!SettingOf(f.kind) \in dokku.settings[f.app]
    BY <1>2, <1>7, <2>1 DEF Effect, Goal
  <2>. QED
    BY <1>7, <2>2 DEF A!Fulfilled, A!Has
<1>8. CASE f.kind \in {"remove-domain", "unmount"}
  <2>1. Goal("unset", f.app, A!SettingOf(f.kind)) \in Goals(f)
    BY <1>8 DEF Goals, SetOrUnset
  <2>2. A!SettingOf(f.kind) \notin dokku.settings[f.app]
    BY <1>2, <1>8, <2>1 DEF Effect, Goal
  <2>. QED
    BY <1>8, <2>2 DEF A!Fulfilled, A!Has
<1>9. CASE f.kind \in {"add-option", "update-option"}
  <2>1. Goal("set", f.app, f.option) \in Goals(f)
    BY <1>9 DEF Goals, SetOrUnset
  <2>2. f.option \in dokku.settings[f.app]
    BY <1>2, <1>9, <2>1 DEF Effect, Goal
  <2>. QED
    BY <1>9, <2>2 DEF A!Fulfilled, A!Has
<1>10. CASE f.kind = "create-service"
  <2>1. Goal("create", f.app, f.service) \in Goals(f)
    BY <1>10 DEF Goals, SetOrUnset
  <2>2. f.service \in dokku.services
    BY <1>2, <1>10, <2>1 DEF Effect, Goal
  <2>. QED
    BY <1>10, <2>2 DEF A!Fulfilled
<1>11. CASE f.kind \in {"link", "unlink"}
  <2>1. Goal(f.kind, f.app, f.service) \in Goals(f)
    BY <1>11 DEF Goals, SetOrUnset
  <2>2. <<f.service, f.app>> \in dokku.links <=> f.kind = "link"
    BY <1>2, <1>11, <2>1 DEF Effect, Goal
  <2>. QED
    BY <1>11, <2>2 DEF A!Fulfilled
<1>12. CASE f.kind = "delete-service"
  <2>1. Goal("destroy", f.app, f.service) \in Goals(f)
    BY <1>12 DEF Goals, SetOrUnset
  <2>2. f.service \notin dokku.services
    BY <1>2, <1>12, <2>1 DEF Effect, Goal
  <2>. QED
    BY <1>12, <2>2 DEF A!Fulfilled
<1>13. CASE f.kind = "service-config"
  <2>1. f.service[1] = "postgres" => Goal("restart", f.app, f.service) \in Goals(f)
    BY <1>13 DEF Goals, SetOrUnset
  <2>2. f.service[1] = "postgres" => f.service \in dokku.restarted
    BY <1>2, <1>13, <2>1 DEF Effect, Goal
  <2>. QED
    BY <1>13, <2>2 DEF A!Fulfilled
<1>14. CASE f.kind \in {"delete-option", "service-limits"}
  BY <1>14 DEF A!Fulfilled
<1>. QED
  BY <1>1, <1>3, <1>4, <1>5, <1>6, <1>7, <1>8, <1>9, <1>10, <1>11, <1>12, <1>13, <1>14,
     FormsAssumption DEF FormsTypeOK, SetOrUnset

(***************************************************************************)
(* What comes still does after a command that succeeds, after one that     *)
(* puts others into the list, and after a failure the browser does not     *)
(* hear of.                                                                *)
(***************************************************************************)
LEMMA ComesAfterSuccess ==
    ASSUME NEW f, NEW g, IsGoal(g), NEW w, IsWorld(w), NEW p, Proper(p, f), 1 \in DOMAIN p,
           Comes(p, w, g, f), A!Accepts(w, p[1]), NEW q, IsRest(q, p, 1)
    PROVE  Comes(q, A!After(w, p[1]), g, f)
<1>1. CASE Effect(w, g) /\ Spares(p, g)
  <2>1. ~Undoes(p[1], g) /\ Spares(q, g)
    BY <1>1, RestSpares DEF Spares
  <2>2. Effect(A!After(w, p[1]), g)
    BY <1>1, <2>1, EffectStays
  <2>. QED
    BY <2>1, <2>2 DEF Comes
<1>2. CASE Leads(p, g, f)
  <2>1. PICK i \in DOMAIN p : LeadsAt(p, g, f, i)
    BY <1>2 DEF Leads
  <2>2. i \in Nat /\ i >= 1
    BY <2>1, ListIs DEF Proper
  <2>3. CASE i = 1
    <3>1. Does(p[1], g)
      BY <2>1, <2>3 DEF LeadsAt
    <3>2. Effect(A!After(w, p[1]), g)
      BY <3>1, CommandTakesEffect
    <3>3. ASSUME NEW j \in DOMAIN q PROVE ~Undoes(q[j], g)
      <4>1. j + 1 \in DOMAIN p /\ q[j] = p[j + 1]
        BY DEF IsRest
      <4>2. j \in Nat /\ j >= 1
        BY ListIs DEF IsRest
      <4>3. 1 < j + 1
        BY <4>2
      <4>. QED
        BY <2>1, <2>3, <4>1, <4>3 DEF LeadsAt
    <3>4. Spares(q, g)
      BY <3>3 DEF Spares, IsRest
    <3>. QED
      BY <3>2, <3>4 DEF Comes
  <2>4. CASE i # 1
    <3>1. 1 < i
      BY <2>2, <2>4
    <3>2. Leads(q, g, f)
      BY <2>1, <3>1, RestLeads
    <3>. QED
      BY <3>2 DEF Comes
  <2>. QED
    BY <2>3, <2>4
<1>. QED
  BY <1>1, <1>2 DEF Comes

LEMMA ComesAfterExpansion ==
    ASSUME NEW f, NEW g, NEW w, NEW p, Proper(p, f), 1 \in DOMAIN p,
           Comes(p, w, g, f), p[1].do \in Expands,
           NEW block, Contained(block, f), NEW rest, Proper(rest, f), IsRest(rest, p, 1)
    PROVE  Comes(block \o rest, w, g, f)
<1>1. Undoes(p[1], g) /\ ~Does(p[1], g)
  BY DEF Undoes, Does
<1>2. PICK i \in DOMAIN p : LeadsAt(p, g, f, i)
  BY <1>1 DEF Comes, Spares, Leads
<1>3. i \in Nat /\ i >= 1 /\ i # 1
  BY <1>1, <1>2, ListIs DEF Proper, LeadsAt
<1>4. 1 < i
  BY <1>3
<1>5. Leads(rest, g, f)
  BY <1>2, <1>4, RestLeads
<1>. QED
  BY <1>5, BlockLeads DEF Comes

LEMMA ComesAfterQuietFailure ==
    ASSUME NEW f, NEW g, IsGoal(g), NEW w, IsWorld(w), NEW p, Proper(p, f), 1 \in DOMAIN p,
           Comes(p, w, g, f), IsQuiet(p[1]), NEW v \in {w, A!After(w, p[1])},
           NEW q, IsRest(q, p, 1 + p[1].skip)
    PROVE  ExcusedBy(p[1], g, f) \/ Comes(q, v, g, f)
<1>1. p[1].skip \in Nat
  BY DEF Proper, Belongs
<1>2. PICK k \in Nat : k = 1 + p[1].skip
  BY <1>1
<1>3. CASE Effect(w, g) /\ Spares(p, g)
  <2>1. ~Undoes(p[1], g) /\ Spares(q, g)
    BY <1>2, <1>3, RestSpares DEF Spares
  <2>2. Effect(v, g)
    BY <1>3, <2>1, EffectStays
  <2>. QED
    BY <2>1, <2>2 DEF Comes
<1>4. CASE Leads(p, g, f)
  <2>1. PICK i \in DOMAIN p : LeadsAt(p, g, f, i)
    BY <1>4 DEF Leads
  <2>2. i \in Nat /\ i >= 1 /\ i # 1
    BY <2>1, ListIs DEF Proper, LeadsAt, Does
  <2>3. 1 < i
    BY <2>2
  <2>4. 1 + p[1].skip < i \/ ExcusedBy(p[1], g, f)
    BY <2>1, <2>3 DEF LeadsAt
  <2>5. ASSUME k < i PROVE Leads(q, g, f)
    BY <1>2, <2>1, <2>5, RestLeads
  <2>. QED
    BY <1>2, <2>4, <2>5 DEF Comes
<1>. QED
  BY <1>3, <1>4 DEF Comes

(***************************************************************************)
(* SuccessInv is inductive: a request at work, and one that comes.         *)
(***************************************************************************)
LEMMA RequestMoves ==
    ASSUME DeletionInv, SuccessInv, NEW r \in Requests, A!Active(r),
           asked' = asked, alone' = alone, IsWorld(dokku'),
           DOMAIN told' = Requests, DOMAIN logged' = Requests,
           \A q \in Requests \ {r} : answer'[q] = answer[q] /\ plan'[q] = plan[q],
           answer'[r] # "none" => plan'[r] = <<>>,
           Promises(r)'
    PROVE  SuccessInv'
<1>1. ASSUME NEW q \in Requests \ {r}, alone[q], asked[q] # A!NoForm PROVE FALSE
  BY <1>1 DEF SuccessInv, IsAlone
<1>2. ASSUME NEW q \in Requests
      PROVE  /\ asked'[q] = A!NoForm => answer'[q] = "none"
             /\ asked'[q] # A!NoForm => asked'[q] \in Forms
             /\ answer'[q] # "none" => plan'[q] = <<>>
  <2>1. asked[r] # A!NoForm
    BY DEF A!Active
  <2>. QED
    BY <2>1 DEF SuccessInv
<1>3. ASSUME NEW q \in Requests PROVE IsAlone(q)'
  <2>1. SUFFICES ASSUME alone[q], asked[q] # A!NoForm, NEW p \in Requests \ {q}
                 PROVE  ~A!Active(p)'
    BY DEF IsAlone
  <2>2. q = r
    BY <1>1, <2>1
  <2>3. ~A!Active(p)
    BY <2>1 DEF SuccessInv, IsAlone
  <2>. QED
    BY <2>1, <2>2, <2>3 DEF A!Active
<1>4. ASSUME NEW q \in Requests PROVE Promises(q)'
  <2>1. CASE q = r
    BY <2>1
  <2>2. CASE q # r
    <3>1. ~Clean(q)'
      BY <1>1, <2>2 DEF Clean
    <3>. QED
      BY <3>1 DEF Promises
  <2>. QED
    BY <2>1, <2>2
<1>. QED
  BY <1>2, <1>3, <1>4 DEF SuccessInv, IsWorld

LEMMA RequestStarts ==
    ASSUME DeletionInv, SuccessInv, NEW r \in Requests, NEW f \in Forms, A!Start(r, f)
    PROVE  SuccessInv'
<1>1. /\ asked[r] = A!NoForm
      /\ dokku' = dokku /\ told' = told /\ logged' = logged /\ answer' = answer
  BY DEF A!Start
<1>2. /\ asked'[r] = f /\ plan'[r] = A!Plan(f)
      /\ \A q \in Requests \ {r} : asked'[q] = asked[q] /\ plan'[q] = plan[q]
  BY DEF A!Start, DeletionInv
<1>3. alone' = [q \in Requests |-> IF q = r THEN \A p \in Requests : ~A!Active(p)
                                            ELSE alone[q] /\ asked[q] = A!NoForm]
  BY DEF A!Start
<1>4. /\ alone'[r] = \A p \in Requests : ~A!Active(p)
      /\ DOMAIN alone' = Requests
  BY <1>3
<1>5. ASSUME NEW q \in Requests \ {r} PROVE ~(alone'[q] /\ asked'[q] # A!NoForm)
  BY <1>2, <1>3
<1>6. ASSUME NEW q \in Requests
      PROVE  /\ asked'[q] = A!NoForm => answer'[q] = "none"
             /\ asked'[q] # A!NoForm => asked'[q] \in Forms
             /\ answer'[q] # "none" => plan'[q] = <<>>
  BY <1>1, <1>2 DEF SuccessInv
<1>7. ASSUME NEW q \in Requests PROVE IsAlone(q)'
  <2>1. CASE q # r
    BY <1>5, <2>1 DEF IsAlone
  <2>2. CASE q = r
    <3>1. SUFFICES ASSUME alone'[r], NEW p \in Requests \ {r} PROVE ~A!Active(p)'
      BY <2>2 DEF IsAlone
    <3>2. ~A!Active(p)
      BY <1>4, <3>1
    <3>. QED
      BY <1>1, <1>2, <3>2 DEF A!Active
  <2>. QED
    BY <2>1, <2>2
<1>8. ASSUME NEW q \in Requests PROVE Promises(q)'
  <2>1. CASE q # r
    <3>1. ~Clean(q)'
      BY <1>5, <2>1 DEF Clean
    <3>. QED
      BY <3>1 DEF Promises
  <2>2. CASE q = r
    <3>1. \A g \in Goals(f) : Leads(A!Plan(f), g, f)
      BY PlanLeads
    <3>2. \A g \in Goals(asked[r]') : Comes(plan[r]', dokku', g, asked[r]')
      BY <1>2, <3>1 DEF Comes
    <3>. QED
      BY <2>2, <3>2 DEF Promises
  <2>. QED
    BY <2>1, <2>2
<1>. QED
  BY <1>1, <1>4, <1>6, <1>7, <1>8 DEF SuccessInv

LEMMA ConfigIsRead ==
    ASSUME DeletionInv, SuccessInv, NEW r \in Requests, A!ReadConfig(r)
    PROVE  SuccessInv'
<1>. DEFINE block == A!RemoveConfigured(dokku, A!Current(r).app)
            rest == Tail(plan[r])
<1>1. /\ A!HasCommand(r) /\ A!Current(r).do = "config"
      /\ plan' = [plan EXCEPT ![r] = block \o rest]
      /\ dokku' = dokku /\ asked' = asked /\ answer' = answer /\ told' = told
      /\ logged' = logged /\ alone' = alone
  BY DEF A!ReadConfig
<1>2. /\ IsRest(rest, plan[r], 1) /\ 1 \in DOMAIN plan[r] /\ A!Current(r) = plan[r][1]
      /\ A!Current(r).app = asked[r].app
  BY <1>1, CommandRuns DEF Belongs
<1>3. Contained(block, asked[r])
  <2>1. PassesOver(block, asked[r])
    BY <1>2, ConfiguredPassesOver
  <2>. HIDE DEF block
  <2>. QED
    BY <2>1 DEF PassesOver, Contained, Proper
<1>4. Proper(plan[r], asked[r]) /\ Proper(rest, asked[r])
  BY <1>2, RestFits DEF DeletionInv, Fits
<1>. HIDE DEF block, rest
<1>5. plan'[r] = block \o rest /\ \A q \in Requests \ {r} : plan'[q] = plan[q]
  BY <1>1 DEF DeletionInv
<1>6. Promises(r)'
  <2>1. SUFFICES ASSUME Clean(r), NEW g \in Goals(asked[r])
                 PROVE  Excused(r, g) \/ Comes(plan'[r], dokku, g, asked[r])
    BY <1>1 DEF Promises, Clean, Excused
  <2>2. CASE Comes(plan[r], dokku, g, asked[r])
    <3>1. plan[r][1].do \in Expands
      BY <1>1, <1>2 DEF Expands
    <3>2. Comes(block \o rest, dokku, g, asked[r])
      BY <1>2, <1>3, <1>4, <2>2, <3>1, ComesAfterExpansion
    <3>. QED
      BY <1>5, <3>2
  <2>. QED
    BY <2>1, <2>2 DEF SuccessInv, Promises
<1>7. A!Active(r) /\ answer[r] = "none" /\ IsWorld(dokku)
  BY <1>1 DEF A!HasCommand, A!Active, IsWorld, DeletionInv, SuccessInv
<1>8. DOMAIN told = Requests /\ DOMAIN logged = Requests
  BY DEF SuccessInv
<1>. QED
  BY <1>1, <1>5, <1>6, <1>7, <1>8, RequestMoves

LEMMA OptionIsSelected ==
    ASSUME DeletionInv, SuccessInv, NEW r \in Requests, A!SelectOption(r)
    PROVE  SuccessInv'
<1>. DEFINE rest == Tail(plan[r])
<1>1. PICK block :
         /\ plan' = [plan EXCEPT ![r] = block \o rest]
         /\ \E option : block = <<A!Stop("unset", A!Current(r).app, option)>>
  BY DEF A!SelectOption
<1>2. /\ A!HasCommand(r) /\ A!Current(r).do = "options"
      /\ dokku' = dokku /\ asked' = asked /\ answer' = answer /\ told' = told
      /\ logged' = logged /\ alone' = alone
  BY DEF A!SelectOption
<1>3. /\ IsRest(rest, plan[r], 1) /\ 1 \in DOMAIN plan[r] /\ A!Current(r) = plan[r][1]
      /\ A!Current(r).app = asked[r].app
  BY <1>2, CommandRuns DEF Belongs
<1>4. Contained(block, asked[r])
  <2>1. PICK c : c.app = asked[r].app /\ c.do = "unset" /\ c.otherwise = "stop"
                 /\ c.skip = 0 /\ block = <<c>>
    BY <1>1, <1>3 DEF A!Stop, A!Command
  <2>2. Belongs(c, asked[r]) /\ ~IsQuiet(c)
    BY <2>1 DEF Belongs, IsQuiet
  <2>. QED
    BY <2>1, <2>2, ShortLeads
<1>5. Proper(plan[r], asked[r]) /\ Proper(rest, asked[r])
  BY <1>3, RestFits DEF DeletionInv, Fits
<1>. HIDE DEF rest
<1>6. plan'[r] = block \o rest /\ \A q \in Requests \ {r} : plan'[q] = plan[q]
  BY <1>1 DEF DeletionInv
<1>7. Promises(r)'
  <2>1. SUFFICES ASSUME Clean(r), NEW g \in Goals(asked[r])
                 PROVE  Excused(r, g) \/ Comes(plan'[r], dokku, g, asked[r])
    BY <1>2 DEF Promises, Clean, Excused
  <2>2. CASE Comes(plan[r], dokku, g, asked[r])
    <3>1. plan[r][1].do \in Expands
      BY <1>2, <1>3 DEF Expands
    <3>2. Comes(block \o rest, dokku, g, asked[r])
      BY <1>3, <1>4, <1>5, <2>2, <3>1, ComesAfterExpansion
    <3>. QED
      BY <1>6, <3>2
  <2>. QED
    BY <2>1, <2>2 DEF SuccessInv, Promises
<1>8. A!Active(r) /\ answer[r] = "none" /\ IsWorld(dokku)
  BY <1>2 DEF A!HasCommand, A!Active, IsWorld, DeletionInv, SuccessInv
<1>9. DOMAIN told = Requests /\ DOMAIN logged = Requests
  BY DEF SuccessInv
<1>. QED
  BY <1>2, <1>6, <1>7, <1>8, <1>9, RequestMoves

LEMMA CommandSucceeds ==
    ASSUME DeletionInv, SuccessInv, NEW r \in Requests, A!Succeeds(r)
    PROVE  SuccessInv'
<1>0. PICK q : q = Tail(plan[r])
  OBVIOUS
<1>1. /\ A!HasCommand(r) /\ A!Accepts(dokku, A!Current(r))
      /\ dokku' = A!After(dokku, A!Current(r))
      /\ plan' = [plan EXCEPT ![r] = q]
      /\ asked' = asked /\ answer' = answer /\ told' = told
      /\ logged' = logged /\ alone' = alone
  BY <1>0 DEF A!Succeeds
<1>2. /\ IsRest(q, plan[r], 1) /\ 1 \in DOMAIN plan[r] /\ A!Current(r) = plan[r][1]
      /\ Proper(plan[r], asked[r])
  BY <1>0, <1>1, CommandRuns DEF DeletionInv, Fits
<1>3. plan'[r] = q /\ \A p \in Requests \ {r} : plan'[p] = plan[p]
  BY <1>1 DEF DeletionInv
<1>4. /\ A!Active(r) /\ answer[r] = "none" /\ asked[r] \in Forms
      /\ IsWorld(dokku) /\ IsWorld(dokku')
  <2>1. A!Active(r) /\ IsWorld(dokku)
    BY <1>1 DEF A!HasCommand, IsWorld, DeletionInv, SuccessInv
  <2>2. answer[r] = "none" /\ asked[r] \in Forms
    BY <2>1 DEF A!Active, SuccessInv
  <2>. QED
    BY <1>1, <2>1, <2>2, AfterIsWorld
<1>5. Promises(r)'
  <2>1. SUFFICES ASSUME Clean(r), NEW g \in Goals(asked[r])
                 PROVE  Excused(r, g) \/ Comes(q, dokku', g, asked[r])
    BY <1>1, <1>3 DEF Promises, Clean, Excused
  <2>2. CASE Comes(plan[r], dokku, g, asked[r])
    <3>1. IsGoal(g)
      BY <1>4, GoalsAreGoals
    <3>2. Comes(q, A!After(dokku, plan[r][1]), g, asked[r])
      BY <1>1, <1>2, <1>4, <2>2, <3>1, ComesAfterSuccess
    <3>. QED
      BY <1>1, <1>2, <3>2
  <2>. QED
    BY <2>1, <2>2 DEF SuccessInv, Promises
<1>6. DOMAIN told = Requests /\ DOMAIN logged = Requests
  BY DEF SuccessInv
<1>. QED
  BY <1>1, <1>3, <1>4, <1>5, <1>6, RequestMoves

LEMMA CommandStops ==
    ASSUME DeletionInv, SuccessInv, NEW r \in Requests, A!Stops(r)
    PROVE  SuccessInv'
<1>1. /\ A!HasCommand(r) /\ A!Trouble(r) /\ A!AnswerError(r)
      /\ asked' = asked /\ told' = told /\ logged' = logged /\ alone' = alone
  BY DEF A!Stops
<1>2. /\ answer'[r] = "error" /\ plan'[r] = <<>>
      /\ \A q \in Requests \ {r} : answer'[q] = answer[q] /\ plan'[q] = plan[q]
  BY <1>1 DEF A!AnswerError, DeletionInv
<1>3. A!Active(r) /\ IsWorld(dokku)
  BY <1>1 DEF A!HasCommand, IsWorld, DeletionInv, SuccessInv
<1>4. dokku' \in {dokku, A!After(dokku, A!Current(r))}
  BY <1>1 DEF A!Trouble
<1>5. IsWorld(dokku')
  BY <1>3, <1>4, AfterIsWorld
<1>6. Promises(r)'
  BY <1>2 DEF Promises, Clean
<1>7. DOMAIN told = Requests /\ DOMAIN logged = Requests
  BY DEF SuccessInv
<1>. QED
  BY <1>1, <1>2, <1>3, <1>5, <1>6, <1>7, RequestMoves

LEMMA CommandIsPassedOver ==
    ASSUME DeletionInv, SuccessInv, NEW r \in Requests, A!GoesOn(r)
    PROVE  SuccessInv'
<1>0. PICK c : c = A!Current(r)
  OBVIOUS
<1>21. PICK q : q = SubSeq(plan[r], 2 + c.skip, Len(plan[r]))
  OBVIOUS
<1>1. /\ A!HasCommand(r) /\ A!Trouble(r) /\ c.otherwise # "stop"
      /\ plan' = [plan EXCEPT ![r] = q]
      /\ told' = [told EXCEPT ![r] = @ \/ c.otherwise = "tell"]
      /\ logged' = [logged EXCEPT ![r] = @ \cup IF c.otherwise = "log" THEN {c.do} ELSE {}]
      /\ asked' = asked /\ answer' = answer /\ alone' = alone
  BY <1>0, <1>21 DEF A!GoesOn
<1>2. /\ IsList(plan[r]) /\ 1 \in DOMAIN plan[r] /\ c = plan[r][1]
      /\ c.skip \in Nat /\ Proper(plan[r], asked[r])
  BY <1>0, <1>1, CommandRuns DEF Belongs, DeletionInv, Fits
<1>3. IsRest(q, plan[r], 1 + c.skip)
  BY <1>21, <1>2, SubSeqIsRest
<1>4. plan'[r] = q /\ \A p \in Requests \ {r} : plan'[p] = plan[p]
  BY <1>1 DEF DeletionInv
<1>5. /\ A!Active(r) /\ answer[r] = "none" /\ asked[r] \in Forms
      /\ IsWorld(dokku) /\ IsWorld(dokku')
      /\ dokku' \in {dokku, A!After(dokku, c)}
  <2>1. A!Active(r) /\ IsWorld(dokku)
    BY <1>1 DEF A!HasCommand, IsWorld, DeletionInv, SuccessInv
  <2>2. answer[r] = "none" /\ asked[r] \in Forms
    BY <2>1 DEF A!Active, SuccessInv
  <2>3. dokku' \in {dokku, A!After(dokku, c)}
    BY <1>0, <1>1 DEF A!Trouble
  <2>. QED
    BY <2>1, <2>2, <2>3, AfterIsWorld
<1>6. DOMAIN told' = Requests /\ DOMAIN logged' = Requests
  BY <1>1 DEF SuccessInv
<1>7. /\ told'[r] <=> told[r] \/ c.otherwise = "tell"
      /\ logged'[r] = logged[r] \cup IF c.otherwise = "log" THEN {c.do} ELSE {}
  BY <1>1 DEF SuccessInv
<1>8. Promises(r)'
  <2>1. SUFFICES ASSUME Clean(r)', NEW g \in Goals(asked[r])
                 PROVE  Excused(r, g)' \/ Comes(q, dokku', g, asked[r])
    BY <1>1, <1>4 DEF Promises
  <2>2. Clean(r) /\ IsQuiet(c)
    BY <1>1, <1>7, <2>1 DEF Clean, IsQuiet
  <2>3. CASE Excused(r, g)
    BY <1>1, <1>7, <2>3 DEF Excused
  <2>4. CASE Comes(plan[r], dokku, g, asked[r])
    <3>1. IsGoal(g)
      BY <1>5, GoalsAreGoals
    <3>2. ExcusedBy(c, g, asked[r]) \/ Comes(q, dokku', g, asked[r])
      BY <1>2, <1>3, <1>5, <2>2, <2>4, <3>1, ComesAfterQuietFailure
    <3>3. ASSUME ExcusedBy(c, g, asked[r]) PROVE Excused(r, g)'
      BY <1>1, <1>7, <3>3 DEF ExcusedBy, Excused
    <3>. QED
      BY <3>2, <3>3
  <2>. QED
    BY <2>2, <2>3, <2>4 DEF SuccessInv, Promises
<1>. QED
  BY <1>1, <1>4, <1>5, <1>6, <1>8, RequestMoves

LEMMA RequestFinishes ==
    ASSUME DeletionInv, SuccessInv, NEW r \in Requests, A!Finish(r)
    PROVE  SuccessInv'
<1>1. /\ A!Active(r) /\ plan[r] = <<>> /\ answer' = [answer EXCEPT ![r] = "ok"]
      /\ dokku' = dokku /\ asked' = asked /\ plan' = plan /\ told' = told
      /\ logged' = logged /\ alone' = alone
  BY DEF A!Finish
<1>2. answer[r] = "none" /\ \A q \in Requests \ {r} : answer'[q] = answer[q]
  BY <1>1 DEF A!Active, DeletionInv
<1>3. IsWorld(dokku) /\ DOMAIN told = Requests /\ DOMAIN logged = Requests
  BY DEF IsWorld, DeletionInv, SuccessInv
<1>4. Promises(r)'
  <2>1. SUFFICES ASSUME Clean(r)', NEW g \in Goals(asked[r])
                 PROVE  Excused(r, g) \/ Comes(plan[r], dokku, g, asked[r])
    BY <1>1 DEF Promises, Excused
  <2>2. Clean(r)
    BY <1>1, <1>2, <2>1 DEF Clean
  <2>. QED
    BY <2>2 DEF SuccessInv, Promises
<1>. QED
  BY <1>1, <1>2, <1>3, <1>4, RequestMoves

LEMMA InitSuccess == A!Init => SuccessInv
<1>. SUFFICES ASSUME A!Init PROVE SuccessInv
  OBVIOUS
<1>1. /\ DOMAIN dokku.settings = Apps /\ DOMAIN dokku.inForce = Apps
      /\ DOMAIN told = Requests /\ DOMAIN logged = Requests /\ DOMAIN alone = Requests
  BY DEF A!Init
<1>2. \A r \in Requests : asked[r] = A!NoForm /\ answer[r] = "none"
  BY DEF A!Init
<1>. QED
  BY <1>1, <1>2 DEF SuccessInv, IsAlone, Promises, Clean

LEMMA NextSuccess ==
    DeletionInv /\ SuccessInv /\ [A!Next]_(A!vars) => SuccessInv'
<1>. SUFFICES ASSUME DeletionInv, SuccessInv, [A!Next]_(A!vars) PROVE SuccessInv'
  OBVIOUS
<1>1. CASE UNCHANGED A!vars
  BY <1>1 DEF A!vars, SuccessInv, IsAlone, Promises, Clean, Excused, A!Active
<1>2. CASE A!Next
  BY <1>2, RequestStarts, ConfigIsRead, OptionIsSelected, CommandSucceeds, CommandStops,
     CommandIsPassedOver, RequestFinishes DEF A!Next
<1>. QED
  BY <1>1, <1>2

LEMMA SuccessIsFulfilled == DeletionInv /\ SuccessInv => SuccessIsComplete
<1>. SUFFICES ASSUME DeletionInv, SuccessInv, NEW r \in Requests,
                     alone[r], answer[r] = "ok", ~told[r]
              PROVE  A!Fulfilled(asked[r], IF "mkdir" \in logged[r] THEN {"mount"} ELSE {})
  BY DEF SuccessIsComplete, A!SuccessIsComplete
<1>1. asked[r] # A!NoForm /\ asked[r] \in Forms /\ plan[r] = <<>> /\ Clean(r)
  BY DEF SuccessInv, Clean
<1>2. PICK excused \in {{}, {"mount"}} :
         excused = IF "mkdir" \in logged[r] THEN {"mount"} ELSE {}
  OBVIOUS
<1>3. ASSUME NEW g \in Goals(asked[r])
      PROVE  Effect(dokku, g) \/ IsExcused(asked[r], excused, g)
  <2>1. Excused(r, g) \/ Comes(<<>>, dokku, g, asked[r])
    BY <1>1 DEF SuccessInv, Promises
  <2>2. Excused(r, g) => IsExcused(asked[r], excused, g)
    BY <1>2 DEF Excused, IsExcused
  <2>3. ~Leads(<<>>, g, asked[r])
    BY DEF Leads
  <2>. QED
    BY <2>1, <2>2, <2>3 DEF Comes
<1>. QED
  BY <1>1, <1>2, <1>3, GoalsFulfil

(***************************************************************************)
(* Success is complete, for all forms, apps and services, whatever         *)
(* commands fail: a request that was alone and is answered with success    *)
(* without a word of a failure has done all it was asked to do.            *)
(***************************************************************************)
THEOREM SuccessStaysComplete == A!Spec => []SuccessIsComplete
<1>1. A!Spec => []SuccessInv
  BY InitSuccess, NextSuccess, DeletionInductive, PTL DEF A!Spec
<1>. QED
  BY <1>1, DeletionInductive, SuccessIsFulfilled, PTL
=============================================================================
