---------------------------- MODULE AccessProofs ----------------------------
(***************************************************************************)
(* The requests of administrators, and the sessions in front of them, for  *)
(* any number of users, browsers and requests; and the grants of the       *)
(* others, for any paths, routes and names.                                *)
(*                                                                         *)
(* Usernames stay unique however requests overlap.  That an administrator  *)
(* is left, that no update is lost and that stale sessions do no harm is   *)
(* proved of behaviours in which requests do not overlap, and only of      *)
(* those: the code checks and saves without a lock.                        *)
(***************************************************************************)
EXTENDS MCAccess, FiniteSetTheorems, TLAPS

-----------------------------------------------------------------------------
(***************************************************************************)
(* Finding a user.  With unique names the first user with a name is the    *)
(* only one, so what is found depends on which users there are, not on     *)
(* their order.                                                            *)
(***************************************************************************)
LEMMA FoundIsAMember ==
    ASSUME NEW users \in Seq(User), NEW name, Exists(users, name),
           ValidateUsers(users)
    PROVE  \E i \in DOMAIN users : /\ users[i].name = name
                                   /\ FindUser(users, name) = users[i]
<1>1. PICK i \in DOMAIN users : users[i].name = name
  BY DEF Exists
<1>2. \A j \in DOMAIN users : users[j].name = name => j = i
  BY <1>1 DEF ValidateUsers
<1>3. \A j \in 1 .. i - 1 : j \in DOMAIN users /\ j # i
  OBVIOUS
<1>4. i = CHOOSE k \in DOMAIN users :
              /\ users[k].name = name
              /\ \A j \in 1 .. k - 1 : users[j].name # name
  BY <1>1, <1>2, <1>3
<1>. QED
  BY <1>1, <1>4 DEF FindUser

LEMMA MemberIsFound ==
    ASSUME NEW users \in Seq(User), ValidateUsers(users), NEW i \in DOMAIN users
    PROVE  Exists(users, users[i].name) /\ FindUser(users, users[i].name) = users[i]
<1>1. Exists(users, users[i].name)
  BY DEF Exists
<1>2. PICK j \in DOMAIN users : /\ users[j].name = users[i].name
                                /\ FindUser(users, users[i].name) = users[j]
  BY <1>1, FoundIsAMember
<1>3. j = i
  BY <1>2 DEF ValidateUsers
<1>. QED
  BY <1>1, <1>2, <1>3

LEMMA FoundHasTheName ==
    ASSUME NEW users \in Seq(User), NEW name, Exists(users, name),
           ValidateUsers(users)
    PROVE  FindUser(users, name) \in User /\ FindUser(users, name).name = name
<1>1. PICK i \in DOMAIN users : /\ users[i].name = name
                                /\ FindUser(users, name) = users[i]
  BY FoundIsAMember
<1>. QED
  BY <1>1

LEMMA EnabledAdminExists ==
    ASSUME NEW users, NEW name, IsEnabledAdmin(FindUser(users, name))
    PROVE  Exists(users, name)
  BY DEF FindUser, IsEnabledAdmin, NoUser

LEMMA EnabledAdminsFinite ==
    ASSUME NEW users \in Seq(User)
    PROVE  IsFiniteSet(EnabledAdmins(users))
<1>1. IsFiniteSet(1 .. Len(users))
  BY FS_Interval
<1>. QED
  BY <1>1, FS_Subset DEF EnabledAdmins

(***************************************************************************)
(* Unless a user is the only enabled administrator, there is another one.  *)
(***************************************************************************)
LEMMA AnotherAdmin ==
    ASSUME NEW users \in Seq(User), NEW i \in EnabledAdmins(users),
           FindEnabledAdminCount(users) # 1
    PROVE  \E j \in EnabledAdmins(users) : j # i
<1>1. EnabledAdmins(users) # {i}
  BY FS_Singleton DEF FindEnabledAdminCount
<1>. QED
  BY <1>1

-----------------------------------------------------------------------------
(***************************************************************************)
(* Every set of numbers has a least one: what is true of a turn of a loop  *)
(* whenever it is true of the turns before is true of all of them.         *)
(***************************************************************************)
LEMMA Least ==
    ASSUME NEW T \in SUBSET Nat, T # {}
    PROVE  \E n \in T : \A m \in T : n <= m
<1>1. \A m, n \in Nat : m < n => <<m, n>> \in OpToRel(<, Nat)
  BY Zenon DEF OpToRel
<1>2. PICK R : /\ IsWellFoundedOn(R, Nat)
               /\ \A m, n \in Nat : m < n => <<m, n>> \in R
  BY <1>1, NatLessThanWellFounded, Zenon
<1>3. PICK n \in T : \A m \in T : ~(<<m, n>> \in R)
  <2>1. T \subseteq Nat /\ IsWellFoundedOn(R, Nat)
    BY <1>2, Zenon
  <2>. QED
    BY <2>1, WFMin, Zenon
<1>4. \A m \in T : ~(m < n)
  BY <1>2, <1>3
<1>. QED
  BY <1>4

(***************************************************************************)
(* The loop of RemoveUser, until its turn n.                               *)
(***************************************************************************)
Turn(users, name, newUsers, n) ==
    IF n = 0 THEN <<>>
    ELSE IF users[n].name # name THEN Append(newUsers[n - 1], users[n])
         ELSE newUsers[n - 1]

IsLoop(users, name, newUsers, last) ==
    newUsers = [n \in 0 .. last |-> Turn(users, name, newUsers, n)]

LEMMA LoopContinues ==
    ASSUME NEW users, NEW name, NEW last \in Nat, NEW newUsers,
           IsLoop(users, name, newUsers, last)
    PROVE  \E longer : IsLoop(users, name, longer, last + 1)
<1>. DEFINE longer == [n \in 0 .. last + 1 |->
                          IF n = last + 1 THEN Turn(users, name, newUsers, last + 1)
                          ELSE newUsers[n]]
<1>1. \A n \in 0 .. last : longer[n] = newUsers[n]
  OBVIOUS
<1>2. \A n \in 0 .. last : newUsers[n] = Turn(users, name, newUsers, n)
  BY DEF IsLoop
<1>3. \A n \in 0 .. last + 1 : Turn(users, name, longer, n) = Turn(users, name, newUsers, n)
  BY <1>1 DEF Turn
<1>4. \A n \in 0 .. last + 1 : longer[n] = Turn(users, name, longer, n)
  BY <1>1, <1>2, <1>3
<1>5. IsLoop(users, name, longer, last + 1)
  BY <1>4 DEF IsLoop
<1>. QED
  BY <1>5

LEMMA LoopEnds ==
    ASSUME NEW users, NEW name, NEW last \in Nat
    PROVE  \E newUsers : IsLoop(users, name, newUsers, last)
<1>. DEFINE Stuck == {n \in Nat : ~\E newUsers : IsLoop(users, name, newUsers, n)}
<1>1. SUFFICES ASSUME Stuck # {} PROVE FALSE
  OBVIOUS
<1>2. PICK n \in Stuck : \A m \in Stuck : n <= m
  <2>1. Stuck \in SUBSET Nat
    OBVIOUS
  <2>. HIDE DEF Stuck
  <2>. QED
    BY <1>1, <2>1, Least
<1>3. IsLoop(users, name, [m \in 0 .. 0 |-> <<>>], 0)
  BY DEF IsLoop, Turn
<1>4. n # 0
  BY <1>3
<1>5. n - 1 \in Nat /\ n - 1 \notin Stuck
  BY <1>2, <1>4
<1>6. \E newUsers : IsLoop(users, name, newUsers, n - 1)
  BY <1>5
<1>7. \E newUsers : IsLoop(users, name, newUsers, (n - 1) + 1)
  BY <1>5, <1>6, LoopContinues
<1>. QED
  BY <1>2, <1>7

(***************************************************************************)
(* What the loop has collected after n turns: the first n users but those  *)
(* with the name, and nothing else.                                        *)
(***************************************************************************)
Collected(users, name, kept, n) ==
    /\ kept \in Seq(User)
    /\ \A j \in DOMAIN kept : \E i \in 1 .. n : /\ kept[j] = users[i]
                                                /\ users[i].name # name
    /\ \A i \in 1 .. n : users[i].name # name
          => \E j \in DOMAIN kept : kept[j] = users[i]

LEMMA TurnCollects ==
    ASSUME NEW users \in Seq(User), NEW name, NEW n \in 1 .. Len(users),
           NEW newUsers, Collected(users, name, newUsers[n - 1], n - 1)
    PROVE  Collected(users, name, Turn(users, name, newUsers, n), n)
<1>. DEFINE kept == newUsers[n - 1]
<1>1. users[n] \in User
  OBVIOUS
<1>2. CASE users[n].name = name
  <2>1. Turn(users, name, newUsers, n) = kept
    BY <1>2 DEF Turn
  <2>. QED
    BY <1>2, <2>1 DEF Collected
<1>3. CASE users[n].name # name
  <2>1. Turn(users, name, newUsers, n) = Append(kept, users[n])
    BY <1>3 DEF Turn
  <2>. DEFINE more == Append(kept, users[n])
  <2>2. kept \in Seq(User)
    BY DEF Collected
  <2>3. more \in Seq(User) /\ Len(more) = Len(kept) + 1
    BY <1>1, <2>2
  <2>4. /\ \A j \in DOMAIN kept : j \in DOMAIN more /\ more[j] = kept[j]
        /\ \A j \in DOMAIN more : j \in DOMAIN kept \/ j = Len(more)
        /\ more[Len(more)] = users[n] /\ Len(more) \in DOMAIN more
    BY <1>1, <2>2, <2>3
  <2>5. \A j \in DOMAIN more : \E i \in 1 .. n : /\ more[j] = users[i]
                                                 /\ users[i].name # name
    <3>1. \A j \in DOMAIN kept : \E i \in 1 .. n : /\ kept[j] = users[i]
                                                   /\ users[i].name # name
      BY DEF Collected
    <3>. QED
      BY <1>3, <2>4, <3>1
  <2>6. \A i \in 1 .. n : users[i].name # name
           => \E j \in DOMAIN more : more[j] = users[i]
    <3>1. \A i \in 1 .. n - 1 : users[i].name # name
             => \E j \in DOMAIN kept : kept[j] = users[i]
      BY DEF Collected
    <3>. QED
      BY <2>4, <3>1
  <2>. QED
    BY <2>1, <2>3, <2>5, <2>6, ZenonT(60) DEF Collected
<1>. QED
  BY <1>2, <1>3

LEMMA RemovedIsTheRest ==
    ASSUME NEW users \in Seq(User), NEW name
    PROVE  Collected(users, name, RemoveUser(users, name), Len(users))
<1>1. PICK newUsers : /\ IsLoop(users, name, newUsers, Len(users))
                      /\ RemoveUser(users, name) = newUsers[Len(users)]
  <2>1. \E newUsers : IsLoop(users, name, newUsers, Len(users))
    <3>1. Len(users) \in Nat
      OBVIOUS
    <3>. QED
      BY <3>1, LoopEnds
  <2>. QED
    BY <2>1 DEF RemoveUser, IsLoop, Turn
<1>2. \A n \in 0 .. Len(users) : newUsers[n] = Turn(users, name, newUsers, n)
  BY <1>1 DEF IsLoop
<1>. DEFINE Wrong == {n \in 0 .. Len(users) : ~Collected(users, name, newUsers[n], n)}
<1>3. ASSUME Wrong # {} PROVE FALSE
  <2>1. PICK n \in Wrong : \A m \in Wrong : n <= m
    <3>1. Wrong \in SUBSET Nat
      OBVIOUS
    <3>. HIDE DEF Wrong
    <3>. QED
      BY <1>3, <3>1, Least
  <2>2. Collected(users, name, newUsers[0], 0)
    <3>1. newUsers[0] = <<>>
      BY <1>2 DEF Turn
    <3>. QED
      BY <3>1 DEF Collected
  <2>3. n \in 1 .. Len(users) /\ n - 1 \notin Wrong
    BY <2>1, <2>2
  <2>4. Collected(users, name, newUsers[n - 1], n - 1)
    BY <2>3
  <2>. QED
    BY <1>2, <2>1, <2>3, <2>4, TurnCollects
<1>. QED
  BY <1>1, <1>3

-----------------------------------------------------------------------------
(***************************************************************************)
(* The users after a change.                                               *)
(***************************************************************************)
LEMMA CommandFields ==
    ASSUME NEW c \in Command
    PROVE  /\ c.kind \in {"create", "update", "password", "delete", "backup"}
           /\ c.actor \in Names
           /\ c.kind \in {"create", "update"} => /\ c.name \in Names
                                                /\ c.role \in Roles
                                                /\ c.disabled \in BOOLEAN
           /\ c.kind \in {"update", "password", "delete"} => c.target \in Names
           /\ c.kind \in {"create", "password"} => c.password \in Passwords
           /\ c.kind = "backup" => c.backup \in Settings
  BY DEF Command

LEMMA ReplacedIsList ==
    ASSUME NEW users \in Seq(User), NEW name, NEW user \in User
    PROVE  ReplaceUser(users, name, user) \in Seq(User)
<1>1. ReplaceUser(users, name, user) \in [1 .. Len(users) -> User]
  BY DEF ReplaceUser
<1>. QED
  BY <1>1

LEMMA ReplacedIsOne ==
    ASSUME NEW users \in Seq(User), ValidateUsers(users), NEW name, NEW user
    PROVE  /\ DOMAIN ReplaceUser(users, name, user) = DOMAIN users
           /\ \A i \in DOMAIN users :
                 ReplaceUser(users, name, user)[i] =
                    IF users[i].name = name THEN user ELSE users[i]
<1>1. ASSUME NEW i \in DOMAIN users, users[i].name = name
      PROVE  \A j \in 1 .. i - 1 : users[j].name # name
  <2>1. \A j \in 1 .. i - 1 : j \in DOMAIN users /\ j # i
    OBVIOUS
  <2>. QED
    BY <1>1, <2>1 DEF ValidateUsers
<1>. QED
  BY <1>1 DEF ReplaceUser

LEMMA ReplacedNobody ==
    ASSUME NEW users \in Seq(User), NEW name, ~Exists(users, name), NEW user
    PROVE  ReplaceUser(users, name, user) = users
<1>1. ReplaceUser(users, name, user) = [i \in DOMAIN users |-> users[i]]
  BY DEF Exists, ReplaceUser
<1>. QED
  BY <1>1

LEMMA NewPasswordTyped ==
    ASSUME NEW user \in User, NEW password \in Passwords
    PROVE  /\ [user EXCEPT !.password = password] \in User
           /\ [user EXCEPT !.password = password].name = user.name
           /\ IsEnabledAdmin(user) => IsEnabledAdmin([user EXCEPT !.password = password])
  BY DEF User, IsEnabledAdmin

LEMMA UsersTyped ==
    ASSUME NEW users \in Seq(User), ValidateUsers(users), NEW c \in Command,
           NEW user, c.kind = "update" => user \in User
    PROVE  UsersAfter(c, user, users) \in Seq(User)
<1>1. CASE c.kind = "create"
  <2>1. Created(c) \in User
    BY <1>1, CommandFields DEF Created, User
  <2>. QED
    BY <1>1, <2>1 DEF UsersAfter
<1>2. CASE c.kind = "update"
  <2>1. user.password \in Passwords
    BY <1>2 DEF User
  <2>2. Updated(c, user) \in User
    BY <1>2, <2>1, CommandFields DEF Updated, User
  <2>. QED
    BY <1>2, <2>2, ReplacedIsList DEF UsersAfter
<1>3. CASE c.kind = "password"
  <2>1. CASE Exists(users, c.target)
    <3>1. FindUser(users, c.target) \in User
      BY <2>1, FoundHasTheName
    <3>2. [FindUser(users, c.target) EXCEPT !.password = c.password] \in User
      BY <1>3, <3>1, NewPasswordTyped, CommandFields
    <3>. QED
      BY <1>3, <3>2, ReplacedIsList DEF UsersAfter
  <2>2. CASE ~Exists(users, c.target)
    BY <1>3, <2>2, ReplacedNobody DEF UsersAfter
  <2>. QED
    BY <2>1, <2>2
<1>4. CASE c.kind = "delete"
  BY <1>4, RemovedIsTheRest DEF UsersAfter, Collected
<1>5. CASE c.kind = "backup"
  BY <1>5 DEF UsersAfter
<1>. QED
  BY <1>1, <1>2, <1>3, <1>4, <1>5, CommandFields

(***************************************************************************)
(* What a request has checked when it changes the users: its actor is an   *)
(* enabled administrator, who does not delete or disable the own account   *)
(* and keeps the role unless there is another enabled administrator.       *)
(***************************************************************************)
Permitted(c, user, users) ==
    /\ IsEnabledAdmin(FindUser(users, c.actor))
    /\ c.kind = "delete" => c.target # c.actor
    /\ c.kind = "update" =>
          /\ Exists(users, c.target)
          /\ user = FindUser(users, c.target)
          /\ ~(c.target = c.actor /\ c.disabled)
          /\ LosesAdmin(c, user) => FindEnabledAdminCount(users) # 1

LEMMA AnAdminIsLeft ==
    ASSUME NEW users \in Seq(User), ValidateUsers(users), NEW c \in Command,
           NEW user, Permitted(c, user, users)
    PROVE  EnabledAdmins(UsersAfter(c, user, users)) # {}
<1>. DEFINE after == UsersAfter(c, user, users)
<1>1. SUFFICES \E j \in DOMAIN after : IsEnabledAdmin(after[j])
  BY DEF EnabledAdmins
<1>2. PICK a \in DOMAIN users : /\ users[a].name = c.actor
                                /\ FindUser(users, c.actor) = users[a]
                                /\ IsEnabledAdmin(users[a])
  BY EnabledAdminExists, FoundIsAMember DEF Permitted
<1>3. CASE c.kind = "create"
  <2>1. after = Append(users, Created(c))
    BY <1>3 DEF UsersAfter
  <2>2. a \in DOMAIN after /\ after[a] = users[a]
    <3>. HIDE DEF after
    <3>. QED
      BY <2>1
  <2>. QED
    BY <1>2, <2>2
<1>4. CASE c.kind = "update"
  <2>1. after = ReplaceUser(users, c.target, Updated(c, user))
    BY <1>4 DEF UsersAfter
  <2>2. /\ DOMAIN after = DOMAIN users
        /\ \A i \in DOMAIN users :
              after[i] = IF users[i].name = c.target THEN Updated(c, user) ELSE users[i]
    BY <2>1, ReplacedIsOne
  <2>3. CASE c.target # c.actor
    BY <1>2, <2>2, <2>3
  <2>4. CASE c.target = c.actor /\ c.role = "admin"
    <3>1. after[a] = Updated(c, user) /\ ~c.disabled
      BY <1>2, <1>4, <2>2, <2>4 DEF Permitted
    <3>. QED
      BY <1>2, <2>2, <2>4, <3>1 DEF IsEnabledAdmin, Updated
  <2>5. CASE c.target = c.actor /\ c.role # "admin"
    <3>1. user = users[a]
      BY <1>2, <1>4, <2>5 DEF Permitted
    <3>2. FindEnabledAdminCount(users) # 1
      BY <1>2, <1>4, <2>5, <3>1 DEF Permitted, LosesAdmin
    <3>3. PICK j \in EnabledAdmins(users) : j # a
      BY <1>2, <3>2, AnotherAdmin DEF EnabledAdmins
    <3>4. users[j].name # c.target /\ j \in DOMAIN users /\ IsEnabledAdmin(users[j])
      BY <1>2, <2>5, <3>3 DEF ValidateUsers, EnabledAdmins
    <3>. QED
      BY <2>2, <3>4
  <2>. QED
    BY <2>3, <2>4, <2>5
<1>5. CASE c.kind = "password"
  <2>. DEFINE new == [FindUser(users, c.target) EXCEPT !.password = c.password]
  <2>1. after = ReplaceUser(users, c.target, new)
    BY <1>5 DEF UsersAfter
  <2>2. /\ DOMAIN after = DOMAIN users
        /\ after[a] = IF users[a].name = c.target THEN new ELSE users[a]
    BY <2>1, ReplacedIsOne
  <2>3. CASE c.target # c.actor
    BY <1>2, <2>2, <2>3
  <2>4. CASE c.target = c.actor
    <3>1. IsEnabledAdmin(new)
      <4>1. users[a] \in User
        OBVIOUS
      <4>. QED
        BY <1>2, <1>5, <2>4, <4>1, NewPasswordTyped, CommandFields
    <3>. QED
      BY <1>2, <2>2, <2>4, <3>1
  <2>. QED
    BY <2>3, <2>4
<1>6. CASE c.kind = "delete"
  <2>1. Collected(users, c.target, after, Len(users)) /\ users[a].name # c.target
    BY <1>2, <1>6, RemovedIsTheRest DEF UsersAfter, Permitted
  <2>2. PICK j \in DOMAIN after : after[j] = users[a]
    <3>1. a \in 1 .. Len(users)
      OBVIOUS
    <3>. HIDE DEF after
    <3>. QED
      BY <2>1, <3>1 DEF Collected
  <2>. QED
    BY <1>2, <2>2
<1>7. CASE c.kind = "backup"
  BY <1>2, <1>7 DEF UsersAfter
<1>. QED
  BY <1>3, <1>4, <1>5, <1>6, <1>7, CommandFields

(***************************************************************************)
(* An update is found under its new name, with the password it had.        *)
(***************************************************************************)
LEMMA UpdateIsFound ==
    ASSUME NEW users \in Seq(User), ValidateUsers(users), NEW c \in Command,
           NEW user, c.kind = "update", user = FindUser(users, c.target),
           Exists(users, c.target), ValidateUsers(UsersAfter(c, user, users))
    PROVE  FindUser(UsersAfter(c, user, users), c.name) = Updated(c, user)
<1>. DEFINE after == UsersAfter(c, user, users)
<1>1. after = ReplaceUser(users, c.target, Updated(c, user))
  BY DEF UsersAfter
<1>2. PICK i \in DOMAIN users : users[i].name = c.target
  BY DEF Exists
<1>3. i \in DOMAIN after /\ after[i] = Updated(c, user)
  BY <1>1, <1>2, ReplacedIsOne
<1>4. after \in Seq(User)
  BY UsersTyped, FoundHasTheName
<1>5. after[i].name = c.name
  BY <1>3 DEF Updated
<1>. HIDE DEF after
<1>. QED
  BY <1>3, <1>4, <1>5, MemberIsFound DEF after

-----------------------------------------------------------------------------
(***************************************************************************)
(* Unique names.  The inductive invariant: between its write and its       *)
(* publication a copy stays the accepted one.                              *)
(***************************************************************************)
HasFields(c) == DOMAIN c = {"users", "backup"}

CopyInv(r) ==
    /\ pc[r] \in {"write", "publish"} => HasFields(copy[r])
    /\ pc[r] = "publish" => ValidateUsers(copy[r].users)

AcceptedInv ==
    /\ NamesAreUnique
    /\ HasFields(running) /\ HasFields(saved)
    /\ DOMAIN pc = Requests /\ DOMAIN copy = Requests
    /\ \A r \in Requests : CopyInv(r)

(***************************************************************************)
(* A step of one request that neither writes nor publishes.                *)
(***************************************************************************)
LEMMA QuietKeeps ==
    ASSUME AcceptedInv, NEW r \in Requests,
           NEW to \in {"idle", "find", "check", "clone", "mutate"},
           pc' = [pc EXCEPT ![r] = to],
           DOMAIN copy' = Requests,
           \A q \in Requests \ {r} : copy'[q] = copy[q]
    PROVE  /\ DOMAIN pc' = Requests /\ DOMAIN copy' = Requests
           /\ \A q \in Requests : CopyInv(q)'
<1>1. pc'[r] = to
  BY DEF AcceptedInv
<1>2. \A q \in Requests \ {r} : pc'[q] = pc[q]
  BY DEF AcceptedInv
<1>3. CopyInv(r)'
  BY <1>1 DEF CopyInv
<1>4. \A q \in Requests \ {r} : CopyInv(q)'
  BY <1>2 DEF CopyInv, AcceptedInv
<1>. QED
  BY <1>3, <1>4 DEF AcceptedInv

LEMMA EndKeeps ==
    ASSUME AcceptedInv, NEW r \in Requests, End(r)
    PROVE  /\ DOMAIN pc' = Requests /\ DOMAIN copy' = Requests
           /\ \A q \in Requests : CopyInv(q)'
<1>1. DOMAIN copy' = Requests /\ \A q \in Requests \ {r} : copy'[q] = copy[q]
  BY DEF End, AcceptedInv
<1>. QED
  BY <1>1, QuietKeeps DEF End

LEMMA InitAccepted == Init => AcceptedInv
  BY DEF Init, AcceptedInv, NamesAreUnique, ValidateUsers, HasFields, CopyInv

LEMMA RequestStepAccepted ==
    ASSUME AcceptedInv, NEW r \in Requests, RequestStep(r)
    PROVE  AcceptedInv'
<1>1. CASE Arrive(r) \/ Find(r) \/ Check(r)
  <2>1. DOMAIN copy' = Requests /\ \A q \in Requests : copy'[q] = copy[q]
    BY <1>1 DEF Arrive, Find, Check, AcceptedInv
  <2>2. \E to \in {"find", "check", "clone", "mutate"} :
           pc' = [pc EXCEPT ![r] = to]
    BY <1>1 DEF Arrive, Find, Check, GoTo
  <2>. QED
    BY <1>1, <2>1, <2>2, QuietKeeps
       DEF Arrive, Find, Check, AcceptedInv, NamesAreUnique, HasFields
<1>2. CASE FindRefuses(r) \/ CheckRefuses(r) \/ WriteFails(r)
  BY <1>2, EndKeeps DEF FindRefuses, CheckRefuses, WriteFails, Refuse,
     AcceptedInv, NamesAreUnique, HasFields
<1>3. CASE Mutate(r)
  <2>1. running'.users = running.users /\ HasFields(running)'
    BY <1>3 DEF Mutate, AcceptedInv, HasFields
  <2>2. DOMAIN copy' = Requests /\ \A q \in Requests : copy'[q] = copy[q]
    BY <1>3 DEF Mutate, AcceptedInv
  <2>. QED
    BY <1>3, <2>1, <2>2, QuietKeeps
       DEF Mutate, GoTo, AcceptedInv, NamesAreUnique, HasFields
<1>4. CASE Clone(r)
  <2>1. pc'[r] = "write" /\ HasFields(copy'[r])
    BY <1>4 DEF Clone, GoTo, AcceptedInv, HasFields
  <2>2. \A q \in Requests \ {r} : pc'[q] = pc[q] /\ copy'[q] = copy[q]
    BY <1>4 DEF Clone, GoTo, AcceptedInv
  <2>3. \A q \in Requests : CopyInv(q)'
    BY <2>1, <2>2 DEF CopyInv, AcceptedInv, HasFields
  <2>. QED
    BY <1>4, <2>3 DEF Clone, GoTo, AcceptedInv, NamesAreUnique, HasFields
<1>5. CASE Write(r)
  <2>1. \A q \in Requests \ {r} : pc'[q] = pc[q]
    BY <1>5 DEF Write, GoTo, AcceptedInv
  <2>2. HasFields(copy[r]) /\ ValidateUsers(copy[r].users)
    BY <1>5 DEF Write, GoTo, AcceptedInv, CopyInv
  <2>3. \A q \in Requests : CopyInv(q)'
    BY <1>5, <2>1, <2>2 DEF Write, CopyInv, AcceptedInv, HasFields
  <2>. QED
    BY <1>5, <2>2, <2>3 DEF Write, GoTo, AcceptedInv, NamesAreUnique, HasFields
<1>6. CASE Publish(r)
  <2>1. ValidateUsers(running'.users) /\ HasFields(running)'
    BY <1>6 DEF Publish, AcceptedInv, NamesAreUnique, CopyInv, HasFields
  <2>. QED
    BY <1>6, <2>1, EndKeeps DEF Publish, AcceptedInv, NamesAreUnique, HasFields
<1>. QED
  BY <1>1, <1>2, <1>3, <1>4, <1>5, <1>6 DEF RequestStep

LEMMA NextAccepted == AcceptedInv /\ [Next]_vars => AcceptedInv'
<1>. SUFFICES ASSUME AcceptedInv, [Next]_vars PROVE AcceptedInv'
  OBVIOUS
<1>1. ASSUME NEW r \in Requests, RequestStep(r) PROVE AcceptedInv'
  BY <1>1, RequestStepAccepted
<1>2. CASE Restart
  BY <1>2 DEF Restart, AcceptedInv, NamesAreUnique, HasFields, CopyInv
<1>3. CASE UNCHANGED vars
  BY <1>3 DEF vars, AcceptedInv, NamesAreUnique, HasFields, CopyInv
<1>. QED
  BY <1>1, <1>2, <1>3 DEF Next

(***************************************************************************)
(* No username is ever taken twice, in the memory or in the file.          *)
(***************************************************************************)
THEOREM UniqueNames == Spec => []NamesAreUnique
<1>1. AcceptedInv => NamesAreUnique
  BY DEF AcceptedInv
<1>. QED
  BY <1>1, InitAccepted, NextAccepted, PTL DEF Spec

-----------------------------------------------------------------------------
(***************************************************************************)
(* Types, and what a request holds at each of its steps, however requests  *)
(* overlap.                                                                *)
(***************************************************************************)
Holds(r) ==
    /\ pc[r] # "idle" => command[r] \in Command
    /\ pc[r] \in {"find", "check"} => command[r].kind # "backup"
    /\ pc[r] = "check" => IsChecked(command[r])
    /\ pc[r] = "mutate" => command[r].kind = "backup"
    /\ pc[r] \in {"check", "clone", "write", "publish"}
          /\ command[r].kind = "update" => found[r] \in User
    /\ pc[r] \in {"write", "publish"} => copy[r] \in Config

TypeInv == TypeOK /\ NamesAreUnique /\ \A r \in Requests : Holds(r)

LEMMA ConfigFields ==
    /\ \A config \in Config : config.users \in Seq(User) /\ config.backup \in Settings
    /\ \A config \in Config, users \in Seq(User) : [config EXCEPT !.users = users] \in Config
    /\ \A config \in Config, backup \in Settings :
          /\ [config EXCEPT !.backup = backup] \in Config
          /\ [config EXCEPT !.backup = backup].users = config.users
  BY DEF Config

LEMMA InitTyped == Init => TypeInv
<1>. SUFFICES ASSUME Init PROVE TypeInv
  OBVIOUS
<1>1. PICK name \in Names, password \in Passwords, backup \in Settings :
         running = [users  |-> <<[name |-> name, role |-> "admin",
                                  disabled |-> FALSE, password |-> password]>>,
                    backup |-> backup]
  BY DEF Init
<1>2. [name |-> name, role |-> "admin", disabled |-> FALSE, password |-> password] \in User
  BY DEF User, Roles
<1>3. running \in Config
  BY <1>1, <1>2 DEF Config
<1>4. NamesAreUnique
  BY <1>1 DEF Init, NamesAreUnique, ValidateUsers
<1>. QED
  BY <1>3, <1>4 DEF Init, TypeInv, TypeOK, Holds, RequestPCs

LEMMA EndTyped ==
    ASSUME TypeInv, NEW r \in Requests, End(r)
    PROVE  /\ pc' \in [Requests -> RequestPCs]
           /\ command' \in [Requests -> Command \cup {NoCommand}]
           /\ found' \in [Requests -> User \cup {NoUser}]
           /\ copy' \in [Requests -> Config \cup {NoCopy}]
           /\ \A q \in Requests : Holds(q)'
<1>1. /\ pc' \in [Requests -> RequestPCs]
      /\ command' \in [Requests -> Command \cup {NoCommand}]
      /\ found' \in [Requests -> User \cup {NoUser}]
      /\ copy' \in [Requests -> Config \cup {NoCopy}]
  BY DEF End, TypeInv, TypeOK, RequestPCs
<1>2. pc'[r] = "idle"
  BY DEF End, TypeInv, TypeOK
<1>3. \A q \in Requests \ {r} : /\ pc'[q] = pc[q] /\ command'[q] = command[q]
                                 /\ found'[q] = found[q] /\ copy'[q] = copy[q]
  BY DEF End, TypeInv, TypeOK
<1>4. Holds(r)'
  BY <1>2 DEF Holds
<1>5. \A q \in Requests \ {r} : Holds(q)'
  BY <1>3 DEF Holds, TypeInv
<1>. QED
  BY <1>1, <1>4, <1>5

LEMMA FoundTyped ==
    ASSUME TypeInv, NEW name
    PROVE  /\ FindUser(running.users, name) \in User \cup {NoUser}
           /\ Exists(running.users, name) => FindUser(running.users, name) \in User
<1>1. running.users \in Seq(User) /\ ValidateUsers(running.users)
  BY ConfigFields DEF TypeInv, TypeOK, NamesAreUnique
<1>. QED
  BY <1>1, FoundHasTheName DEF FindUser

LEMMA RequestStepTyped ==
    ASSUME TypeInv, AcceptedInv, NEW r \in Requests, RequestStep(r)
    PROVE  TypeInv'
<1>. USE DEF TypeInv
<1>0. NamesAreUnique'
  BY RequestStepAccepted DEF AcceptedInv
<1>1. CASE Arrive(r)
  <2>1. PICK c \in Command :
           /\ command' = [command EXCEPT ![r] = c]
           /\ pc' = [pc EXCEPT ![r] = IF c.kind = "backup" THEN "mutate" ELSE "find"]
    BY <1>1 DEF Arrive
  <2>2. TypeOK'
    BY <1>1, <2>1 DEF Arrive, TypeOK, RequestPCs
  <2>3. /\ command'[r] = c
        /\ pc'[r] = IF c.kind = "backup" THEN "mutate" ELSE "find"
    BY <2>1 DEF TypeOK
  <2>4. \A q \in Requests \ {r} : pc'[q] = pc[q] /\ command'[q] = command[q]
    BY <2>1 DEF TypeOK
  <2>5. Holds(r)'
    BY <2>3 DEF Holds
  <2>6. \A q \in Requests \ {r} : Holds(q)'
    BY <1>1, <2>4 DEF Holds, Arrive
  <2>. QED
    BY <1>0, <2>2, <2>5, <2>6
<1>2. CASE Find(r)
  <2>1. /\ pc[r] = "find"
        /\ pc' = [pc EXCEPT ![r] = IF IsChecked(command[r]) THEN "check" ELSE "clone"]
        /\ found' = [found EXCEPT ![r] = IF IsChecked(command[r])
                                         THEN FindUser(running.users, command[r].target)
                                         ELSE NoUser]
        /\ UNCHANGED <<running, saved, command, copy>>
        /\ Findable(command[r])
    BY <1>2 DEF Find, GoTo
  <2>2. TypeOK'
    BY <2>1, FoundTyped DEF TypeOK, RequestPCs
  <2>3. /\ pc'[r] = IF IsChecked(command[r]) THEN "check" ELSE "clone"
        /\ found'[r] = IF IsChecked(command[r])
                       THEN FindUser(running.users, command[r].target) ELSE NoUser
    BY <2>1 DEF TypeOK
  <2>4. \A q \in Requests \ {r} : pc'[q] = pc[q] /\ found'[q] = found[q]
    BY <2>1 DEF TypeOK
  <2>5. command[r].kind = "update" => found'[r] \in User
    BY <2>1, <2>3, FoundTyped DEF IsChecked, Findable
  <2>6. Holds(r)'
    BY <2>1, <2>3, <2>5 DEF Holds
  <2>7. \A q \in Requests \ {r} : Holds(q)'
    BY <2>1, <2>4 DEF Holds
  <2>. QED
    BY <1>0, <2>2, <2>6, <2>7
<1>3. CASE Check(r)
  <2>1. TypeOK'
    BY <1>3 DEF Check, GoTo, TypeOK, RequestPCs
  <2>2. pc[r] = "check" /\ pc'[r] = "clone"
    BY <1>3 DEF Check, GoTo, TypeOK
  <2>3. \A q \in Requests \ {r} : pc'[q] = pc[q]
    BY <1>3 DEF Check, GoTo, TypeOK
  <2>4. \A q \in Requests : Holds(q)'
    BY <1>3, <2>2, <2>3 DEF Holds, Check
  <2>. QED
    BY <1>0, <2>1, <2>4
<1>4. CASE FindRefuses(r) \/ CheckRefuses(r) \/ WriteFails(r)
  <2>1. End(r) /\ UNCHANGED <<running, saved>>
    BY <1>4 DEF FindRefuses, CheckRefuses, WriteFails, Refuse
  <2>. QED
    BY <1>0, <2>1, EndTyped DEF TypeOK
<1>5. CASE Mutate(r)
  <2>1. pc[r] = "mutate" /\ pc'[r] = "clone"
    BY <1>5 DEF Mutate, GoTo, TypeOK
  <2>2. \A q \in Requests \ {r} : pc'[q] = pc[q]
    BY <1>5 DEF Mutate, GoTo, TypeOK
  <2>3. command[r].backup \in Settings
    BY <2>1, CommandFields DEF Holds
  <2>4. TypeOK'
    BY <1>5, <2>3, ConfigFields DEF Mutate, GoTo, TypeOK, RequestPCs
  <2>5. \A q \in Requests : Holds(q)'
    BY <1>5, <2>1, <2>2 DEF Holds, Mutate
  <2>. QED
    BY <1>0, <2>4, <2>5
<1>6. CASE Clone(r)
  <2>1. pc[r] = "clone" /\ pc'[r] = "write"
    BY <1>6 DEF Clone, GoTo, TypeOK
  <2>2. \A q \in Requests \ {r} : pc'[q] = pc[q] /\ copy'[q] = copy[q]
    BY <1>6 DEF Clone, GoTo, TypeOK
  <2>. DEFINE users == UsersAfter(command[r], found[r], running.users)
  <2>3. users \in Seq(User)
    <3>1. command[r] \in Command /\ (command[r].kind = "update" => found[r] \in User)
      BY <2>1 DEF Holds
    <3>. QED
      BY <3>1, UsersTyped, ConfigFields DEF TypeOK, NamesAreUnique
  <2>4. [running EXCEPT !.users = users] \in Config
    BY <2>3, ConfigFields DEF TypeOK
  <2>5. copy' = [copy EXCEPT ![r] = [running EXCEPT !.users = users]]
    BY <1>6 DEF Clone
  <2>6. TypeOK'
    BY <1>6, <2>4, <2>5 DEF Clone, GoTo, TypeOK, RequestPCs
  <2>7. copy'[r] \in Config
    BY <2>4, <2>5 DEF TypeOK
  <2>8. \A q \in Requests : Holds(q)'
    BY <1>6, <2>1, <2>2, <2>7 DEF Holds, Clone
  <2>. QED
    BY <1>0, <2>6, <2>8
<1>7. CASE Write(r)
  <2>1. pc[r] = "write" /\ pc'[r] = "publish"
    BY <1>7 DEF Write, GoTo, TypeOK
  <2>2. \A q \in Requests \ {r} : pc'[q] = pc[q]
    BY <1>7 DEF Write, GoTo, TypeOK
  <2>3. TypeOK'
    BY <1>7, <2>1 DEF Write, GoTo, TypeOK, Holds, RequestPCs
  <2>4. \A q \in Requests : Holds(q)'
    BY <1>7, <2>1, <2>2 DEF Holds, Write
  <2>. QED
    BY <1>0, <2>3, <2>4
<1>8. CASE Publish(r)
  <2>1. running' \in Config /\ UNCHANGED saved /\ End(r)
    BY <1>8 DEF Publish, TypeOK, Holds
  <2>. QED
    BY <1>0, <2>1, EndTyped DEF TypeOK
<1>. QED
  BY <1>1, <1>2, <1>3, <1>4, <1>5, <1>6, <1>7, <1>8 DEF RequestStep

LEMMA NextTyped == TypeInv /\ AcceptedInv /\ [Next]_vars => TypeInv'
<1>. SUFFICES ASSUME TypeInv, AcceptedInv, [Next]_vars PROVE TypeInv'
  OBVIOUS
<1>1. ASSUME NEW r \in Requests, RequestStep(r) PROVE TypeInv'
  BY <1>1, RequestStepTyped
<1>2. CASE Restart
  BY <1>2 DEF Restart, TypeInv, TypeOK, NamesAreUnique, Holds, RequestPCs
<1>3. CASE UNCHANGED vars
  BY <1>3 DEF vars, TypeInv, TypeOK, NamesAreUnique, Holds
<1>. QED
  BY <1>1, <1>2, <1>3 DEF Next

LEMMA Typed == Spec => [](TypeInv /\ AcceptedInv)
  BY InitTyped, InitAccepted, NextTyped, NextAccepted, PTL DEF Spec

(***************************************************************************)
(* Every variable has its type, however requests overlap.                  *)
(***************************************************************************)
THEOREM TypeCorrect == Spec => []TypeOK
<1>1. TypeInv => TypeOK
  BY DEF TypeInv
<1>. QED
  BY <1>1, Typed, PTL

-----------------------------------------------------------------------------
(***************************************************************************)
(* Requests that do not overlap.  UserAdminLastAdmin.cfg shows what two    *)
(* that do overlap can bring about.                                        *)
(***************************************************************************)
OneAtATime == \A q, r \in Requests : pc[q] # "idle" /\ pc[r] # "idle" => q = r

(***************************************************************************)
(* What a request has found and checked is still so when it saves, what it *)
(* saves is made from the shared users, and the file differs from them     *)
(* only between its write and its publication.                             *)
(***************************************************************************)
Progress(r) ==
    /\ pc[r] # "idle" => IsEnabledAdmin(FindUser(running.users, command[r].actor))
    /\ pc[r] \in {"check", "clone", "write", "publish"} =>
          /\ command[r].kind = "delete" => command[r].target # command[r].actor
          /\ command[r].kind = "update" =>
                /\ Exists(running.users, command[r].target)
                /\ found[r] = FindUser(running.users, command[r].target)
    /\ pc[r] \in {"clone", "write", "publish"} =>
          Permitted(command[r], found[r], running.users)
    /\ pc[r] \in {"write", "publish"} =>
          copy[r].users = UsersAfter(command[r], found[r], running.users)
    /\ pc[r] = "publish" => saved = copy[r]

AdminInv ==
    /\ AdminRemains
    /\ \A r \in Requests : Progress(r)
    /\ (\A r \in Requests : pc[r] # "publish") => saved.users = running.users

LEMMA InitAdmin == Init => AdminInv
<1>. SUFFICES ASSUME Init PROVE AdminInv
  OBVIOUS
<1>1. PICK name \in Names, password \in Passwords, backup \in Settings :
         running = [users  |-> <<[name |-> name, role |-> "admin",
                                  disabled |-> FALSE, password |-> password]>>,
                    backup |-> backup]
  BY DEF Init
<1>2. 1 \in EnabledAdmins(running.users)
  BY <1>1 DEF EnabledAdmins, IsEnabledAdmin
<1>3. \A r \in Requests : Progress(r)
  BY DEF Init, Progress
<1>. QED
  BY <1>2, <1>3 DEF Init, AdminInv, AdminRemains

LEMMA SavedHasAdmin ==
    ASSUME TypeInv, AdminInv, NEW r \in Requests, pc[r] \in {"write", "publish"}
    PROVE  EnabledAdmins(copy[r].users) # {}
<1>1. running.users \in Seq(User) /\ ValidateUsers(running.users)
  BY ConfigFields DEF TypeInv, TypeOK, NamesAreUnique
<1>2. command[r] \in Command
  BY DEF TypeInv, Holds
<1>. QED
  BY <1>1, <1>2, AnAdminIsLeft DEF AdminInv, Progress

(***************************************************************************)
(* The others have nothing in flight.                                      *)
(***************************************************************************)
LEMMA OthersIdle ==
    ASSUME TypeOK, OneAtATime, NEW r \in Requests, pc[r] # "idle",
           NEW to, pc' = [pc EXCEPT ![r] = to]
    PROVE  /\ pc'[r] = to
           /\ \A q \in Requests \ {r} : pc'[q] = "idle" /\ Progress(q)'
<1>1. pc'[r] = to /\ \A q \in Requests \ {r} : pc'[q] = pc[q]
  BY DEF TypeOK
<1>2. \A q \in Requests \ {r} : pc[q] = "idle"
  BY DEF OneAtATime
<1>. QED
  BY <1>1, <1>2 DEF Progress

LEMMA RequestStepAdmin ==
    ASSUME TypeInv, AcceptedInv, AdminInv, OneAtATime, OneAtATime',
           NEW r \in Requests, RequestStep(r)
    PROVE  AdminInv'
<1>0. TypeOK /\ running \in Config /\ saved \in Config /\ Holds(r) /\ Progress(r)
  BY DEF TypeInv, TypeOK, AdminInv
<1>1. CASE Arrive(r)
  <2>1. PICK c \in Command :
           /\ IsEnabledAdmin(FindUser(running.users, c.actor))
           /\ command' = [command EXCEPT ![r] = c]
           /\ pc' = [pc EXCEPT ![r] = IF c.kind = "backup" THEN "mutate" ELSE "find"]
    BY <1>1 DEF Arrive
  <2>2. /\ command'[r] = c
        /\ pc'[r] = IF c.kind = "backup" THEN "mutate" ELSE "find"
        /\ \A q \in Requests \ {r} : pc'[q] = pc[q]
    BY <1>0, <2>1 DEF TypeOK
  <2>3. \A q \in Requests \ {r} : pc[q] = "idle"
    BY <2>2 DEF OneAtATime
  <2>4. UNCHANGED <<running, saved>> /\ pc[r] = "idle"
    BY <1>1 DEF Arrive
  <2>5. \A q \in Requests : Progress(q)'
    BY <2>1, <2>2, <2>3, <2>4 DEF Progress
  <2>6. \A q \in Requests : pc[q] # "publish"
    BY <2>3, <2>4
  <2>. QED
    BY <2>4, <2>5, <2>6 DEF AdminInv, AdminRemains
<1>2. CASE Find(r)
  <2>1. /\ pc[r] = "find"
        /\ pc' = [pc EXCEPT ![r] = IF IsChecked(command[r]) THEN "check" ELSE "clone"]
        /\ UNCHANGED <<running, saved, command, copy>>
        /\ Findable(command[r])
    BY <1>2 DEF Find, GoTo
  <2>2. found'[r] = IF IsChecked(command[r])
                    THEN FindUser(running.users, command[r].target) ELSE NoUser
    BY <1>0, <1>2 DEF Find, TypeOK
  <2>3. /\ pc'[r] = IF IsChecked(command[r]) THEN "check" ELSE "clone"
        /\ \A q \in Requests \ {r} : pc'[q] = "idle" /\ Progress(q)'
    BY <1>0, <2>1, OthersIdle
  <2>4. Progress(r)'
    BY <1>0, <2>1, <2>2, <2>3 DEF Progress, IsChecked, Findable, Permitted
  <2>5. saved.users = running.users
    BY <1>0, <2>1 DEF AdminInv, OneAtATime
  <2>. QED
    BY <2>1, <2>3, <2>4, <2>5 DEF AdminInv, AdminRemains
<1>3. CASE Check(r)
  <2>1. /\ pc[r] = "check" /\ Allowed(r)
        /\ pc' = [pc EXCEPT ![r] = "clone"]
        /\ UNCHANGED <<running, saved, command, found, copy>>
    BY <1>3 DEF Check, GoTo
  <2>2. /\ pc'[r] = "clone"
        /\ \A q \in Requests \ {r} : pc'[q] = "idle" /\ Progress(q)'
    BY <1>0, <2>1, OthersIdle
  <2>3. Permitted(command[r], found[r], running.users)
    BY <1>0, <2>1 DEF Progress, Permitted, Allowed, UpdateAllowed
  <2>4. Progress(r)'
    BY <1>0, <2>1, <2>2, <2>3 DEF Progress
  <2>5. saved.users = running.users
    BY <1>0, <2>1 DEF AdminInv, OneAtATime
  <2>. QED
    BY <2>1, <2>2, <2>4, <2>5 DEF AdminInv, AdminRemains
<1>4. CASE FindRefuses(r) \/ CheckRefuses(r) \/ WriteFails(r)
  <2>1. /\ pc[r] \in {"find", "check", "write"} /\ pc' = [pc EXCEPT ![r] = "idle"]
        /\ UNCHANGED <<running, saved>>
    BY <1>4 DEF FindRefuses, CheckRefuses, WriteFails, Refuse, End
  <2>2. /\ pc'[r] = "idle"
        /\ \A q \in Requests \ {r} : pc'[q] = "idle" /\ Progress(q)'
    BY <1>0, <2>1, OthersIdle
  <2>3. saved.users = running.users
    BY <1>0, <2>1 DEF AdminInv, OneAtATime
  <2>. QED
    BY <2>1, <2>2, <2>3 DEF AdminInv, AdminRemains, Progress
<1>5. CASE Mutate(r)
  <2>1. /\ pc[r] = "mutate" /\ pc' = [pc EXCEPT ![r] = "clone"]
        /\ UNCHANGED <<saved, command, found, copy>>
        /\ running' = [running EXCEPT !.backup = command[r].backup]
        /\ command[r].kind = "backup"
    BY <1>0, <1>5 DEF Mutate, GoTo, Holds
  <2>2. running'.users = running.users
    BY <1>0, <2>1 DEF Config
  <2>3. /\ pc'[r] = "clone"
        /\ \A q \in Requests \ {r} : pc'[q] = "idle" /\ Progress(q)'
    BY <1>0, <2>1, OthersIdle
  <2>4. Progress(r)'
    BY <1>0, <2>1, <2>2, <2>3 DEF Progress, Permitted
  <2>5. saved.users = running.users
    BY <1>0, <2>1 DEF AdminInv, OneAtATime
  <2>. QED
    BY <2>1, <2>2, <2>3, <2>4, <2>5 DEF AdminInv, AdminRemains
<1>6. CASE Clone(r)
  <2>. DEFINE users == UsersAfter(command[r], found[r], running.users)
  <2>1. /\ pc[r] = "clone" /\ pc' = [pc EXCEPT ![r] = "write"]
        /\ copy' = [copy EXCEPT ![r] = [running EXCEPT !.users = users]]
        /\ UNCHANGED <<running, saved, command, found>>
    BY <1>6 DEF Clone, GoTo
  <2>2. copy'[r].users = users
    BY <1>0, <2>1 DEF TypeOK, Config
  <2>3. /\ pc'[r] = "write"
        /\ \A q \in Requests \ {r} : pc'[q] = "idle" /\ Progress(q)'
    BY <1>0, <2>1, OthersIdle
  <2>. HIDE DEF users
  <2>4. Progress(r)'
    BY <1>0, <2>1, <2>2, <2>3 DEF Progress, users
  <2>5. saved.users = running.users
    BY <1>0, <2>1 DEF AdminInv, OneAtATime
  <2>. QED
    BY <2>1, <2>3, <2>4, <2>5 DEF AdminInv, AdminRemains
<1>7. CASE Write(r)
  <2>1. /\ pc[r] = "write" /\ pc' = [pc EXCEPT ![r] = "publish"]
        /\ saved' = copy[r]
        /\ UNCHANGED <<running, command, found, copy>>
    BY <1>7 DEF Write, GoTo
  <2>2. /\ pc'[r] = "publish"
        /\ \A q \in Requests \ {r} : pc'[q] = "idle" /\ Progress(q)'
    BY <1>0, <2>1, OthersIdle
  <2>3. Progress(r)'
    BY <1>0, <2>1, <2>2 DEF Progress
  <2>4. EnabledAdmins(saved'.users) # {}
    BY <2>1, SavedHasAdmin
  <2>. QED
    BY <2>1, <2>2, <2>3, <2>4 DEF AdminInv, AdminRemains
<1>8. CASE Publish(r)
  <2>1. /\ pc[r] = "publish" /\ pc' = [pc EXCEPT ![r] = "idle"]
        /\ UNCHANGED saved
        /\ running' = IF command[r].kind = "backup" THEN running ELSE copy[r]
    BY <1>8 DEF Publish, End
  <2>2. pc'[r] = "idle" /\ \A q \in Requests \ {r} : Progress(q)'
    BY <1>0, <2>1, OthersIdle
  <2>3. Progress(r)'
    BY <2>2 DEF Progress
  <2>4. saved.users = running'.users
    <3>1. saved = copy[r] /\ copy[r].users = UsersAfter(command[r], found[r], running.users)
      BY <1>0, <2>1 DEF Progress
    <3>2. command[r].kind = "backup" => copy[r].users = running.users
      BY <3>1 DEF UsersAfter
    <3>. QED
      BY <2>1, <3>1, <3>2
  <2>. QED
    BY <2>1, <2>2, <2>3, <2>4 DEF AdminInv, AdminRemains
<1>. QED
  BY <1>1, <1>2, <1>3, <1>4, <1>5, <1>6, <1>7, <1>8 DEF RequestStep

LEMMA NextAdmin ==
    TypeInv /\ AcceptedInv /\ AdminInv /\ OneAtATime /\ OneAtATime' /\ [Next]_vars
       => AdminInv'
<1>. SUFFICES ASSUME TypeInv, AcceptedInv, AdminInv, OneAtATime, OneAtATime', [Next]_vars
              PROVE  AdminInv'
  OBVIOUS
<1>1. ASSUME NEW r \in Requests, RequestStep(r) PROVE AdminInv'
  BY <1>1, RequestStepAdmin
<1>2. CASE Restart
  BY <1>2 DEF Restart, AdminInv, AdminRemains, Progress
<1>3. CASE UNCHANGED vars
  <2>1. \A r \in Requests : Progress(r)'
    BY <1>3 DEF vars, AdminInv, Progress
  <2>. QED
    BY <1>3, <2>1 DEF vars, AdminInv, AdminRemains
<1>. QED
  BY <1>1, <1>2, <1>3 DEF Next

LEMMA AdminInductive ==
    Spec /\ []OneAtATime => [](TypeInv /\ AcceptedInv /\ AdminInv)
  BY Typed, InitAdmin, NextAdmin, PTL DEF Spec

(***************************************************************************)
(* As long as requests do not overlap, an enabled administrator is left in *)
(* the memory and in the file, also after a crash at any step.             *)
(***************************************************************************)
THEOREM AdminStays == Spec /\ []OneAtATime => []AdminRemains
<1>1. AdminInv => AdminRemains
  BY DEF AdminInv
<1>. QED
  BY <1>1, AdminInductive, PTL

-----------------------------------------------------------------------------
(***************************************************************************)
(* Access with one request behind Auth at a time.  While it waits for its  *)
(* handler the session of its browser is up to date, so the handler's look *)
(* at the role in the session is as good as one at the configuration.      *)
(***************************************************************************)
OneRequest == \A q, r \in Requests : by[q] # NoBrowser /\ by[r] # NoBrowser => q = r

IsUpToDate(s) ==
    LET user == FindUser(running.users, s.name) IN
    IsEnabled(user) /\ s = SessionOf(user)

Visit(r) ==
    /\ pc[r] # "idle" => by[r] # NoBrowser /\ renaming[r] = NoSession
    /\ renaming[r] # NoSession => by[r] # NoBrowser
    /\ IsWaiting(r) => IsUpToDate(session[by[r]])

SessionTypes ==
    /\ session \in [Browsers -> Session \cup {NoSession}]
    /\ by \in [Requests -> Browsers \cup {NoBrowser}]
    /\ renaming \in [Requests -> Session \cup {NoSession}]

SessionInv == SessionTypes /\ \A r \in Requests : Visit(r)

LEMMA SessionOfUser ==
    ASSUME NEW user \in User
    PROVE  SessionOf(user) \in Session /\ SessionOf(user) # NoSession
  BY DEF User, SessionOf, Session, NoSession, Roles

LEMMA SyncedIsUpToDate ==
    ASSUME TypeInv, NEW s
    PROVE  /\ syncConfiguredUser(s) \in Session \cup {NoSession}
           /\ syncConfiguredUser(s) # NoSession => IsUpToDate(syncConfiguredUser(s))
<1>. DEFINE user == FindUser(running.users, s.name)
<1>1. running.users \in Seq(User) /\ ValidateUsers(running.users)
  BY ConfigFields DEF TypeInv, TypeOK, NamesAreUnique
<1>2. CASE IsEnabled(user)
  <2>1. Exists(running.users, s.name)
    BY <1>2 DEF FindUser, IsEnabled
  <2>2. user \in User /\ user.name = s.name
    BY <1>1, <2>1, FoundHasTheName
  <2>3. syncConfiguredUser(s) = SessionOf(user) /\ SessionOf(user).name = s.name
    BY <1>2, <2>2 DEF syncConfiguredUser, SessionOf
  <2>. QED
    BY <1>2, <2>2, <2>3, SessionOfUser DEF IsUpToDate
<1>3. CASE ~IsEnabled(user)
  BY <1>3 DEF syncConfiguredUser
<1>. QED
  BY <1>2, <1>3

LEMMA InitSessions == AccessInit => Init /\ SessionInv
  BY DEF AccessInit, Init, SessionInv, SessionTypes, Visit, IsWaiting

(***************************************************************************)
(* What a browser does by itself touches no session of a request in        *)
(* flight.                                                                 *)
(***************************************************************************)
LEMMA BrowserStepKeeps ==
    ASSUME TypeInv, SessionInv, NEW b \in Browsers, BrowserStep(b)
    PROVE  SessionInv' /\ UNCHANGED vars
<1>1. UNCHANGED vars /\ UNCHANGED renaming
  BY DEF BrowserStep, HandleLogin, HandleLogout, Auth
<1>2. PICK s \in Session \cup {NoSession} : session' = [session EXCEPT ![b] = s]
  <2>1. CASE HandleLogin(b)
    <3>1. PICK i \in DOMAIN running.users :
             session' = [session EXCEPT ![b] = SessionOf(running.users[i])]
      BY <2>1 DEF HandleLogin
    <3>2. running.users[i] \in User
      BY ConfigFields DEF TypeInv, TypeOK
    <3>. QED
      BY <3>1, <3>2, SessionOfUser
  <2>2. CASE HandleLogout(b)
    BY <2>2 DEF HandleLogout
  <2>3. CASE Auth(b)
    BY <2>3, SyncedIsUpToDate DEF Auth
  <2>. QED
    BY <2>1, <2>2, <2>3 DEF BrowserStep
<1>3. \A r \in Requests : by[r] # b
  BY DEF BrowserStep, HandleLogin, HandleLogout, Auth, IsFree
<1>4. \A r \in Requests : by[r] # NoBrowser => session'[by[r]] = session[by[r]]
  BY <1>2, <1>3 DEF SessionInv, SessionTypes
<1>5. ASSUME UNCHANGED by PROVE SessionInv'
  <2>1. SessionTypes'
    BY <1>1, <1>2, <1>5 DEF SessionInv, SessionTypes
  <2>2. \A r \in Requests : Visit(r)'
    BY <1>1, <1>4, <1>5 DEF vars, SessionInv, Visit, IsWaiting, IsUpToDate
  <2>. QED
    BY <2>1, <2>2 DEF SessionInv
<1>6. ASSUME NEW r \in Requests, Auth(b), syncConfiguredUser(session[b]) # NoSession,
             by[r] = NoBrowser, by' = [by EXCEPT ![r] = b]
      PROVE  SessionInv'
  <2>1. SessionTypes'
    BY <1>1, <1>2, <1>6 DEF SessionInv, SessionTypes
  <2>2. by'[r] = b /\ \A q \in Requests \ {r} : by'[q] = by[q]
    BY <1>6 DEF SessionInv, SessionTypes
  <2>3. IsUpToDate(session'[b])
    BY <1>6, SyncedIsUpToDate DEF Auth, SessionInv, SessionTypes
  <2>4. Visit(r)'
    BY <1>1, <1>6, <2>2, <2>3, NoBrowserAssumption
       DEF vars, SessionInv, Visit, IsWaiting, IsUpToDate
  <2>5. \A q \in Requests \ {r} : Visit(q)'
    BY <1>1, <1>4, <2>2 DEF vars, SessionInv, Visit, IsWaiting, IsUpToDate
  <2>. QED
    BY <2>1, <2>4, <2>5 DEF SessionInv
<1>. QED
  BY <1>1, <1>5, <1>6 DEF BrowserStep, HandleLogin, HandleLogout, Auth

(***************************************************************************)
(* While one request is in flight, the others are not.                     *)
(***************************************************************************)
LEMMA NobodyElse ==
    ASSUME SessionInv, OneRequest, NEW r \in Requests, by[r] # NoBrowser
    PROVE  \A q \in Requests \ {r} : /\ by[q] = NoBrowser /\ pc[q] = "idle"
                                      /\ renaming[q] = NoSession
  BY DEF SessionInv, OneRequest, Visit

LEMMA AccessRequestStepKeeps ==
    ASSUME TypeInv, SessionInv, OneRequest, NEW r \in Requests, AccessRequestStep(r)
    PROVE  /\ SessionInv'
           /\ RequestStep(r) \/ UNCHANGED vars
<1>1. by[r] # NoBrowser
  BY DEF AccessRequestStep, requireAdminSettingsAccess, Forbidden, HandlerStep, HandlerRefuses,
     HandlerSaved, updateCurrentSessionUsername, IsWaiting, Find, Check, Mutate, Clone, Write,
     FindRefuses, CheckRefuses, WriteFails, Publish, GoTo, SessionInv, Visit
<1>2. \A q \in Requests \ {r} : by[q] = NoBrowser /\ pc[q] = "idle" /\ renaming[q] = NoSession
  BY <1>1, NobodyElse
<1>3. ASSUME \A q \in Requests \ {r} : /\ by'[q] = by[q] /\ pc'[q] = pc[q]
                                        /\ renaming'[q] = renaming[q]
      PROVE  \A q \in Requests \ {r} : Visit(q)'
  BY <1>2, <1>3 DEF Visit, IsWaiting
<1>4. CASE requireAdminSettingsAccess(r)
  <2>1. PICK c \in Command :
           /\ c.kind \in Kinds
           /\ c.actor = session[by[r]].name
           /\ command' = [command EXCEPT ![r] = c]
           /\ pc' = [pc EXCEPT ![r] = IF c.kind = "backup" THEN "mutate" ELSE "find"]
    BY <1>4 DEF requireAdminSettingsAccess
  <2>2. IsEnabledAdmin(FindUser(running.users, c.actor))
    <3>. DEFINE s == session[by[r]]
                user == FindUser(running.users, s.name)
    <3>1. s.role = "admin" /\ IsUpToDate(s)
      BY <1>4 DEF requireAdminSettingsAccess, SessionInv, Visit
    <3>2. ~user.disabled /\ s = SessionOf(user)
      BY <3>1 DEF IsUpToDate, IsEnabled
    <3>3. user.role = "admin"
      BY <3>1, <3>2 DEF SessionOf
    <3>. QED
      BY <2>1, <3>2, <3>3 DEF IsEnabledAdmin
  <2>3. Arrive(r)
    BY <1>4, <2>1, <2>2 DEF requireAdminSettingsAccess, Arrive, IsWaiting
  <2>4. /\ pc'[r] # "idle" /\ renaming[r] = NoSession
        /\ \A q \in Requests \ {r} : pc'[q] = pc[q]
    BY <1>4, <2>1 DEF requireAdminSettingsAccess, IsWaiting, TypeInv, TypeOK
  <2>5. UNCHANGED sessionVars
    BY <1>4 DEF requireAdminSettingsAccess
  <2>6. Visit(r)'
    BY <1>1, <2>4, <2>5 DEF Visit, IsWaiting, sessionVars
  <2>7. \A q \in Requests \ {r} : Visit(q)'
    BY <1>3, <2>4, <2>5 DEF sessionVars
  <2>. QED
    BY <2>3, <2>5, <2>6, <2>7 DEF SessionInv, SessionTypes, sessionVars, RequestStep
<1>5. CASE Forbidden(r)
  <2>1. UNCHANGED vars /\ UNCHANGED <<session, renaming>> /\ renaming[r] = NoSession
        /\ pc[r] = "idle" /\ by' = [by EXCEPT ![r] = NoBrowser]
    BY <1>5 DEF Forbidden, IsWaiting, Leave
  <2>2. by'[r] = NoBrowser /\ \A q \in Requests \ {r} : by'[q] = by[q]
    BY <2>1 DEF SessionInv, SessionTypes
  <2>3. Visit(r)'
    BY <2>1, <2>2 DEF Visit, IsWaiting, vars
  <2>4. \A q \in Requests \ {r} : Visit(q)'
    BY <1>3, <2>1, <2>2 DEF vars
  <2>. QED
    BY <2>1, <2>3, <2>4 DEF SessionInv, SessionTypes
<1>6. CASE HandlerStep(r)
  <2>1. UNCHANGED sessionVars
    BY <1>6 DEF HandlerStep
  <2>2. pc[r] # "idle" /\ \E to \in RequestPCs \ {"idle"} : pc' = [pc EXCEPT ![r] = to]
    BY <1>6 DEF HandlerStep, Find, Check, Mutate, Clone, Write, GoTo, RequestPCs
  <2>3. pc'[r] # "idle" /\ \A q \in Requests \ {r} : pc'[q] = pc[q]
    BY <2>2 DEF TypeInv, TypeOK
  <2>4. Visit(r)'
    BY <1>1, <2>1, <2>2, <2>3 DEF SessionInv, Visit, IsWaiting, sessionVars
  <2>5. \A q \in Requests \ {r} : Visit(q)'
    BY <1>3, <2>1, <2>3 DEF sessionVars
  <2>. QED
    BY <1>6, <2>1, <2>4, <2>5
       DEF SessionInv, SessionTypes, sessionVars, RequestStep, HandlerStep
<1>7. ASSUME Publish(r) \/ HandlerRefuses(r)
      PROVE  /\ pc[r] # "idle" /\ pc'[r] = "idle"
             /\ \A q \in Requests \ {r} : pc'[q] = pc[q]
  <2>1. pc[r] # "idle" /\ End(r)
    BY <1>7 DEF Publish, HandlerRefuses, FindRefuses, CheckRefuses, WriteFails, Refuse
  <2>. QED
    BY <2>1 DEF End, TypeInv, TypeOK
<1>8. CASE HandlerRefuses(r)
  <2>1. UNCHANGED <<session, renaming>> /\ by' = [by EXCEPT ![r] = NoBrowser]
    BY <1>8 DEF HandlerRefuses, Leave
  <2>2. by'[r] = NoBrowser /\ \A q \in Requests \ {r} : by'[q] = by[q]
    BY <2>1 DEF SessionInv, SessionTypes
  <2>3. Visit(r)'
    BY <1>7, <1>8, <2>1, <2>2 DEF SessionInv, Visit, IsWaiting
  <2>4. \A q \in Requests \ {r} : Visit(q)'
    BY <1>3, <1>7, <1>8, <2>1, <2>2
  <2>. QED
    BY <1>8, <2>1, <2>3, <2>4
       DEF SessionInv, SessionTypes, RequestStep, HandlerRefuses
<1>9. CASE HandlerSaved(r)
  <2>1. Publish(r) /\ UNCHANGED session
    BY <1>9 DEF HandlerSaved
  <2>2. CASE IsOwnUpdate(r)
    <3>1. renaming' = [renaming EXCEPT ![r] = SessionOf(command[r])] /\ UNCHANGED by
      BY <1>9, <2>2 DEF HandlerSaved
    <3>2. SessionOf(command[r]) \in Session /\ SessionOf(command[r]) # NoSession
      <4>1. command[r].name \in Names /\ command[r].role \in Roles
        BY <1>7, <2>1, <2>2, CommandFields DEF TypeInv, Holds, IsOwnUpdate
      <4>. QED
        BY <4>1 DEF SessionOf, Session, NoSession, Roles
    <3>3. /\ renaming'[r] = SessionOf(command[r])
          /\ \A q \in Requests \ {r} : renaming'[q] = renaming[q]
      BY <3>1 DEF SessionInv, SessionTypes
    <3>4. SessionTypes'
      BY <2>1, <3>1, <3>2 DEF SessionInv, SessionTypes
    <3>5. Visit(r)'
      BY <1>1, <1>7, <2>1, <3>1, <3>2, <3>3 DEF Visit, IsWaiting
    <3>6. \A q \in Requests \ {r} : Visit(q)'
      BY <1>3, <1>7, <2>1, <3>1, <3>3
    <3>. QED
      BY <2>1, <3>4, <3>5, <3>6 DEF SessionInv, RequestStep
  <2>3. CASE ~IsOwnUpdate(r)
    <3>1. UNCHANGED renaming /\ by' = [by EXCEPT ![r] = NoBrowser]
      BY <1>9, <2>3 DEF HandlerSaved, Leave
    <3>2. by'[r] = NoBrowser /\ \A q \in Requests \ {r} : by'[q] = by[q]
      BY <3>1 DEF SessionInv, SessionTypes
    <3>3. Visit(r)'
      BY <1>7, <2>1, <3>1, <3>2 DEF SessionInv, Visit, IsWaiting
    <3>4. \A q \in Requests \ {r} : Visit(q)'
      BY <1>3, <1>7, <2>1, <3>1, <3>2
    <3>. QED
      BY <2>1, <3>1, <3>3, <3>4 DEF SessionInv, SessionTypes, RequestStep
  <2>. QED
    BY <2>2, <2>3
<1>10. CASE updateCurrentSessionUsername(r)
  <2>1. /\ session' = [session EXCEPT ![by[r]] = renaming[r]]
        /\ renaming' = [renaming EXCEPT ![r] = NoSession]
        /\ by' = [by EXCEPT ![r] = NoBrowser]
        /\ UNCHANGED vars /\ renaming[r] # NoSession
    BY <1>10 DEF updateCurrentSessionUsername, Leave
  <2>2. pc[r] = "idle"
    BY <2>1 DEF SessionInv, Visit
  <2>3. /\ by'[r] = NoBrowser /\ renaming'[r] = NoSession
        /\ \A q \in Requests \ {r} : by'[q] = by[q] /\ renaming'[q] = renaming[q]
    BY <2>1 DEF SessionInv, SessionTypes
  <2>4. Visit(r)'
    BY <2>1, <2>2, <2>3 DEF Visit, IsWaiting, vars
  <2>5. \A q \in Requests \ {r} : Visit(q)'
    BY <1>3, <2>1, <2>3 DEF vars
  <2>6. SessionTypes'
    BY <1>1, <2>1 DEF SessionInv, SessionTypes
  <2>. QED
    BY <2>1, <2>4, <2>5, <2>6 DEF SessionInv
<1>. QED
  BY <1>4, <1>5, <1>6, <1>8, <1>9, <1>10 DEF AccessRequestStep

LEMMA AccessNextKeeps ==
    TypeInv /\ SessionInv /\ OneRequest /\ [AccessNext]_accessVars
       => SessionInv' /\ [Next]_vars
<1>. SUFFICES ASSUME TypeInv, SessionInv, OneRequest, [AccessNext]_accessVars
              PROVE  SessionInv' /\ [Next]_vars
  OBVIOUS
<1>1. ASSUME NEW b \in Browsers, BrowserStep(b) PROVE SessionInv' /\ [Next]_vars
  BY <1>1, BrowserStepKeeps
<1>2. ASSUME NEW r \in Requests, AccessRequestStep(r) PROVE SessionInv' /\ [Next]_vars
  BY <1>2, AccessRequestStepKeeps DEF Next
<1>3. CASE AccessRestart
  <2>1. Restart
    BY <1>3 DEF AccessRestart
  <2>2. SessionTypes'
    BY <1>3 DEF AccessRestart, SessionTypes
  <2>3. \A r \in Requests : Visit(r)'
    BY <1>3 DEF AccessRestart, Restart, Visit, IsWaiting
  <2>. QED
    BY <2>1, <2>2, <2>3 DEF Next, SessionInv
<1>4. CASE UNCHANGED accessVars
  BY <1>4 DEF accessVars, sessionVars, vars, SessionInv, SessionTypes, Visit, IsWaiting,
     IsUpToDate
<1>. QED
  BY <1>1, <1>2, <1>3, <1>4 DEF AccessNext

LEMMA OneRequestRunsAlone == SessionInv /\ OneRequest => OneAtATime
  BY DEF SessionInv, Visit, OneRequest, OneAtATime

LEMMA AccessInductive ==
    AccessSpec /\ []OneRequest
       => /\ [](TypeInv /\ AcceptedInv /\ SessionInv)
          /\ Spec /\ []OneAtATime
  BY InitSessions, InitTyped, InitAccepted, AccessNextKeeps, NextTyped, NextAccepted,
     OneRequestRunsAlone, PTL DEF AccessSpec, Spec

(***************************************************************************)
(* Browsers with sessions of any age make only the changes UserAdmin       *)
(* allows, as long as one request passes Auth at a time.                   *)
(***************************************************************************)
THEOREM StaleSessionsAreHarmless == AccessSpec /\ []OneRequest => ImplementsUserAdmin
  BY AccessInductive, PTL DEF Spec, ImplementsUserAdmin

(***************************************************************************)
(* So what holds of UserAdmin then holds behind the sessions, too.         *)
(***************************************************************************)
THEOREM AdminStaysBehindSessions == AccessSpec /\ []OneRequest => []AdminRemains
  BY AccessInductive, AdminStays, PTL

-----------------------------------------------------------------------------
(***************************************************************************)
(* The session that an update of the own user leaves behind.               *)
(***************************************************************************)
Renames(r) ==
    /\ pc[r] # "idle" => command[r].actor = session[by[r]].name
    /\ renaming[r] # NoSession => IsUpToDate(renaming[r])

RenamingInv == \A r \in Requests : Renames(r)

LEMMA OwnUpdateIsUpToDate ==
    ASSUME TypeInv, AcceptedInv, AdminInv, RenamingInv, NEW r \in Requests,
           Publish(r), IsOwnUpdate(r)
    PROVE  LET user == FindUser(running'.users, SessionOf(command[r]).name) IN
           IsEnabled(user) /\ SessionOf(command[r]) = SessionOf(user)
<1>. DEFINE c == command[r]
            users == running.users
            after == UsersAfter(c, found[r], users)
<1>1. pc[r] = "publish" /\ running'.users = copy[r].users /\ c.kind = "update"
  BY DEF Publish, IsOwnUpdate
<1>2. /\ copy[r].users = after /\ c \in Command /\ ValidateUsers(copy[r].users)
      /\ found[r] = FindUser(users, c.target) /\ Exists(users, c.target)
      /\ Permitted(c, found[r], users)
  BY <1>1 DEF AdminInv, Progress, TypeInv, Holds, AcceptedInv, CopyInv
<1>3. users \in Seq(User) /\ ValidateUsers(users)
  BY ConfigFields DEF TypeInv, TypeOK, NamesAreUnique
<1>4. FindUser(after, c.name) = Updated(c, found[r])
  <2>. HIDE DEF users, c
  <2>. QED
    BY <1>1, <1>2, <1>3, UpdateIsFound DEF c
<1>5. c.target = c.actor
  BY <1>1 DEF RenamingInv, Renames, IsOwnUpdate
<1>6. ~c.disabled /\ c.role \in Roles
  BY <1>1, <1>2, <1>5, CommandFields DEF Permitted
<1>7. IsEnabled(Updated(c, found[r])) /\ SessionOf(Updated(c, found[r])) = SessionOf(c)
  BY <1>6 DEF IsEnabled, Updated, SessionOf, NoUser, Roles
<1>. QED
  BY <1>1, <1>2, <1>4, <1>7 DEF SessionOf

LEMMA BrowserStepRenames ==
    ASSUME TypeInv, SessionInv, RenamingInv, NEW b \in Browsers, BrowserStep(b)
    PROVE  RenamingInv'
<1>1. UNCHANGED vars /\ UNCHANGED renaming
  BY DEF BrowserStep, HandleLogin, HandleLogout, Auth
<1>2. \A q \in Requests : pc[q] # "idle" => by'[q] = by[q] /\ session'[by[q]] = session[by[q]]
  <2>1. \A q \in Requests : pc[q] # "idle" => by[q] # NoBrowser /\ by[q] # b
    BY DEF BrowserStep, HandleLogin, HandleLogout, Auth, IsFree, SessionInv, Visit
  <2>2. \A a \in Browsers \ {b} : session'[a] = session[a]
    BY DEF BrowserStep, HandleLogin, HandleLogout, Auth, SessionInv, SessionTypes
  <2>3. \A q \in Requests : by[q] # NoBrowser => by'[q] = by[q] /\ by[q] \in Browsers
    BY DEF BrowserStep, HandleLogin, HandleLogout, Auth, SessionInv, SessionTypes
  <2>. QED
    BY <2>1, <2>2, <2>3
<1>. QED
  BY <1>1, <1>2 DEF RenamingInv, Renames, IsUpToDate, vars

LEMMA RequestStepRenames ==
    ASSUME TypeInv, AcceptedInv, AdminInv, SessionInv, OneRequest, RenamingInv,
           NEW r \in Requests, AccessRequestStep(r)
    PROVE  RenamingInv'
<1>1. by[r] # NoBrowser
  BY DEF AccessRequestStep, requireAdminSettingsAccess, Forbidden, HandlerStep, HandlerRefuses,
     HandlerSaved, updateCurrentSessionUsername, IsWaiting, Find, Check, Mutate, Clone, Write,
     FindRefuses, CheckRefuses, WriteFails, Publish, GoTo, SessionInv, Visit
<1>2. \A q \in Requests \ {r} : pc[q] = "idle" /\ renaming[q] = NoSession
  BY <1>1, NobodyElse
<1>3. ASSUME \A q \in Requests \ {r} : pc'[q] = pc[q] /\ renaming'[q] = renaming[q]
      PROVE  \A q \in Requests \ {r} : Renames(q)'
  BY <1>2, <1>3 DEF Renames
<1>4. CASE requireAdminSettingsAccess(r)
  <2>1. PICK c \in Command :
           /\ c.actor = session[by[r]].name
           /\ command' = [command EXCEPT ![r] = c]
           /\ pc' = [pc EXCEPT ![r] = IF c.kind = "backup" THEN "mutate" ELSE "find"]
    BY <1>4 DEF requireAdminSettingsAccess
  <2>2. UNCHANGED sessionVars /\ renaming[r] = NoSession
    BY <1>4 DEF requireAdminSettingsAccess, IsWaiting
  <2>3. command'[r] = c /\ \A q \in Requests \ {r} : pc'[q] = pc[q]
    BY <2>1 DEF TypeInv, TypeOK
  <2>4. Renames(r)'
    BY <2>1, <2>2, <2>3 DEF Renames, sessionVars
  <2>5. \A q \in Requests \ {r} : Renames(q)'
    BY <1>3, <2>2, <2>3 DEF sessionVars
  <2>. QED
    BY <2>4, <2>5 DEF RenamingInv
<1>5. CASE Forbidden(r)
  BY <1>5 DEF Forbidden, IsWaiting, vars, RenamingInv, Renames, IsUpToDate, SessionInv, Visit,
     TypeInv, TypeOK, Leave, SessionTypes
<1>6. CASE HandlerStep(r)
  <2>1. UNCHANGED sessionVars /\ UNCHANGED command /\ pc[r] # "idle"
    BY <1>6 DEF HandlerStep, Find, Check, Mutate, Clone, Write, GoTo
  <2>2. \A q \in Requests \ {r} : pc'[q] = pc[q]
    BY <1>6 DEF HandlerStep, Find, Check, Mutate, Clone, Write, GoTo, TypeInv, TypeOK
  <2>3. renaming[r] = NoSession
    BY <2>1 DEF SessionInv, Visit
  <2>4. Renames(r)'
    BY <2>1, <2>3 DEF RenamingInv, Renames, sessionVars
  <2>5. \A q \in Requests \ {r} : Renames(q)'
    BY <1>3, <2>1, <2>2 DEF sessionVars
  <2>. QED
    BY <2>4, <2>5 DEF RenamingInv
<1>7. ASSUME HandlerSaved(r) \/ HandlerRefuses(r)
      PROVE  /\ pc[r] # "idle" /\ pc'[r] = "idle" /\ renaming[r] = NoSession
             /\ \A q \in Requests \ {r} : pc'[q] = pc[q]
  <2>1. pc[r] # "idle" /\ End(r)
    BY <1>7 DEF HandlerSaved, Publish, HandlerRefuses, FindRefuses, CheckRefuses, WriteFails, Refuse
  <2>. QED
    BY <2>1 DEF End, TypeInv, TypeOK, SessionInv, Visit
<1>8. CASE HandlerRefuses(r)
  <2>1. UNCHANGED renaming
    BY <1>8 DEF HandlerRefuses
  <2>2. Renames(r)'
    BY <1>7, <1>8, <2>1 DEF Renames
  <2>. QED
    BY <1>3, <1>7, <1>8, <2>1, <2>2 DEF RenamingInv
<1>9. CASE HandlerSaved(r)
  <2>1. CASE IsOwnUpdate(r)
    <3>1. /\ Publish(r)
          /\ renaming' = [renaming EXCEPT ![r] = SessionOf(command[r])]
      BY <1>9, <2>1 DEF HandlerSaved
    <3>2. /\ renaming'[r] = SessionOf(command[r])
          /\ \A q \in Requests \ {r} : renaming'[q] = renaming[q]
      BY <3>1 DEF SessionInv, SessionTypes
    <3>3. LET user == FindUser(running'.users, renaming'[r].name) IN
          IsEnabled(user) /\ renaming'[r] = SessionOf(user)
      BY <2>1, <3>1, <3>2, OwnUpdateIsUpToDate, SMTT(30)
    <3>4. Renames(r)'
      BY <1>7, <1>9, <3>3 DEF Renames, IsUpToDate, FindUser, Exists, IsEnabled, SessionOf
    <3>. QED
      BY <1>3, <1>7, <1>9, <3>2, <3>4 DEF RenamingInv
  <2>2. CASE ~IsOwnUpdate(r)
    <3>1. UNCHANGED renaming
      BY <1>9, <2>2 DEF HandlerSaved
    <3>2. Renames(r)'
      BY <1>7, <1>9, <3>1 DEF Renames
    <3>. QED
      BY <1>3, <1>7, <1>9, <3>1, <3>2 DEF RenamingInv
  <2>. QED
    BY <2>1, <2>2
<1>10. CASE updateCurrentSessionUsername(r)
  <2>1. /\ renaming' = [renaming EXCEPT ![r] = NoSession]
        /\ UNCHANGED vars /\ renaming[r] # NoSession
    BY <1>10 DEF updateCurrentSessionUsername
  <2>2. /\ pc[r] = "idle" /\ renaming'[r] = NoSession
        /\ \A q \in Requests \ {r} : renaming'[q] = renaming[q]
    BY <2>1 DEF SessionInv, Visit, SessionTypes
  <2>3. Renames(r)'
    BY <2>1, <2>2 DEF Renames, vars
  <2>. QED
    BY <1>3, <2>1, <2>2, <2>3 DEF RenamingInv, vars
<1>. QED
  BY <1>4, <1>5, <1>6, <1>8, <1>9, <1>10 DEF AccessRequestStep

LEMMA InitRenames == AccessInit => RenamingInv
  BY DEF AccessInit, Init, RenamingInv, Renames

LEMMA NextRenames ==
    TypeInv /\ AcceptedInv /\ AdminInv /\ SessionInv /\ OneRequest /\ RenamingInv
       /\ [AccessNext]_accessVars => RenamingInv'
<1>. SUFFICES ASSUME TypeInv, AcceptedInv, AdminInv, SessionInv, OneRequest, RenamingInv,
                     [AccessNext]_accessVars
              PROVE  RenamingInv'
  OBVIOUS
<1>1. ASSUME NEW b \in Browsers, BrowserStep(b) PROVE RenamingInv'
  BY <1>1, BrowserStepRenames
<1>2. ASSUME NEW r \in Requests, AccessRequestStep(r) PROVE RenamingInv'
  BY <1>2, RequestStepRenames
<1>3. CASE AccessRestart
  BY <1>3 DEF AccessRestart, Restart, RenamingInv, Renames
<1>4. CASE UNCHANGED accessVars
  BY <1>4 DEF accessVars, sessionVars, vars, RenamingInv, Renames, IsUpToDate
<1>. QED
  BY <1>1, <1>2, <1>3, <1>4 DEF AccessNext

(***************************************************************************)
(* Who is answered after an update of the own user has a session that is   *)
(* up to date, unless the server has restarted.                            *)
(***************************************************************************)
LEMMA AnsweredIsUpToDate ==
    ASSUME TypeInv, SessionInv, OneRequest, RenamingInv, [AccessNext]_accessVars,
           NEW r \in Requests, renaming[r] # NoSession, by'[r] = NoBrowser
    PROVE  \/ session' = [b \in Browsers |-> NoSession]
           \/ LET user == FindUser(running.users, session'[by[r]].name) IN
              IsEnabled(user) /\ session'[by[r]] = SessionOf(user)
<1>1. by[r] # NoBrowser /\ pc[r] = "idle" /\ by[r] \in Browsers
  BY DEF SessionInv, Visit, SessionTypes
<1>2. ASSUME NEW b \in Browsers, BrowserStep(b) PROVE FALSE
  BY <1>1, <1>2, NoBrowserAssumption
     DEF BrowserStep, HandleLogin, HandleLogout, Auth, SessionInv, SessionTypes
<1>3. ASSUME NEW q \in Requests, AccessRequestStep(q)
      PROVE  updateCurrentSessionUsername(r)
  <2>1. by[q] # NoBrowser
    BY <1>3 DEF AccessRequestStep, requireAdminSettingsAccess, Forbidden, HandlerStep,
       HandlerRefuses, HandlerSaved, updateCurrentSessionUsername, IsWaiting, Find, Check,
       Mutate, Clone, Write, FindRefuses, CheckRefuses, WriteFails, Publish, GoTo,
       SessionInv, Visit
  <2>2. q = r
    BY <1>1, <2>1 DEF OneRequest
  <2>. QED
    BY <1>1, <1>3, <2>2 DEF AccessRequestStep, requireAdminSettingsAccess, Forbidden,
       HandlerStep, HandlerRefuses, HandlerSaved, IsWaiting, Find, Check, Mutate, Clone,
       Write, FindRefuses, CheckRefuses, WriteFails, Publish, GoTo
<1>4. ASSUME updateCurrentSessionUsername(r)
      PROVE  LET user == FindUser(running.users, session'[by[r]].name) IN
             IsEnabled(user) /\ session'[by[r]] = SessionOf(user)
  <2>1. session'[by[r]] = renaming[r]
    BY <1>1, <1>4 DEF updateCurrentSessionUsername, SessionInv, SessionTypes
  <2>. QED
    BY <2>1 DEF RenamingInv, Renames, IsUpToDate
<1>. QED
  BY <1>1, <1>2, <1>3, <1>4 DEF AccessNext, AccessRestart, accessVars, sessionVars

THEOREM OwnUpdateIsFollowed == AccessSpec /\ []OneRequest => OwnUpdateKeepsSession
<1>1. TypeInv /\ SessionInv /\ OneRequest /\ RenamingInv /\ [AccessNext]_accessVars
         => [\A r \in Requests :
               renaming[r] # NoSession /\ by'[r] = NoBrowser
                  => \/ session' = [b \in Browsers |-> NoSession]
                     \/ LET user == FindUser(running.users, session'[by[r]].name) IN
                        IsEnabled(user) /\ session'[by[r]] = SessionOf(user)]_accessVars
  BY AnsweredIsUpToDate
<1>. QED
  BY <1>1, AccessInductive, AdminInductive, InitRenames, NextRenames, PTL
     DEF AccessSpec, OwnUpdateKeepsSession

-----------------------------------------------------------------------------
(***************************************************************************)
(* Grants.  What the operators on paths do, token by token.                *)
(***************************************************************************)
LEMMA PrefixIs ==
    ASSUME NEW p \in Paths, NEW q \in Paths
    PROVE  Scoped!HasPrefix(p, q)
              <=> Len(q) <= Len(p) /\ \A i \in 1 .. Len(q) : p[i] = q[i]
  BY DEF Scoped!HasPrefix, Scoped!IsPrefix, Paths

LEMMA SuffixIs ==
    ASSUME NEW p \in Paths, NEW q \in Paths
    PROVE  Scoped!HasSuffix(p, q)
              <=> /\ Len(q) <= Len(p)
                  /\ \A i \in 1 .. Len(q) : p[Len(p) - Len(q) + i] = q[i]
<1>. DEFINE P == Scoped!Reverse(p)
            Q == Scoped!Reverse(q)
<1>1. /\ Len(p) \in Nat /\ Len(q) \in Nat
      /\ P \in Paths /\ Len(P) = Len(p) /\ \A i \in 1 .. Len(p) : P[i] = p[Len(p) - i + 1]
      /\ Q \in Paths /\ Len(Q) = Len(q) /\ \A i \in 1 .. Len(q) : Q[i] = q[Len(q) - i + 1]
  BY DEF Scoped!Reverse, Paths
<1>2. Scoped!HasSuffix(p, q) <=> Scoped!HasPrefix(P, Q)
  BY DEF Scoped!HasSuffix, Scoped!IsSuffix, Scoped!HasPrefix
<1>. HIDE DEF P, Q
<1>3. Scoped!HasPrefix(P, Q) <=> Len(q) <= Len(p) /\ \A i \in 1 .. Len(q) : P[i] = Q[i]
  BY <1>1, PrefixIs
<1>4. ASSUME Len(q) <= Len(p)
      PROVE  (\A i \in 1 .. Len(q) : P[i] = Q[i])
               <=> \A i \in 1 .. Len(q) : p[Len(p) - Len(q) + i] = q[i]
  <2>1. \A i \in 1 .. Len(q) : Len(q) - i + 1 \in 1 .. Len(q) /\ i \in 1 .. Len(p)
    BY <1>1, <1>4
  <2>2. ASSUME \A i \in 1 .. Len(q) : P[i] = Q[i], NEW i \in 1 .. Len(q)
        PROVE  p[Len(p) - Len(q) + i] = q[i]
    <3>1. P[Len(q) - i + 1] = Q[Len(q) - i + 1]
      BY <2>1, <2>2
    <3>2. Len(p) - (Len(q) - i + 1) + 1 = Len(p) - Len(q) + i /\ Len(q) - (Len(q) - i + 1) + 1 = i
      BY <1>1
    <3>. QED
      BY <1>1, <2>1, <3>1, <3>2
  <2>3. ASSUME \A i \in 1 .. Len(q) : p[Len(p) - Len(q) + i] = q[i], NEW i \in 1 .. Len(q)
        PROVE  P[i] = Q[i]
    <3>1. p[Len(p) - Len(q) + (Len(q) - i + 1)] = q[Len(q) - i + 1]
      BY <2>1, <2>3
    <3>2. Len(p) - Len(q) + (Len(q) - i + 1) = Len(p) - i + 1
      BY <1>1
    <3>. QED
      BY <1>1, <2>1, <3>1, <3>2
  <2>. QED
    BY <2>2, <2>3
<1>. QED
  BY <1>2, <1>3, <1>4

LEMMA TrimPrefixIs ==
    ASSUME NEW p \in Paths, NEW q \in Paths, Scoped!HasPrefix(p, q)
    PROVE  /\ Scoped!TrimPrefix(p, q) \in Paths
           /\ Len(Scoped!TrimPrefix(p, q)) = Len(p) - Len(q)
           /\ \A i \in 1 .. Len(p) - Len(q) : Scoped!TrimPrefix(p, q)[i] = p[Len(q) + i]
  BY PrefixIs DEF Scoped!TrimPrefix, Paths

LEMMA TrimSuffixIs ==
    ASSUME NEW p \in Paths, NEW q \in Paths, Scoped!HasSuffix(p, q)
    PROVE  /\ Scoped!TrimSuffix(p, q) \in Paths
           /\ Len(Scoped!TrimSuffix(p, q)) = Len(p) - Len(q)
           /\ \A i \in 1 .. Len(p) - Len(q) : Scoped!TrimSuffix(p, q)[i] = p[i]
  BY SuffixIs DEF Scoped!TrimSuffix, Paths

LEMMA FirstSegmentIs ==
    ASSUME NEW p \in Paths
    PROVE  LET f == Scoped!FirstSegment(p) IN
           /\ f \in Paths /\ Len(f) <= Len(p)
           /\ \A i \in 1 .. Len(f) : f[i] = p[i] /\ p[i] # Scoped!Slash
           /\ Len(f) < Len(p) => p[Len(f) + 1] = Scoped!Slash
<1>. DEFINE I == {i \in 1 .. Len(p) : p[i] = Scoped!Slash}
            f == Scoped!FirstSegment(p)
<1>1. Len(p) \in Nat /\ DOMAIN p = 1 .. Len(p)
  BY DEF Paths
<1>2. CASE ~Scoped!HasSlash(p)
  <2>1. f = p
    BY <1>2 DEF Scoped!FirstSegment
  <2>2. \A i \in 1 .. Len(p) : p[i] # Scoped!Slash
    BY <1>1, <1>2 DEF Scoped!HasSlash, Scoped!ToSet
  <2>3. /\ f \in Paths /\ Len(f) = Len(p)
        /\ \A i \in 1 .. Len(f) : f[i] = p[i] /\ p[i] # Scoped!Slash
    BY <2>1, <2>2
  <2>. QED
    BY <1>1, <2>3
<1>3. CASE Scoped!HasSlash(p)
  <2>1. I # {} /\ I \in SUBSET Nat
    BY <1>1, <1>3 DEF Scoped!HasSlash, Scoped!ToSet
  <2>2. \E n \in I : \A m \in I : n <= m
    <3>. HIDE DEF I
    <3>. QED
      BY <2>1, Least
  <2>3. PICK n : n = CHOOSE m \in I : \A k \in I : m <= k
    OBVIOUS
  <2>4. n \in I /\ \A m \in I : n <= m
    <3>. HIDE DEF I
    <3>. QED
      BY <2>2, <2>3
  <2>5. f = SubSeq(p, 1, n - 1)
    BY <1>3, <2>1, <2>3 DEF Scoped!FirstSegment, Scoped!SelectInSeq, Scoped!Min
  <2>6. n \in 1 .. Len(p) /\ p[n] = Scoped!Slash
    BY <2>4
  <2>7. f \in Paths /\ Len(f) = n - 1 /\ \A i \in 1 .. n - 1 : f[i] = p[i]
    BY <1>1, <2>5, <2>6 DEF Paths
  <2>8. \A i \in 1 .. n - 1 : p[i] # Scoped!Slash
    BY <1>1, <2>4
  <2>. HIDE DEF f
  <2>9. Len(f) + 1 = n /\ Len(f) <= Len(p)
    BY <1>1, <2>6, <2>7
  <2>. QED
    BY <2>6, <2>7, <2>8, <2>9 DEF f
<1>. QED
  BY <1>2, <1>3
-----------------------------------------------------------------------------
AppsRoot == Scoped!Under(Scoped!AppsPath)
AppRoots == {AppsRoot, Scoped!Api(AppsRoot), Scoped!Ws(AppsRoot)}

LEMMA SamePath ==
    ASSUME NEW p \in Paths, NEW q \in Paths, Len(p) = Len(q),
           \A i \in 1 .. Len(p) : p[i] = q[i]
    PROVE  p = q
  BY DEF Paths

LEMMA Joined ==
    ASSUME NEW s \in Paths, NEW t \in Paths, NEW w \in Paths,
           Len(w) = Len(s) + Len(t),
           \A i \in 1 .. Len(s) : w[i] = s[i],
           \A i \in 1 .. Len(t) : w[Len(s) + i] = t[i]
    PROVE  s \o t = w
<1>. DEFINE p == s \o t
<1>1. /\ p \in Paths /\ Len(p) = Len(w) /\ Len(w) \in Nat
      /\ Len(s) \in Nat /\ Len(t) \in Nat
      /\ \A i \in 1 .. Len(s) : p[i] = s[i]
      /\ \A i \in 1 .. Len(t) : p[Len(s) + i] = t[i]
  BY DEF Paths
<1>2. \A i \in 1 .. Len(w) : i \in 1 .. Len(s) \/ (i - Len(s) \in 1 .. Len(t) /\ Len(s) + (i - Len(s)) = i)
  BY <1>1
<1>. HIDE DEF p
<1>3. \A i \in 1 .. Len(w) : p[i] = w[i]
  BY <1>1, <1>2, ZenonT(60)
<1>4. p = w
  BY <1>1, <1>3 DEF Paths
<1>. QED
  BY <1>4 DEF p

LEMMA Lengths ==
    ASSUME NEW s \in Paths
    PROVE  Len(s) \in Nat /\ (s = <<>> <=> Len(s) = 0)
  BY DEF Paths

LEMMA Associative ==
    ASSUME NEW s \in Paths, NEW t \in Paths, NEW w \in Paths
    PROVE  (s \o t) \o w = s \o (t \o w)
<1>. PICK right : right = s \o (t \o w)
  OBVIOUS
<1>. PICK left : left = s \o t
  OBVIOUS
<1>. PICK rest : rest = t \o w
  OBVIOUS
<1>1. /\ Len(s) \in Nat /\ Len(t) \in Nat /\ Len(w) \in Nat
      /\ left \in Paths /\ Len(left) = Len(s) + Len(t)
      /\ \A i \in 1 .. Len(s) : left[i] = s[i]
      /\ \A i \in 1 .. Len(left) : i > Len(s) => left[i] = t[i - Len(s)]
      /\ rest \in Paths /\ Len(rest) = Len(t) + Len(w)
      /\ \A i \in 1 .. Len(t) : rest[i] = t[i]
      /\ \A i \in 1 .. Len(w) : rest[Len(t) + i] = w[i]
  BY DEF Paths
<1>2. /\ right \in Paths /\ Len(right) = Len(s) + Len(rest)
      /\ \A i \in 1 .. Len(s) : right[i] = s[i]
      /\ \A i \in 1 .. Len(rest) : right[Len(s) + i] = rest[i]
  BY <1>1 DEF Paths
<1>3. \A i \in 1 .. Len(left) : right[i] = left[i]
  <2>1. TAKE i \in 1 .. Len(left)
  <2>2. CASE i \in 1 .. Len(s)
    BY <1>1, <1>2, <2>2
  <2>3. CASE i - Len(s) \in 1 .. Len(t)
    <3>1. Len(s) + (i - Len(s)) = i /\ i - Len(s) \in 1 .. Len(rest)
      BY <1>1, <2>3
    <3>. QED
      BY <1>1, <1>2, <2>3, <3>1
  <2>. QED
    BY <1>1, <2>2, <2>3
<1>4. \A i \in 1 .. Len(w) : right[Len(left) + i] = w[i]
  <2>1. TAKE i \in 1 .. Len(w)
  <2>2. Len(left) + i = Len(s) + (Len(t) + i) /\ Len(t) + i \in 1 .. Len(rest)
    BY <1>1
  <2>. QED
    BY <1>1, <1>2, <2>2
<1>5. Len(right) = Len(left) + Len(w)
  BY <1>1, <1>2
<1>. QED
  BY <1>1, <1>2, <1>3, <1>4, <1>5, Joined

LEMMA KnownTokens ==
    /\ "/" \in Tokens /\ "*" \in Tokens /\ "apps" \in Tokens /\ "services" \in Tokens
    /\ "api" \in Tokens /\ "ws" \in Tokens /\ "create" \in Tokens
    /\ "installed" \in Tokens /\ "available" \in Tokens
    /\ "logs" \in Tokens /\ "env" \in Tokens /\ "x" \in Tokens
  BY GrantsAssumption DEF GrantsTypeOK

LEMMA Extended ==
    ASSUME NEW p \in Paths, NEW a \in Tokens, NEW b \in Tokens
    PROVE  LET q == <<a, b>> \o p IN
           /\ q \in Paths /\ Len(q) = 2 + Len(p)
           /\ q[1] = a /\ q[2] = b
           /\ \A i \in 1 .. Len(p) : q[2 + i] = p[i]
<1>1. <<a, b>> \in Paths /\ Len(<<a, b>>) = 2
  BY DEF Paths
<1>. QED
  BY <1>1 DEF Paths

LEMMA Slashed ==
    ASSUME NEW p \in Paths
    PROVE  /\ Scoped!Under(p) \in Paths /\ Len(Scoped!Under(p)) = Len(p) + 1
           /\ Len(p) \in Nat
           /\ \A i \in 1 .. Len(p) : Scoped!Under(p)[i] = p[i]
           /\ Scoped!Under(p)[Len(p) + 1] = "/"
<1>1. <<"/">> \in Paths /\ Len(<<"/">>) = 1 /\ <<"/">>[1] = "/"
  BY KnownTokens DEF Paths
<1>2. Scoped!Under(p) = p \o <<"/">>
  BY DEF Scoped!Under, Scoped!Slash
<1>. QED
  BY <1>1, <1>2 DEF Paths

LEMMA RootsAre ==
    ASSUME NEW area, NEW name \in Tokens, area = <<"/", name>>
    PROVE  LET root == Scoped!Under(area) IN
           /\ root \in Paths /\ Len(root) = 3
           /\ root[1] = "/" /\ root[2] = name /\ root[3] = "/"
           /\ Scoped!Api(root) \in Paths /\ Len(Scoped!Api(root)) = 5
           /\ Scoped!Api(root)[1] = "/" /\ Scoped!Api(root)[2] = "api"
           /\ Scoped!Api(root)[3] = "/" /\ Scoped!Api(root)[4] = name
           /\ Scoped!Api(root)[5] = "/"
           /\ Scoped!Ws(root) \in Paths /\ Len(Scoped!Ws(root)) = 5
           /\ Scoped!Ws(root)[1] = "/" /\ Scoped!Ws(root)[2] = "ws"
           /\ Scoped!Ws(root)[3] = "/" /\ Scoped!Ws(root)[4] = name
           /\ Scoped!Ws(root)[5] = "/"
<1>1. /\ area \in Paths /\ Len(area) = 2 /\ area[1] = "/" /\ area[2] = name
  BY KnownTokens DEF Paths
<1>. PICK root : root = Scoped!Under(area)
  OBVIOUS
<1>2. /\ root \in Paths /\ Len(root) = 3
      /\ root[1] = "/" /\ root[2] = name /\ root[3] = "/"
  <2>1. /\ root \in Paths /\ Len(root) = Len(area) + 1
        /\ \A i \in 1 .. Len(area) : root[i] = area[i]
        /\ root[Len(area) + 1] = "/"
    BY <1>1, Slashed
  <2>2. 1 \in 1 .. Len(area) /\ 2 \in 1 .. Len(area) /\ 2 + 1 = 3
    BY <1>1
  <2>. QED
    BY <1>1, <2>1, <2>2
<1>3. /\ Scoped!Api(root) = <<"/", "api">> \o root
      /\ Scoped!Ws(root) = <<"/", "ws">> \o root
  BY DEF Scoped!Api, Scoped!Ws, Scoped!Slash
<1>4. ASSUME NEW kind \in Tokens, NEW q, q = <<"/", kind>> \o root
      PROVE  /\ q \in Paths /\ Len(q) = 5
             /\ q[1] = "/" /\ q[2] = kind /\ q[3] = "/" /\ q[4] = name /\ q[5] = "/"
  <2>2. /\ q \in Paths /\ Len(q) = 2 + Len(root)
        /\ q[1] = "/" /\ q[2] = kind
        /\ \A i \in 1 .. Len(root) : q[2 + i] = root[i]
    BY <1>2, <1>4, KnownTokens, Extended
  <2>3. /\ 1 \in 1 .. Len(root) /\ 2 \in 1 .. Len(root) /\ 3 \in 1 .. Len(root)
        /\ 2 + 1 = 3 /\ 2 + 2 = 4 /\ 2 + 3 = 5
    BY <1>2
  <2>4. q[3] = root[1] /\ q[4] = root[2] /\ q[5] = root[3]
    BY <2>2, <2>3
  <2>. QED
    BY <1>2, <2>2, <2>3, <2>4
<1>5. "api" \in Tokens /\ "ws" \in Tokens
  BY KnownTokens
<1>6. \A q : q = Scoped!Api(root) =>
      /\ q \in Paths /\ Len(q) = 5
      /\ q[1] = "/" /\ q[2] = "api" /\ q[3] = "/" /\ q[4] = name /\ q[5] = "/"
  <2>1. TAKE q
  <2>2. HAVE q = Scoped!Api(root)
  <2>3. q = <<"/", "api">> \o root
    BY <1>3, <2>2
  <2>4. "api" \in Tokens
    BY <1>5
  <2>. QED
    BY <1>4, <2>3, <2>4
<1>7. \A q : q = Scoped!Ws(root) =>
      /\ q \in Paths /\ Len(q) = 5
      /\ q[1] = "/" /\ q[2] = "ws" /\ q[3] = "/" /\ q[4] = name /\ q[5] = "/"
  <2>1. TAKE q
  <2>2. HAVE q = Scoped!Ws(root)
  <2>3. q = <<"/", "ws">> \o root
    BY <1>3, <2>2
  <2>4. "ws" \in Tokens
    BY <1>5
  <2>. QED
    BY <1>4, <2>3, <2>4
<1>. QED
  BY <1>2, <1>6, <1>7

LEMMA AreasAre ==
    /\ Scoped!AppsPath = <<"/", "apps">> /\ Scoped!ServicesPath = <<"/", "services">>
    /\ "apps" \in Tokens /\ "services" \in Tokens
  BY KnownTokens DEF Scoped!AppsPath, Scoped!ServicesPath, Scoped!Slash

LEMMA OneAppTail ==
    ASSUME NEW path \in Paths, NEW root \in AppRoots, Scoped!HasPrefix(path, root)
    PROVE  /\ Scoped!Tails(path, Scoped!AppsPath) = {Scoped!TrimPrefix(path, root)}
           /\ Scoped!Tails(path, Scoped!ServicesPath) = {}
<1>. PICK apps : apps = AppsRoot
  OBVIOUS
<1>. PICK services : services = Scoped!Under(Scoped!ServicesPath)
  OBVIOUS
<1>. PICK appsApi, appsWs, servicesApi, servicesWs :
        /\ appsApi = Scoped!Api(apps) /\ appsWs = Scoped!Ws(apps)
        /\ servicesApi = Scoped!Api(services) /\ servicesWs = Scoped!Ws(services)
  OBVIOUS
<1>1. /\ apps \in Paths /\ Len(apps) = 3 /\ apps[2] = "apps"
      /\ appsApi \in Paths /\ Len(appsApi) = 5 /\ appsApi[2] = "api" /\ appsApi[4] = "apps"
      /\ appsWs \in Paths /\ Len(appsWs) = 5 /\ appsWs[2] = "ws" /\ appsWs[4] = "apps"
  BY RootsAre, AreasAre DEF AppsRoot
<1>2. /\ services \in Paths /\ Len(services) = 3 /\ services[2] = "services"
      /\ servicesApi \in Paths /\ Len(servicesApi) = 5
      /\ servicesApi[2] = "api" /\ servicesApi[4] = "services"
      /\ servicesWs \in Paths /\ Len(servicesWs) = 5
      /\ servicesWs[2] = "ws" /\ servicesWs[4] = "services"
  BY RootsAre, AreasAre
<1>3. root \in {apps, appsApi, appsWs}
  BY DEF AppRoots
<1>4. /\ \A q \in {apps, appsApi, appsWs, services, servicesApi, servicesWs} :
            Scoped!HasPrefix(path, q) => path[2] = q[2]
      /\ \A q \in {appsApi, appsWs, servicesApi, servicesWs} :
            Scoped!HasPrefix(path, q) => path[4] = q[4]
  <2>1. ASSUME NEW q \in {apps, appsApi, appsWs, services, servicesApi, servicesWs},
               Scoped!HasPrefix(path, q)
        PROVE  path[2] = q[2]
    <3>1. q \in Paths /\ Len(q) \in {3, 5}
      BY <1>1, <1>2, <2>1, Zenon
    <3>2. 2 \in 1 .. Len(q)
      BY <3>1
    <3>. QED
      BY <2>1, <3>1, <3>2, PrefixIs
  <2>2. ASSUME NEW q \in {appsApi, appsWs, servicesApi, servicesWs},
               Scoped!HasPrefix(path, q)
        PROVE  path[4] = q[4]
    <3>1. q \in Paths /\ Len(q) = 5
      BY <1>1, <1>2, <2>2, Zenon
    <3>2. 4 \in 1 .. Len(q)
      BY <3>1
    <3>. QED
      BY <2>2, <3>1, <3>2, PrefixIs
  <2>. QED
    BY <2>1, <2>2
<1>5. \A q \in {apps, appsApi, appsWs} : Scoped!HasPrefix(path, q) => q = root
  BY <1>1, <1>3, <1>4
<1>6. \A q \in {services, servicesApi, servicesWs} : ~Scoped!HasPrefix(path, q)
  BY <1>1, <1>2, <1>3, <1>4
<1>7. /\ Scoped!Tails(path, Scoped!AppsPath)
            = {Scoped!TrimPrefix(path, q) : q \in {r \in {apps, appsApi, appsWs} : Scoped!HasPrefix(path, r)}}
      /\ Scoped!Tails(path, Scoped!ServicesPath)
            = {Scoped!TrimPrefix(path, q) :
                  q \in {r \in {services, servicesApi, servicesWs} : Scoped!HasPrefix(path, r)}}
  BY DEF Scoped!Tails, AppsRoot
<1>. QED
  BY <1>3, <1>5, <1>6, <1>7

LEMMA FirstIsName ==
    ASSUME NEW name, IsName(name), NEW rest \in Paths,
           rest = <<>> \/ rest[1] = Scoped!Slash
    PROVE  Scoped!FirstSegment(name \o rest) = name
<1>. DEFINE p == name \o rest
            f == Scoped!FirstSegment(p)
<1>1. /\ name \in Paths /\ p \in Paths /\ Len(name) \in Nat /\ Len(rest) \in Nat
      /\ Len(p) = Len(name) + Len(rest)
      /\ \A i \in 1 .. Len(name) : p[i] = name[i] /\ name[i] # Scoped!Slash
      /\ rest # <<>> => Len(rest) > 0 /\ p[Len(name) + 1] = Scoped!Slash
  BY DEF IsName, Paths
<1>. HIDE DEF p
<1>2. /\ f \in Paths /\ Len(f) \in Nat /\ Len(f) <= Len(p)
      /\ \A i \in 1 .. Len(f) : f[i] = p[i] /\ p[i] # Scoped!Slash
      /\ Len(f) < Len(p) => p[Len(f) + 1] = Scoped!Slash
  BY <1>1, FirstSegmentIs DEF Paths
<1>. HIDE DEF f
<1>3. ~(Len(f) < Len(name))
  BY <1>1, <1>2
<1>4. ~(Len(f) > Len(name))
  <2>1. SUFFICES ASSUME Len(f) > Len(name) PROVE FALSE
    OBVIOUS
  <2>2. rest # <<>>
    BY <1>1, <1>2, <2>1
  <2>3. Len(name) + 1 \in 1 .. Len(f)
    BY <1>1, <1>2, <2>1
  <2>. QED
    BY <1>1, <1>2, <2>2, <2>3
<1>5. Len(f) = Len(name) /\ \A i \in 1 .. Len(f) : f[i] = name[i]
  BY <1>1, <1>2, <1>3, <1>4
<1>6. f = name
  BY <1>1, <1>2, <1>5 DEF Paths
<1>. QED
  BY <1>6 DEF f, p

LEMMA PathParts ==
    ASSUME NEW root \in Paths, NEW name \in Paths, NEW rest \in Paths
    PROVE  LET path == root \o name \o rest IN
           /\ path \in Paths
           /\ Scoped!HasPrefix(path, root)
           /\ Scoped!TrimPrefix(path, root) = name \o rest
           /\ rest # <<>> /\ rest[1] = Scoped!Slash
                 => Scoped!HasPrefix(path, Scoped!Under(root \o name))
<1>. DEFINE path == root \o name \o rest
<1>1. /\ path \in Paths /\ name \o rest \in Paths
      /\ Len(root) \in Nat /\ Len(name) \in Nat /\ Len(rest) \in Nat
      /\ Len(path) = Len(root) + Len(name) + Len(rest)
      /\ Len(name \o rest) = Len(name) + Len(rest)
      /\ \A i \in 1 .. Len(root) : path[i] = root[i]
      /\ \A i \in 1 .. Len(name) + Len(rest) : path[Len(root) + i] = (name \o rest)[i]
  BY DEF Paths
<1>2. LET longer == Scoped!Under(root \o name) IN
      /\ longer \in Paths /\ Len(longer) = Len(root) + Len(name) + 1
      /\ \A i \in 1 .. Len(root) + Len(name) : longer[i] = path[i]
      /\ longer[Len(root) + Len(name) + 1] = Scoped!Slash
  <2>. PICK start : start = root \o name
    OBVIOUS
  <2>1. /\ start \in Paths /\ Len(start) = Len(root) + Len(name)
        /\ \A i \in 1 .. Len(root) + Len(name) : start[i] = path[i]
    BY DEF Paths
  <2>. QED
    BY <2>1, Slashed DEF Scoped!Slash
<1>3. rest # <<>> => Len(rest) > 0 /\ path[Len(root) + Len(name) + 1] = rest[1]
  BY DEF Paths
<1>. HIDE DEF path
<1>4. Scoped!HasPrefix(path, root)
  BY <1>1, PrefixIs
<1>5. Scoped!TrimPrefix(path, root) = name \o rest
  <2>. PICK t : t = Scoped!TrimPrefix(path, root)
    OBVIOUS
  <2>1. /\ t \in Paths /\ Len(t) = Len(path) - Len(root)
        /\ \A i \in 1 .. Len(path) - Len(root) : t[i] = path[Len(root) + i]
    BY <1>1, <1>4, TrimPrefixIs, ZenonT(30)
  <2>. PICK tail : tail = name \o rest
    OBVIOUS
  <2>2. tail \in Paths /\ Len(t) = Len(tail) /\ Len(tail) = Len(name) + Len(rest)
    BY <1>1, <2>1
  <2>3. \A i \in 1 .. Len(t) : t[i] = tail[i]
    <3>. TAKE i \in 1 .. Len(t)
    <3>1. i \in 1 .. Len(path) - Len(root) /\ i \in 1 .. Len(name) + Len(rest)
      BY <1>1, <2>1, <2>2
    <3>. QED
      BY <1>1, <2>1, <3>1
  <2>4. t = tail
    BY <2>1, <2>2, <2>3, SamePath
  <2>. QED
    BY <2>4
<1>6. ASSUME rest # <<>>, rest[1] = Scoped!Slash
      PROVE  Scoped!HasPrefix(path, Scoped!Under(root \o name))
  <2>. PICK longer : longer = Scoped!Under(root \o name)
    OBVIOUS
  <2>1. Len(longer) <= Len(path) /\ \A i \in 1 .. Len(longer) : path[i] = longer[i]
    <3>1. /\ longer \in Paths /\ Len(longer) = Len(root) + Len(name) + 1
          /\ \A i \in 1 .. Len(root) + Len(name) : longer[i] = path[i]
          /\ longer[Len(root) + Len(name) + 1] = Scoped!Slash
      BY <1>2
    <3>2. Len(rest) > 0 /\ path[Len(root) + Len(name) + 1] = Scoped!Slash
      BY <1>3, <1>6
    <3>3. \A i \in 1 .. Len(longer) :
             i \in 1 .. Len(root) + Len(name) \/ i = Len(root) + Len(name) + 1
      BY <1>1, <3>1
    <3>. QED
      BY <1>1, <3>1, <3>2, <3>3, SMTT(30)
  <2>. QED
    BY <1>1, <1>2, <2>1, PrefixIs
<1>. QED
  BY <1>1, <1>4, <1>5, <1>6 DEF path

LEMMA RootTokens ==
    ASSUME NEW root \in AppRoots
    PROVE  /\ root \in Paths /\ Len(root) \in {3, 5}
           /\ root[1] = "/" /\ root[3] = "/"
           /\ root[2] = "apps" <=> root = AppsRoot
           /\ root = AppsRoot <=> Len(root) = 3
           /\ root # AppsRoot => root[2] \in {"api", "ws"} /\ root[4] = "apps"
<1>. PICK apps : apps = AppsRoot
  OBVIOUS
<1>. PICK api, ws : api = Scoped!Api(apps) /\ ws = Scoped!Ws(apps)
  OBVIOUS
<1>1. /\ apps \in Paths /\ Len(apps) = 3 /\ apps[1] = "/" /\ apps[2] = "apps" /\ apps[3] = "/"
      /\ api \in Paths /\ Len(api) = 5 /\ api[1] = "/" /\ api[2] = "api" /\ api[3] = "/"
      /\ api[4] = "apps"
      /\ ws \in Paths /\ Len(ws) = 5 /\ ws[1] = "/" /\ ws[2] = "ws" /\ ws[3] = "/"
      /\ ws[4] = "apps"
  BY RootsAre, AreasAre DEF AppsRoot
<1>2. root \in {apps, api, ws}
  BY DEF AppRoots
<1>. QED
  BY <1>1, <1>2

LEMMA StartsLike ==
    ASSUME NEW r \in Paths, NEW t \in Paths, NEW w, w = r \o t, NEW i \in 1 .. Len(r)
    PROVE  w \in Paths /\ Len(w) \in Nat /\ Len(w) >= Len(r) /\ w[i] = r[i]
<1>1. /\ w \in Paths /\ Len(t) \in Nat /\ Len(r) \in Nat /\ Len(w) = Len(r) + Len(t)
      /\ \A k \in 1 .. Len(r) : w[k] = r[k]
  BY DEF Paths
<1>. QED
  BY <1>1

LEMMA ServiceTokens ==
    ASSUME NEW t \in Paths
    PROVE  LET q == Scoped!Under(Scoped!ServicesPath) \o t IN
           /\ q \in Paths /\ Len(q) >= 3 /\ q[2] = "services"
           /\ Scoped!Api(q) \in Paths /\ Len(Scoped!Api(q)) >= 5
           /\ Scoped!Api(q)[2] = "api" /\ Scoped!Api(q)[4] = "services"
           /\ Scoped!Ws(q) \in Paths /\ Len(Scoped!Ws(q)) >= 5
           /\ Scoped!Ws(q)[2] = "ws" /\ Scoped!Ws(q)[4] = "services"
<1>1. PICK root : /\ root = Scoped!Under(Scoped!ServicesPath)
                  /\ root \in Paths /\ Len(root) = 3 /\ root[2] = "services"
  BY RootsAre, AreasAre
<1>. PICK q : q = root \o t
  OBVIOUS
<1>2. q \in Paths /\ Len(q) \in Nat /\ Len(q) >= 3 /\ q[2] = "services"
  <2>1. 2 \in 1 .. Len(root)
    BY <1>1
  <2>2. root \in Paths
    BY <1>1
  <2>3. q \in Paths /\ Len(q) \in Nat /\ Len(q) >= Len(root) /\ q[2] = root[2]
    BY <2>1, <2>2, StartsLike, ZenonT(60)
  <2>. QED
    BY <1>1, <2>3
<1>3. ASSUME NEW kind \in Tokens, NEW w, w = <<"/", kind>> \o q
      PROVE  w \in Paths /\ Len(w) >= 5 /\ w[2] = kind /\ w[4] = "services"
  <2>1. /\ w \in Paths /\ Len(w) = 2 + Len(q) /\ w[2] = kind
        /\ \A i \in 1 .. Len(q) : w[2 + i] = q[i]
    BY <1>2, <1>3, KnownTokens, Extended
  <2>2. 2 \in 1 .. Len(q) /\ 2 + 2 = 4
    BY <1>2
  <2>. QED
    BY <1>2, <2>1, <2>2
<1>4. \A w : w = Scoped!Api(q) =>
      w \in Paths /\ Len(w) >= 5 /\ w[2] = "api" /\ w[4] = "services"
  <2>1. TAKE w
  <2>2. HAVE w = Scoped!Api(q)
  <2>3. w = <<"/", "api">> \o q /\ "api" \in Tokens
    BY <2>2, KnownTokens DEF Scoped!Api, Scoped!Slash
  <2>. QED
    BY <1>3, <2>3
<1>5. \A w : w = Scoped!Ws(q) =>
      w \in Paths /\ Len(w) >= 5 /\ w[2] = "ws" /\ w[4] = "services"
  <2>1. TAKE w
  <2>2. HAVE w = Scoped!Ws(q)
  <2>3. w = <<"/", "ws">> \o q /\ "ws" \in Tokens
    BY <2>2, KnownTokens DEF Scoped!Ws, Scoped!Slash
  <2>. QED
    BY <1>3, <2>3
<1>. QED
  BY <1>1, <1>2, <1>4, <1>5

LEMMA PrefixTokens ==
    ASSUME NEW p \in Paths, NEW q \in Paths, NEW i \in 1 .. Len(q),
           Scoped!HasPrefix(p, q)
    PROVE  p[i] = q[i] /\ Len(p) >= Len(q)
  BY PrefixIs

LEMMA NotAService ==
    ASSUME NEW path \in Paths, NEW root \in AppRoots, Scoped!HasPrefix(path, root), NEW u
    PROVE  ~Scoped!hasServiceAccess(u, path) /\ ~Scoped!CreatesService(path)
<1>. DEFINE S == Scoped!Under(Scoped!ServicesPath)
<1>1. /\ root \in Paths /\ Len(root) \in {3, 5} /\ path[2] = root[2]
      /\ root # AppsRoot => path[4] = root[4]
      /\ Len(path) >= 3
  <2>1. root \in Paths /\ Len(root) \in {3, 5} /\ (root # AppsRoot => Len(root) = 5)
    BY RootTokens
  <2>2. 2 \in 1 .. Len(root) /\ (root # AppsRoot => 4 \in 1 .. Len(root)) 
    BY <2>1, SMTT(30)
  <2>3. path[2] = root[2] /\ Len(path) >= Len(root) /\ Len(path) \in Nat
    BY <2>1, <2>2, PrefixTokens, Lengths
  <2>4. root # AppsRoot => path[4] = root[4]
    BY <2>1, <2>2, PrefixTokens
  <2>. QED
    BY <2>1, <2>2, <2>3, <2>4
<1>2. /\ path[2] \in {"apps", "api", "ws"}
      /\ path[2] # "apps" => path[4] = "apps"
  BY <1>1, RootTokens
<1>3. ASSUME NEW t \in Paths
      PROVE  /\ path # S \o t /\ path # Scoped!Api(S \o t)
             /\ ~Scoped!HasPrefix(path, Scoped!Api(S \o t))
             /\ ~Scoped!HasPrefix(path, Scoped!Ws(S \o t))
  <2>. PICK q, api, ws : q = S \o t /\ api = Scoped!Api(q) /\ ws = Scoped!Ws(q)
    OBVIOUS
  <2>1. /\ q \in Paths /\ q[2] = "services"
        /\ api \in Paths /\ Len(api) >= 5 /\ api[2] = "api" /\ api[4] = "services"
        /\ ws \in Paths /\ Len(ws) >= 5 /\ ws[2] = "ws" /\ ws[4] = "services"
    BY ServiceTokens
  <2>2. 2 \in 1 .. Len(api) /\ 4 \in 1 .. Len(api) /\ 2 \in 1 .. Len(ws) /\ 4 \in 1 .. Len(ws)
    BY <2>1 DEF Paths
  <2>3. ~Scoped!HasPrefix(path, api)
    BY <1>2, <2>1, <2>2, PrefixTokens
  <2>4. ~Scoped!HasPrefix(path, ws)
    BY <1>2, <2>1, <2>2, PrefixTokens
  <2>. QED
    BY <1>2, <2>1, <2>3, <2>4
<1>4. /\ <<"installed">> \in Paths /\ <<"available">> \in Paths /\ Scoped!Create \in Paths
  BY KnownTokens DEF Paths, Scoped!Create
<1>5. path # Scoped!ServicesPath
  BY <1>2 DEF Scoped!ServicesPath
<1>6. Scoped!Tails(path, Scoped!ServicesPath) = {}
  BY OneAppTail
<1>7. ~Scoped!hasServiceAccess(u, path)
  BY <1>3, <1>4, <1>5, <1>6 DEF Scoped!hasServiceAccess
<1>8. ~Scoped!CreatesService(path)
  BY <1>3, <1>4 DEF Scoped!CreatesService
<1>. QED
  BY <1>7, <1>8

(***************************************************************************)
(* A path of an app is decided by the grants for that app, whatever other  *)
(* names begin like its own.                                               *)
(***************************************************************************)
LEMMA AppAccess ==
    ASSUME NEW root \in AppRoots, NEW name, IsName(name), NEW rest \in Paths,
           \/ rest = <<>> /\ root = AppsRoot
           \/ rest # <<>> /\ rest[1] = Scoped!Slash,
           NEW path, path = root \o name \o rest, NEW u
    PROVE  /\ path \in Paths /\ Scoped!HasPrefix(path, root)
           /\ path # <<"/">> /\ path # Scoped!AppsPath
           /\ Scoped!hasAppAccess(u, path)
                 <=> \/ Scoped!userHasExplicitAppAccess(u, name)
                     \/ Scoped!userHasRouteDerivedAppAccess(u, name)
           /\ ~Scoped!hasServiceAccess(u, path) /\ ~Scoped!CreatesService(path)
<1>1. root \in Paths /\ Len(root) \in {3, 5}
  BY RootTokens
<1>2. name \in Paths /\ name # <<>> /\ Len(name) > 0
  BY DEF IsName, Paths
<1>3. /\ path \in Paths /\ Scoped!HasPrefix(path, root)
      /\ Scoped!TrimPrefix(path, root) = name \o rest
      /\ rest # <<>> => Scoped!HasPrefix(path, Scoped!Under(root \o name))
  BY <1>1, <1>2, PathParts
<1>4. Len(path) > 3
  <2>. PICK start : start = root \o name
    OBVIOUS
  <2>. root \in Paths /\ name \in Paths
    BY <1>1, <1>2
  <2>1. start \in Paths /\ Len(start) = Len(root) + Len(name) /\ Len(name) \in Nat
    BY DEF Paths
  <2>. start \in Paths
    BY <2>1
  <2>2. Len(path) = Len(start) + Len(rest) /\ Len(rest) \in Nat
    BY DEF Paths
  <2>3. \A i \in {3, 5} : \A j, k \in Nat : j > 0 => i + j + k > 3
    OBVIOUS
  <2>. QED
    BY <1>1, <1>2, <2>1, <2>2, <2>3
<1>5. path # <<"/">> /\ path # Scoped!AppsPath
  <2>1. Len(<<"/">>) = 1 /\ Len(Scoped!AppsPath) = 2
    BY DEF Scoped!AppsPath
  <2>2. \A p, q : p = q => Len(p) = Len(q)
    BY Zenon
  <2>3. ~(1 > 3) /\ ~(2 > 3)
    OBVIOUS
  <2>. QED
    BY <1>4, <2>1, <2>2, <2>3, Zenon
<1>6. Scoped!Tails(path, Scoped!AppsPath) = {name \o rest}
  BY <1>3, OneAppTail
<1>7. Scoped!FirstSegment(name \o rest) = name
  BY FirstIsName
<1>8. Scoped!pathMatchesAppAccess(path, name)
  <2>1. CASE rest = <<>>
    <3>1. path = AppsRoot \o name
      BY <1>1, <1>2, <2>1 DEF Paths
    <3>. QED
      BY <3>1 DEF Scoped!pathMatchesAppAccess, Scoped!AppPath, AppsRoot
  <2>2. CASE rest # <<>>
    <3>1. root \o name \in {Scoped!AppPath(name), Scoped!Api(Scoped!AppPath(name)),
                            Scoped!Ws(Scoped!AppPath(name))}
      <4>1. ASSUME NEW kind \in Tokens
            PROVE  (<<"/", kind>> \o AppsRoot) \o name = <<"/", kind>> \o (AppsRoot \o name)
        <5>1. AppsRoot \in Paths /\ <<"/", kind>> \in Paths
          BY RootTokens, KnownTokens DEF AppRoots, Paths
        <5>. QED
          BY <1>2, <5>1, Associative
      <4>2. "api" \in Tokens /\ "ws" \in Tokens
        BY KnownTokens
      <4>. QED
        BY <4>1, <4>2 DEF AppRoots, Scoped!AppPath, AppsRoot, Scoped!Api, Scoped!Ws, Scoped!Slash
    <3>. QED
      BY <1>3, <2>2, <3>1 DEF Scoped!pathMatchesAppAccess
  <2>. QED
    BY <2>1, <2>2
<1>9. Scoped!hasAppAccess(u, path)
         <=> \/ Scoped!userHasExplicitAppAccess(u, name)
             \/ Scoped!userHasRouteDerivedAppAccess(u, name)
  BY <1>2, <1>5, <1>6, <1>7, <1>8 DEF Scoped!hasAppAccess
<1>. QED
  BY <1>3, <1>5, <1>9, NotAService

LEMMA PiecePaths ==
    ASSUME NEW t \in Tokens
    PROVE  <<>> \in Paths /\ <<t>> \in Paths /\ <<"/">> \in Paths /\ <<"/", t>> \in Paths
  BY KnownTokens DEF Paths

LEMMA BelowPath ==
    ASSUME NEW p \in Paths, NEW t \in Tokens
    PROVE  Scoped!Under(p) \o <<t>> = p \o <<"/", t>>
<1>1. (p \o <<"/">>) \o <<t>> = p \o (<<"/">> \o <<t>>)
  BY PiecePaths, Associative
<1>2. <<"/">> \o <<t>> = <<"/", t>>
  <2>1. <<"/">> \in Paths /\ <<t>> \in Paths /\ <<"/", t>> \in Paths
    BY PiecePaths
  <2>2. /\ Len(<<"/", t>>) = Len(<<"/">>) + Len(<<t>>)
        /\ \A i \in 1 .. Len(<<"/">>) : <<"/", t>>[i] = <<"/">>[i]
        /\ \A i \in 1 .. Len(<<t>>) : <<"/", t>>[Len(<<"/">>) + i] = <<t>>[i]
    OBVIOUS
  <2>. QED
    BY <2>1, <2>2, Joined, Zenon
<1>. QED
  BY <1>1, <1>2 DEF Scoped!Under, Scoped!Slash

LEMMA BelowApi ==
    ASSUME NEW p \in Paths, NEW q \in Paths
    PROVE  /\ Scoped!Api(p) \in Paths /\ Scoped!Api(p) \o q = Scoped!Api(p \o q)
           /\ Scoped!Ws(p) \in Paths /\ Scoped!Ws(p) \o q = Scoped!Ws(p \o q)
<1>1. ASSUME NEW kind \in Tokens
      PROVE  <<"/", kind>> \o p \in Paths /\ (<<"/", kind>> \o p) \o q = <<"/", kind>> \o (p \o q)
  <2>. <<"/", kind>> \in Paths
    BY PiecePaths
  <2>. QED
    BY Associative DEF Paths
<1>2. "api" \in Tokens /\ "ws" \in Tokens
  BY KnownTokens
<1>. QED
  BY <1>1, <1>2 DEF Scoped!Api, Scoped!Ws, Scoped!Slash

LEMMA AppPaths ==
    ASSUME NEW name, IsName(name), NEW t \in Tokens
    PROVE  /\ Scoped!AppPath(name) = AppsRoot \o name \o <<>>
           /\ Scoped!Under(Scoped!AppPath(name)) \o <<t>> = AppsRoot \o name \o <<"/", t>>
           /\ Scoped!Api(Scoped!Under(Scoped!AppPath(name))) \o <<t>>
                 = Scoped!Api(AppsRoot) \o name \o <<"/", t>>
           /\ Scoped!Ws(Scoped!Under(Scoped!AppPath(name))) \o <<t>>
                 = Scoped!Ws(AppsRoot) \o name \o <<"/", t>>
<1>. PICK root : root = AppsRoot
  OBVIOUS
<1>. PICK page : page = root \o name
  OBVIOUS
<1>1. root \in Paths /\ name \in Paths
  BY RootTokens DEF AppRoots, IsName
<1>2. page \in Paths
  BY <1>1 DEF Paths
<1>3. Scoped!AppPath(name) = page
  BY DEF Scoped!AppPath, AppsRoot
<1>4. page = page \o <<>>
  BY <1>2 DEF Paths
<1>5. Scoped!Under(page) \o <<t>> = page \o <<"/", t>>
  BY <1>2, BelowPath
<1>6. /\ Scoped!Under(page) \in Paths /\ <<t>> \in Paths /\ <<"/", t>> \in Paths
  BY <1>2, Slashed, PiecePaths
<1>7. /\ Scoped!Api(Scoped!Under(page)) \o <<t>> = Scoped!Api(page \o <<"/", t>>)
      /\ Scoped!Ws(Scoped!Under(page)) \o <<t>> = Scoped!Ws(page \o <<"/", t>>)
  <2>. PICK below, last : below = Scoped!Under(page) /\ last = <<t>>
    OBVIOUS
  <2>1. below \in Paths /\ last \in Paths
    BY <1>6
  <2>2. /\ Scoped!Api(below) \o last = Scoped!Api(below \o last)
        /\ Scoped!Ws(below) \o last = Scoped!Ws(below \o last)
    BY <2>1, BelowApi
  <2>. QED
    BY <1>5, <2>2
<1>8. /\ Scoped!Api(page) = Scoped!Api(root) \o name
      /\ Scoped!Ws(page) = Scoped!Ws(root) \o name
  BY <1>1, BelowApi
<1>9. /\ Scoped!Api(page \o <<"/", t>>) = Scoped!Api(page) \o <<"/", t>>
      /\ Scoped!Ws(page \o <<"/", t>>) = Scoped!Ws(page) \o <<"/", t>>
  BY <1>2, <1>6, BelowApi
<1>. QED
  BY <1>3, <1>4, <1>5, <1>7, <1>8, <1>9

LEMMA ExplicitOnly ==
    ASSUME NEW u, u.routes = {}, ~u.canCreateApps,
           NEW root \in AppRoots, NEW name, IsName(name), NEW rest \in Paths,
           \/ rest = <<>> /\ root = AppsRoot
           \/ rest # <<>> /\ rest[1] = Scoped!Slash,
           NEW path, path = root \o name \o rest
    PROVE  Scoped!CheckAccess(u, path) <=> u.apps \cap {name, Scoped!Star} # {}
<1>1. /\ path # <<"/">>
      /\ Scoped!hasAppAccess(u, path)
            <=> \/ Scoped!userHasExplicitAppAccess(u, name)
                \/ Scoped!userHasRouteDerivedAppAccess(u, name)
      /\ ~Scoped!hasServiceAccess(u, path) /\ ~Scoped!CreatesService(path)
  BY AppAccess
<1>2. ~Scoped!userHasRouteDerivedAppAccess(u, name)
  BY DEF Scoped!userHasRouteDerivedAppAccess
<1>3. ~Scoped!hasWildcardAccess(u)
  BY DEF Scoped!hasWildcardAccess
<1>4. ~Scoped!hasRouteAccess(u, path)
  BY DEF Scoped!hasRouteAccess, Scoped!CoversApi
<1>5. ~Scoped!hasCreateAccess(u, path)
  BY <1>1, <1>3 DEF Scoped!hasCreateAccess
<1>6. Scoped!userHasExplicitAppAccess(u, name) <=> u.apps \cap {name, Scoped!Star} # {}
  BY DEF Scoped!userHasExplicitAppAccess
<1>. QED
  BY <1>1, <1>2, <1>3, <1>4, <1>5, <1>6 DEF Scoped!CheckAccess, Scoped!Slash

LEMMA GrantedOnly == GrantedAppsOnly
<1>. SUFFICES ASSUME grantee.routes = {}, ~grantee.canCreateApps,
                     NEW app \in AppNames,
                     NEW path \in {Scoped!AppPath(app),
                                    Scoped!Under(Scoped!AppPath(app)) \o <<"logs">>,
                                    Scoped!Api(Scoped!Under(Scoped!AppPath(app))) \o <<"env">>,
                                    Scoped!Ws(Scoped!Under(Scoped!AppPath(app))) \o <<"logs">>}
              PROVE  Scoped!CheckAccess(grantee, path) <=> grantee.apps \cap {app, Scoped!Star} # {}
  BY DEF GrantedAppsOnly, Scoped!GrantedAppsOnly
<1>1. IsName(app)
  BY GrantsAssumption DEF GrantsTypeOK
<1>2. /\ AppsRoot \in AppRoots /\ Scoped!Api(AppsRoot) \in AppRoots /\ Scoped!Ws(AppsRoot) \in AppRoots
  BY DEF AppRoots
<1>3. \A t \in Tokens : <<"/", t>> \in Paths /\ <<"/", t>> # <<>> /\ <<"/", t>>[1] = Scoped!Slash
  BY PiecePaths DEF Scoped!Slash
<1>4. "logs" \in Tokens /\ "env" \in Tokens /\ <<>> \in Paths
  BY KnownTokens, PiecePaths
<1>5. PICK root \in AppRoots, rest \in Paths :
         /\ \/ rest = <<>> /\ root = AppsRoot
            \/ rest # <<>> /\ rest[1] = Scoped!Slash
         /\ path = root \o app \o rest
  <2>1. CASE path = Scoped!AppPath(app)
    BY <1>1, <1>2, <1>4, <2>1, AppPaths
  <2>2. CASE path = Scoped!Under(Scoped!AppPath(app)) \o <<"logs">>
    BY <1>1, <1>2, <1>3, <1>4, <2>2, AppPaths
  <2>3. CASE path = Scoped!Api(Scoped!Under(Scoped!AppPath(app))) \o <<"env">>
    BY <1>1, <1>2, <1>3, <1>4, <2>3, AppPaths, ZenonT(60)
  <2>4. CASE path = Scoped!Ws(Scoped!Under(Scoped!AppPath(app))) \o <<"logs">>
    BY <1>1, <1>2, <1>3, <1>4, <2>4, AppPaths, ZenonT(60)
  <2>. QED
    BY <2>1, <2>2, <2>3, <2>4
<1>. QED
  BY <1>1, <1>5, ExplicitOnly

(***************************************************************************)
(* ScopedUserAuthChecker: a user with granted apps and no routes gets at   *)
(* the pages, the API and the sockets of these apps and of no others.      *)
(***************************************************************************)
THEOREM OnlyWhatIsGranted == MCSpec => []GrantedAppsOnly
  BY GrantedOnly, PTL

-----------------------------------------------------------------------------
LEMMA StarSuffix ==
    ASSUME NEW p \in Paths
    PROVE  /\ Scoped!HasSuffix(p, Scoped!Star) <=> Len(p) >= 1 /\ p[Len(p)] = "*"
           /\ Scoped!HasSuffix(p, Scoped!Star) =>
                 LET q == Scoped!TrimSuffix(p, Scoped!Star) IN
                 /\ q \in Paths /\ Len(p) = Len(q) + 1 /\ Len(q) \in Nat
                 /\ \A i \in 1 .. Len(q) : q[i] = p[i]
<1>1. PICK star : /\ star = Scoped!Star
                  /\ star \in Paths /\ Len(star) = 1 /\ star[1] = "*"
  <2>1. <<"*">> \in Paths /\ Len(<<"*">>) = 1 /\ <<"*">>[1] = "*"
    BY KnownTokens, PiecePaths
  <2>. QED
    BY <2>1 DEF Scoped!Star
<1>2. Len(p) \in Nat
  BY Lengths
<1>3. Scoped!HasSuffix(p, star) <=> Len(p) >= 1 /\ p[Len(p)] = "*"
  <2>1. star \in Paths
    BY <1>1
  <2>2. Scoped!HasSuffix(p, star)
           <=> /\ Len(star) <= Len(p)
               /\ \A i \in 1 .. Len(star) : p[Len(p) - Len(star) + i] = star[i]
    BY <2>1, SuffixIs
  <2>3. /\ \A i \in 1 .. Len(star) : i = 1
        /\ 1 \in 1 .. Len(star) /\ Len(p) - Len(star) + 1 = Len(p)
    BY <1>1, <1>2
  <2>4. (\A i \in 1 .. Len(star) : p[Len(p) - Len(star) + i] = star[i]) <=> p[Len(p)] = "*"
    BY <1>1, <2>3
  <2>. QED
    BY <1>1, <1>2, <2>2, <2>4
<1>4. ASSUME Scoped!HasSuffix(p, star), NEW q, q = Scoped!TrimSuffix(p, star)
      PROVE  /\ q \in Paths /\ Len(p) = Len(q) + 1 /\ Len(q) \in Nat
             /\ \A i \in 1 .. Len(q) : q[i] = p[i]
  <2>1. star \in Paths
    BY <1>1
  <2>2. /\ q \in Paths /\ Len(q) = Len(p) - Len(star)
        /\ \A i \in 1 .. Len(p) - Len(star) : q[i] = p[i]
    BY <1>4, <2>1, TrimSuffixIs
  <2>. QED
    BY <1>1, <1>2, <1>3, <1>4, <2>2
<1>. QED
  BY <1>1, <1>3, <1>4

LEMMA WithinIs ==
    /\ Scoped!Within(<<>>) \in Paths /\ Len(Scoped!Within(<<>>)) = 2
    /\ Scoped!Within(<<>>)[1] = "/" /\ Scoped!Within(<<>>)[2] = "*"
<1>1. Scoped!Under(<<>>) = <<"/">>
  BY DEF Scoped!Under, Scoped!Slash
<1>2. <<"/">> \o <<"*">> = <<"/", "*">>
  <2>1. <<"/">> \in Paths /\ <<"*">> \in Paths /\ <<"/", "*">> \in Paths
    BY KnownTokens, PiecePaths
  <2>2. /\ Len(<<"/", "*">>) = Len(<<"/">>) + Len(<<"*">>)
        /\ \A i \in 1 .. Len(<<"/">>) : <<"/", "*">>[i] = <<"/">>[i]
        /\ \A i \in 1 .. Len(<<"*">>) : <<"/", "*">>[Len(<<"/">>) + i] = <<"*">>[i]
    OBVIOUS
  <2>. QED
    BY <2>1, <2>2, Joined, Zenon
<1>3. Scoped!Within(<<>>) = <<"/", "*">>
  BY <1>1, <1>2 DEF Scoped!Within, Scoped!Star
<1>4. <<"/", "*">> \in Paths /\ Len(<<"/", "*">>) = 2 /\ <<"/", "*">>[1] = "/" /\ <<"/", "*">>[2] = "*"
  BY KnownTokens, PiecePaths
<1>. QED
  BY <1>3, <1>4

LEMMA WithinSuffix ==
    ASSUME NEW p \in Paths
    PROVE  /\ Scoped!HasSuffix(p, Scoped!Within(<<>>))
                 <=> Len(p) >= 2 /\ p[Len(p) - 1] = "/" /\ p[Len(p)] = "*"
           /\ Scoped!HasSuffix(p, Scoped!Within(<<>>)) =>
                 LET q == Scoped!TrimSuffix(p, Scoped!Within(<<>>)) IN
                 /\ q \in Paths /\ Len(p) = Len(q) + 2 /\ Len(q) \in Nat
                 /\ \A i \in 1 .. Len(q) : q[i] = p[i]
<1>1. PICK all : /\ all = Scoped!Within(<<>>)
                 /\ all \in Paths /\ Len(all) = 2 /\ all[1] = "/" /\ all[2] = "*"
  BY WithinIs
<1>2. Len(p) \in Nat
  BY Lengths
<1>3. Scoped!HasSuffix(p, all) <=> Len(p) >= 2 /\ p[Len(p) - 1] = "/" /\ p[Len(p)] = "*"
  <2>1. all \in Paths
    BY <1>1
  <2>2. Scoped!HasSuffix(p, all)
           <=> /\ Len(all) <= Len(p)
               /\ \A i \in 1 .. Len(all) : p[Len(p) - Len(all) + i] = all[i]
    BY <2>1, SuffixIs
  <2>3. /\ \A i \in 1 .. Len(all) : i = 1 \/ i = 2
        /\ 1 \in 1 .. Len(all) /\ Len(p) - Len(all) + 1 = Len(p) - 1
        /\ 2 \in 1 .. Len(all) /\ Len(p) - Len(all) + 2 = Len(p)
    <3>1. Len(all) = 2
      BY <1>1
    <3>. QED
      BY <1>2, <3>1
  <2>4. (\A i \in 1 .. Len(all) : p[Len(p) - Len(all) + i] = all[i])
           <=> p[Len(p) - 1] = "/" /\ p[Len(p)] = "*"
    BY <1>1, <2>3
  <2>. QED
    BY <1>1, <1>2, <2>2, <2>4
<1>4. ASSUME Scoped!HasSuffix(p, all), NEW q, q = Scoped!TrimSuffix(p, all)
      PROVE  /\ q \in Paths /\ Len(p) = Len(q) + 2 /\ Len(q) \in Nat
             /\ \A i \in 1 .. Len(q) : q[i] = p[i]
  <2>1. all \in Paths
    BY <1>1
  <2>2. /\ q \in Paths /\ Len(q) = Len(p) - Len(all)
        /\ \A i \in 1 .. Len(p) - Len(all) : q[i] = p[i]
    BY <1>4, <2>1, TrimSuffixIs
  <2>3. Len(all) = 2 /\ Len(p) >= 2
    BY <1>1, <1>3, <1>4
  <2>. QED
    BY <1>2, <2>2, <2>3
<1>. QED
  BY <1>1, <1>3, <1>4

LEMMA SlashIn ==
    ASSUME NEW p \in Paths
    PROVE  Scoped!HasSlash(p) <=> \E i \in 1 .. Len(p) : p[i] = "/"
<1>1. DOMAIN p = 1 .. Len(p)
  BY DEF Paths
<1>. QED
  BY <1>1 DEF Scoped!HasSlash, Scoped!ToSet, Scoped!Slash

LEMMA AppPathIs ==
    ASSUME NEW name \in Paths
    PROVE  LET path == Scoped!AppPath(name) IN
           /\ path \in Paths /\ Len(path) = 3 + Len(name) /\ Len(name) \in Nat
           /\ path[1] = "/" /\ path[2] = "apps" /\ path[3] = "/"
           /\ \A i \in 1 .. Len(name) : path[3 + i] = name[i]
           /\ Scoped!HasPrefix(path, AppsRoot)
           /\ Scoped!TrimPrefix(path, AppsRoot) = name
<1>1. PICK path : path = AppsRoot \o name
  OBVIOUS
<1>2. AppsRoot \in AppRoots
  BY DEF AppRoots
<1>3. AppsRoot \in Paths
  BY <1>2, RootTokens
<1>4. /\ path \in Paths /\ Len(path) = Len(AppsRoot) + Len(name) /\ Len(name) \in Nat
      /\ \A i \in 1 .. Len(AppsRoot) : path[i] = AppsRoot[i]
      /\ \A i \in 1 .. Len(name) : path[Len(AppsRoot) + i] = name[i]
  BY <1>1, <1>3 DEF Paths
<1>5. Len(AppsRoot) = 3 /\ AppsRoot[1] = "/" /\ AppsRoot[2] = "apps" /\ AppsRoot[3] = "/"
  BY <1>2, RootTokens
<1>6. path = Scoped!AppPath(name)
  BY <1>1 DEF Scoped!AppPath, AppsRoot
<1>7. 1 \in 1 .. Len(AppsRoot) /\ 2 \in 1 .. Len(AppsRoot) /\ 3 \in 1 .. Len(AppsRoot)
  BY <1>5
<1>8. path[1] = "/" /\ path[2] = "apps" /\ path[3] = "/"
  BY <1>4, <1>5, <1>7
<1>9. Scoped!HasPrefix(path, AppsRoot)
  <2>1. Len(AppsRoot) \in Nat
    BY <1>3, Lengths
  <2>. QED
    BY <1>3, <1>4, <2>1, PrefixIs
<1>10. Scoped!TrimPrefix(path, AppsRoot) = name
  <2>. PICK t : t = Scoped!TrimPrefix(path, AppsRoot)
    OBVIOUS
  <2>1. /\ t \in Paths /\ Len(t) = Len(path) - Len(AppsRoot)
        /\ \A i \in 1 .. Len(path) - Len(AppsRoot) : t[i] = path[Len(AppsRoot) + i]
    BY <1>3, <1>4, <1>9, TrimPrefixIs
  <2>2. Len(AppsRoot) \in Nat
    BY <1>3, Lengths
  <2>3. Len(t) = Len(name) /\ \A i \in 1 .. Len(t) : t[i] = name[i]
    BY <1>4, <2>1, <2>2
  <2>4. t = name
    BY <2>1, <2>3, SamePath
  <2>. QED
    BY <2>4
<1>. QED
  BY <1>4, <1>5, <1>6, <1>8, <1>9, <1>10

(***************************************************************************)
(* A route that covers the page of an app gives the app.                   *)
(***************************************************************************)
LEMMA CoveredIsGranted ==
    ASSUME NEW route \in Paths, NEW app \in AppNames,
           Scoped!CoversPath(route, Scoped!AppPath(app))
    PROVE  Scoped!RouteGrantsApp(route, app)
<1>1. IsName(app) /\ app # Scoped!Create
  BY GrantsAssumption DEF GrantsTypeOK
<1>2. app \in Paths /\ Len(app) \in Nat /\ Len(app) > 0 /\ (\A i \in 1 .. Len(app) : app[i] # "/")
  BY <1>1, Lengths DEF IsName, Paths, Scoped!Slash
<1>3. PICK path : /\ path = Scoped!AppPath(app)
                  /\ path \in Paths /\ Len(path) = 3 + Len(app)
                  /\ path[1] = "/" /\ path[2] = "apps" /\ path[3] = "/"
                  /\ \A i \in 1 .. Len(app) : path[3 + i] = app[i]
                  /\ Scoped!HasPrefix(path, AppsRoot) /\ Scoped!TrimPrefix(path, AppsRoot) = app
  BY <1>2, AppPathIs
<1>4. ~Scoped!HasSlash(app) /\ ~Scoped!IsReserved(app)
  BY <1>1, <1>2, SlashIn DEF Scoped!IsReserved, IsName
<1>5. Len(route) \in Nat
  BY Lengths
<1>6. PICK pattern : pattern = Scoped!AppPattern(route)
  OBVIOUS
<1>7. pattern = Scoped!TrimPrefix(route, AppsRoot)
  BY <1>6 DEF Scoped!AppPattern, AppsRoot
<1>8. Scoped!AppPattern(route) = pattern /\ Scoped!Under(Scoped!AppsPath) = AppsRoot
  BY <1>6 DEF AppsRoot
<1>9. CASE ~Scoped!HasSuffix(route, Scoped!Star)
  <2>1. route = path
    BY <1>3, <1>9 DEF Scoped!CoversPath
  <2>2. pattern = app /\ Scoped!HasPrefix(route, AppsRoot)
    BY <1>3, <1>7, <2>1
  <2>3. ~(path[Len(path)] = "*")
    BY <1>2, <1>3, <1>9, <2>1, StarSuffix
  <2>4. ~(app[Len(app)] = "*")
    <3>1. path[3 + Len(app)] = app[Len(app)]
      BY <1>2, <1>3
    <3>. QED
      BY <1>3, <2>3, <3>1
  <2>5. ~Scoped!HasSuffix(app, Scoped!Star) /\ ~Scoped!HasSuffix(app, Scoped!Within(<<>>))
    BY <1>2, <2>4, StarSuffix, WithinSuffix
  <2>6. app # <<>>
    BY <1>1 DEF IsName
  <2>. QED
    BY <1>4, <1>8, <2>2, <2>5, <2>6 DEF Scoped!RouteGrantsApp
<1>10. CASE Scoped!HasSuffix(route, Scoped!Star) /\ route # Scoped!Within(Scoped!AppsPath)
  <2>1. PICK start : /\ start = Scoped!TrimSuffix(route, Scoped!Star)
                     /\ start \in Paths /\ Len(route) = Len(start) + 1 /\ Len(start) \in Nat
                     /\ \A i \in 1 .. Len(start) : start[i] = route[i]
    BY <1>10, StarSuffix
  <2>2. Scoped!HasPrefix(path, start) /\ Scoped!HasPrefix(route, AppsRoot)
    BY <1>3, <1>8, <1>10, <2>1 DEF Scoped!CoversPath
  <2>3. AppsRoot \in Paths /\ Len(AppsRoot) = 3 /\ AppsRoot[3] = "/"
    BY RootTokens DEF AppRoots
  <2>4. 3 \in 1 .. Len(AppsRoot)
    BY <2>3
  <2>5. route[3] = "/" /\ Len(route) >= 3
    BY <2>2, <2>3, <2>4, PrefixTokens
  <2>6. Len(route) >= 1 /\ route[Len(route)] = "*"
    BY <1>10, StarSuffix
  <2>7. Len(route) > 3
    BY <1>5, <2>5, <2>6
  <2>8. /\ pattern \in Paths /\ Len(pattern) = Len(route) - 3
        /\ \A i \in 1 .. Len(route) - 3 : pattern[i] = route[3 + i]
    <3>. AppsRoot \in Paths /\ Scoped!HasPrefix(route, AppsRoot)
      BY <2>2, <2>3
    <3>1. /\ pattern \in Paths /\ Len(pattern) = Len(route) - Len(AppsRoot)
          /\ \A i \in 1 .. Len(route) - Len(AppsRoot) : pattern[i] = route[Len(AppsRoot) + i]
      BY <1>7, TrimPrefixIs
    <3>. QED
      BY <2>3, <3>1
  <2>9. pattern # <<>> /\ Scoped!HasSuffix(pattern, Scoped!Star)
    <3>1. Len(pattern) >= 1 /\ 3 + Len(pattern) = Len(route) /\ Len(pattern) \in 1 .. Len(route) - 3
      BY <1>5, <2>7, <2>8
    <3>2. pattern[Len(pattern)] = "*"
      BY <2>6, <2>8, <3>1
    <3>3. Len(pattern) # 0
      BY <3>1
    <3>. QED
      BY <2>8, <3>1, <3>2, <3>3, StarSuffix, Lengths
  <2>10. PICK prefix : /\ prefix = Scoped!TrimSuffix(pattern, Scoped!Star)
                       /\ prefix \in Paths /\ Len(pattern) = Len(prefix) + 1 /\ Len(prefix) \in Nat
                       /\ \A i \in 1 .. Len(prefix) : prefix[i] = pattern[i]
    BY <2>8, <2>9, StarSuffix
  <2>11. Len(prefix) <= Len(app) /\ \A i \in 1 .. Len(prefix) : prefix[i] = app[i]
    <3>1. Len(start) <= Len(path) /\ \A i \in 1 .. Len(start) : path[i] = start[i]
      BY <1>3, <2>1, <2>2, PrefixIs
    <3>2. Len(start) = 3 + Len(prefix)
      BY <1>5, <2>1, <2>8, <2>10
    <3>3. Len(prefix) <= Len(app)
      BY <1>2, <1>3, <2>10, <3>1, <3>2
    <3>4. ASSUME NEW i \in 1 .. Len(prefix)
          PROVE  prefix[i] = app[i]
      <4>1. /\ i \in 1 .. Len(route) - 3 /\ 3 + i \in 1 .. Len(start) /\ i \in 1 .. Len(app)
        BY <1>2, <2>1, <2>10, <3>2, <3>3
      <4>2. prefix[i] = route[3 + i]
        BY <2>8, <2>10, <4>1
      <4>3. route[3 + i] = path[3 + i]
        BY <2>1, <3>1, <4>1
      <4>. QED
        BY <1>3, <4>1, <4>2, <4>3
    <3>. QED
      BY <3>3, <3>4
  <2>12. prefix # <<>>
    <3>1. SUFFICES ASSUME prefix = <<>> PROVE FALSE
      OBVIOUS
    <3>2. Len(route) = 4
      <4>1. Len(prefix) = 0
        BY <2>10, <3>1, Lengths
      <4>2. Len(pattern) = Len(route) - 3 /\ Len(pattern) = Len(prefix) + 1
        BY <2>8, <2>10
      <4>3. \A l, m, n : l \in Nat /\ n = 0 /\ m = l - 3 /\ m = n + 1 => l = 4
        OBVIOUS
      <4>. QED
        BY <1>5, <4>1, <4>2, <4>3
    <3>3. route[4] = "*"
      BY <2>6, <3>2
    <3>4. \A i \in 1 .. Len(AppsRoot) : route[i] = AppsRoot[i]
      BY <2>2, <2>3, PrefixTokens
    <3>5. PICK star : star = <<"*">> /\ star \in Paths /\ Len(star) = 1 /\ star[1] = "*"
      <4>1. <<"*">> \in Paths /\ Len(<<"*">>) = 1 /\ <<"*">>[1] = "*"
        BY KnownTokens, PiecePaths
      <4>. QED
        BY <4>1
    <3>6. \A i \in 1 .. Len(star) : route[Len(AppsRoot) + i] = star[i]
      <4>1. \A i \in 1 .. Len(star) : i = 1
        BY <3>5
      <4>2. Len(AppsRoot) + 1 = 4
        BY <2>3
      <4>. QED
        BY <3>3, <3>5, <4>1, <4>2
    <3>7. Len(route) = Len(AppsRoot) + Len(star)
      BY <2>3, <3>2, <3>5
    <3>8. AppsRoot \o star = route
      <4>. AppsRoot \in Paths /\ star \in Paths
        BY <2>3, <3>5
      <4>. QED
        BY <3>4, <3>6, <3>7, Joined, Zenon
    <3>. QED
      BY <1>10, <3>5, <3>8 DEF Scoped!Within, Scoped!Star, AppsRoot
  <2>13. ~Scoped!HasSlash(prefix)
    BY <1>2, <2>10, <2>11, SlashIn
  <2>14. ~Scoped!HasSuffix(pattern, Scoped!Within(<<>>))
    <3>1. Len(prefix) > 0
      BY <2>10, <2>12, Lengths
    <3>2. Len(pattern) - 1 = Len(prefix) /\ Len(prefix) \in 1 .. Len(prefix) /\ Len(prefix) \in 1 .. Len(app)
      BY <1>2, <2>10, <2>11, <3>1
    <3>3. pattern[Len(pattern) - 1] # "/"
      BY <1>2, <2>10, <2>11, <3>2
    <3>. QED
      BY <2>8, <3>3, WithinSuffix
  <2>15. Scoped!HasPrefix(app, prefix)
    BY <1>2, <2>10, <2>11, PrefixIs
  <2>. QED
    BY <1>8, <2>2, <2>9, <2>10, <2>12, <2>13, <2>14, <2>15 DEF Scoped!RouteGrantsApp
<1>11. CASE route = Scoped!Within(Scoped!AppsPath)
  BY <1>11 DEF Scoped!RouteGrantsApp
<1>. QED
  BY <1>9, <1>10, <1>11

LEMMA ServedApps ==
    ASSUME NEW u, u.routes \subseteq Paths, NEW app \in AppNames
    PROVE  Scoped!CheckAccess(u, Scoped!AppPath(app))
              <=> \/ Scoped!hasWildcardAccess(u)
                  \/ Scoped!userHasExplicitAppAccess(u, app)
                  \/ Scoped!userHasRouteDerivedAppAccess(u, app)
<1>. PICK path : path = Scoped!AppPath(app)
  OBVIOUS
<1>1. IsName(app) /\ app # Scoped!Create /\ app \in Paths
  BY GrantsAssumption DEF GrantsTypeOK, IsName
<1>2. path \in Paths /\ path[2] = "apps"
  BY <1>1, AppPathIs
<1>3. /\ path # <<"/">>
      /\ Scoped!hasAppAccess(u, path)
            <=> \/ Scoped!userHasExplicitAppAccess(u, app)
                \/ Scoped!userHasRouteDerivedAppAccess(u, app)
      /\ ~Scoped!hasServiceAccess(u, path) /\ ~Scoped!CreatesService(path)
  <2>1. path = AppsRoot \o app \o <<>>
    BY <1>1, KnownTokens, AppPaths
  <2>2. AppsRoot \in AppRoots /\ <<>> \in Paths
    BY KnownTokens, PiecePaths DEF AppRoots
  <2>. QED
    BY <1>1, <2>1, <2>2, AppAccess
<1>4. ~Scoped!CreatesApp(path)
  <2>1. Scoped!Create \in Paths
    BY KnownTokens, PiecePaths DEF Scoped!Create
  <2>2. path # Scoped!AppPath(Scoped!Create)
    BY <1>1, <2>1, AppPathIs
  <2>3. ~Scoped!HasPrefix(path, Scoped!Ws(Scoped!AppPath(Scoped!Create)))
    <3>. PICK page, ws : page = Scoped!AppPath(Scoped!Create) /\ ws = Scoped!Ws(page)
      OBVIOUS
    <3>1. page \in Paths
      BY <2>1, AppPathIs
    <3>2. ws = <<"/", "ws">> \o page /\ "ws" \in Tokens /\ "/" \in Tokens
      BY KnownTokens DEF Scoped!Ws, Scoped!Slash
    <3>3. ws \in Paths /\ Len(ws) = 2 + Len(page) /\ ws[2] = "ws"
      BY <3>1, <3>2, Extended
    <3>4. 2 \in 1 .. Len(ws)
      BY <3>1, <3>3, Lengths
    <3>. QED
      BY <1>2, <3>3, <3>4, PrefixTokens
  <2>. QED
    BY <2>2, <2>3 DEF Scoped!CreatesApp
<1>5. Scoped!hasCreateAccess(u, path) <=> Scoped!hasWildcardAccess(u)
  BY <1>3, <1>4 DEF Scoped!hasCreateAccess
<1>6. ~Scoped!CoversApi(u, path)
  <2>. PICK api : api = Scoped!Api(AppsRoot)
    OBVIOUS
  <2>1. api \in AppRoots /\ Scoped!Api(Scoped!Under(Scoped!AppsPath)) = api
    BY DEF AppRoots, AppsRoot
  <2>2. api \in Paths /\ Len(api) = 5 /\ api[2] = "api"
    BY RootsAre, AreasAre DEF AppsRoot
  <2>3. 2 \in 1 .. Len(api)
    BY <2>2
  <2>4. ~Scoped!HasPrefix(path, api)
    BY <1>2, <2>2, <2>3, PrefixTokens
  <2>. QED
    BY <2>1, <2>4 DEF Scoped!CoversApi
<1>7. Scoped!hasRouteAccess(u, path) => Scoped!userHasRouteDerivedAppAccess(u, app)
  BY <1>6, CoveredIsGranted DEF Scoped!hasRouteAccess, Scoped!userHasRouteDerivedAppAccess
<1>. QED
  BY <1>3, <1>5, <1>7 DEF Scoped!CheckAccess, Scoped!Slash

LEMMA ListedApps ==
    ASSUME NEW u, u.routes \subseteq Paths, NEW app \in AppNames
    PROVE  app \in Scoped!getUserAllowedApps(u, AppNames)
              <=> \/ Scoped!hasWildcardAccess(u)
                  \/ Scoped!userHasExplicitAppAccess(u, app)
                  \/ Scoped!userHasRouteDerivedAppAccess(u, app)
<1>1. app # <<>>
  BY GrantsAssumption DEF GrantsTypeOK, IsName
<1>2. CASE Scoped!SeesEverything(u) \/ Scoped!Star \in u.apps
  <2>1. Scoped!Within(Scoped!AppsPath) \in u.routes => Scoped!userHasRouteDerivedAppAccess(u, app)
    BY DEF Scoped!userHasRouteDerivedAppAccess, Scoped!RouteGrantsApp
  <2>2. Scoped!Star \in u.apps => Scoped!userHasExplicitAppAccess(u, app)
    BY DEF Scoped!userHasExplicitAppAccess
  <2>3. app \in Scoped!getUserAllowedApps(u, AppNames)
    BY <1>2 DEF Scoped!getUserAllowedApps
  <2>. QED
    BY <1>2, <2>1, <2>2, <2>3 DEF Scoped!SeesEverything
<1>3. CASE ~(Scoped!SeesEverything(u) \/ Scoped!Star \in u.apps)
  <2>. DEFINE Given(route) ==
                 LET pattern == Scoped!AppPattern(route) IN
                 IF Scoped!HasSuffix(pattern, Scoped!Within(<<>>))
                 THEN {a \in {Scoped!TrimSuffix(pattern, Scoped!Within(<<>>))} :
                          Scoped!RouteGrantsApp(route, a)}
                 ELSE {a \in (IF Scoped!HasSuffix(pattern, Scoped!Star) THEN AppNames ELSE {pattern}) :
                          a # <<>> /\ Scoped!RouteGrantsApp(route, a)}
  <2>1. Scoped!getUserAllowedApps(u, AppNames)
           = (u.apps \ {<<>>}) \cup
             UNION {Given(route) : route \in {r \in u.routes : Scoped!HasPrefix(r, Scoped!Under(Scoped!AppsPath))}}
    BY <1>3 DEF Scoped!getUserAllowedApps
  <2>2. ASSUME NEW route \in u.routes
        PROVE  Scoped!HasPrefix(route, Scoped!Under(Scoped!AppsPath)) /\ app \in Given(route)
                  <=> Scoped!RouteGrantsApp(route, app)
    <3>1. route # Scoped!Within(Scoped!AppsPath)
      BY <1>3 DEF Scoped!SeesEverything
    <3>. QED
      BY <1>1, <3>1 DEF Scoped!RouteGrantsApp
  <2>. HIDE DEF Given
  <2>3. app \in Scoped!getUserAllowedApps(u, AppNames)
           <=> app \in u.apps \/ \E route \in u.routes : Scoped!RouteGrantsApp(route, app)
    BY <1>1, <2>1, <2>2
  <2>4. ~Scoped!hasWildcardAccess(u)
    BY <1>3 DEF Scoped!SeesEverything
  <2>. QED
    BY <1>3, <2>3, <2>4 DEF Scoped!userHasExplicitAppAccess, Scoped!userHasRouteDerivedAppAccess
<1>. QED
  BY <1>2, <1>3

LEMMA NoSlashFirst ==
    ASSUME NEW p \in Paths, ~Scoped!HasSlash(p)
    PROVE  Scoped!FirstSegment(p) = p
  BY DEF Scoped!FirstSegment

(***************************************************************************)
(* RouteGrantsAnyApp is true of a route exactly when RouteGrantsApp is,    *)
(* for some app.                                                           *)
(***************************************************************************)
LEMMA AnyApp ==
    ASSUME NEW route \in Paths, Scoped!RouteGrantsAnyApp(route)
    PROVE  LET last == Scoped!FirstSegment(Scoped!AppPattern(route)) IN
           \E app \in {last, Scoped!TrimSuffix(last, Scoped!Star) \o <<"x">>, <<"x">>} :
              ~Scoped!IsReserved(app) /\ Scoped!RouteGrantsApp(route, app)
<1>. PICK pattern, last : pattern = Scoped!AppPattern(route) /\ last = Scoped!FirstSegment(pattern)
  OBVIOUS
<1>. PICK root : root = Scoped!Under(Scoped!AppsPath)
  OBVIOUS
<1>1. root \in Paths
  BY RootTokens DEF AppRoots, AppsRoot
<1>2. Scoped!HasPrefix(route, root) => pattern \in Paths
  BY <1>1, TrimPrefixIs DEF Scoped!AppPattern
<1>3. CASE route = Scoped!Within(Scoped!AppsPath)
  <2>1. ~Scoped!IsReserved(<<"x">>)
    BY DEF Scoped!IsReserved, Scoped!Create
  <2>2. Scoped!RouteGrantsApp(route, <<"x">>)
    BY <1>3 DEF Scoped!RouteGrantsApp
  <2>. QED
    BY <2>1, <2>2
<1>4. CASE /\ route # Scoped!Within(Scoped!AppsPath)
           /\ Scoped!HasSuffix(pattern, Scoped!Within(<<>>))
  <2>1. PICK app : app = Scoped!TrimSuffix(pattern, Scoped!Within(<<>>))
    OBVIOUS
  <2>2. Scoped!HasPrefix(route, root) /\ pattern # <<>> /\ ~Scoped!HasSlash(app) /\ ~Scoped!IsReserved(app)
    BY <1>4, <2>1 DEF Scoped!RouteGrantsAnyApp
  <2>3. Scoped!RouteGrantsApp(route, app)
    BY <1>4, <2>1, <2>2 DEF Scoped!RouteGrantsApp
  <2>4. /\ app \in Paths /\ Len(pattern) = Len(app) + 2 /\ Len(app) \in Nat
        /\ \A i \in 1 .. Len(app) : app[i] = pattern[i]
        /\ pattern[Len(pattern) - 1] = "/" /\ pattern[Len(pattern)] = "*"
    BY <1>2, <1>4, <2>1, <2>2, WithinSuffix
  <2>5. IsName(app)
    <3>1. app # <<>>
      BY <2>2 DEF Scoped!IsReserved
    <3>2. \A i \in 1 .. Len(app) : app[i] # "/"
      BY <2>2, <2>4, SlashIn
    <3>3. DOMAIN app = 1 .. Len(app)
      BY <2>4 DEF Paths
    <3>. QED
      BY <2>4, <3>1, <3>2, <3>3 DEF IsName, Scoped!Slash
  <2>6. PICK rest : /\ rest = Scoped!Within(<<>>) /\ rest \in Paths /\ Len(rest) = 2
                    /\ rest[1] = "/" /\ rest[2] = "*"
    BY WithinIs
  <2>7. app \o rest = pattern
    <3>1. pattern \in Paths /\ app \in Paths /\ rest \in Paths
      BY <1>2, <2>2, <2>4, <2>6
    <3>2. /\ Len(pattern) = Len(app) + Len(rest)
          /\ \A i \in 1 .. Len(app) : pattern[i] = app[i]
          /\ \A i \in 1 .. Len(rest) : pattern[Len(app) + i] = rest[i]
      <4>1. \A i \in 1 .. Len(rest) : i = 1 \/ i = 2
        <5>1. Len(rest) = 2
          BY <2>6
        <5>. QED
          BY <5>1
      <4>2. Len(pattern) - 1 = Len(app) + 1
        BY <2>4
      <4>. QED
        BY <2>4, <2>6, <4>1, <4>2
    <3>. QED
      BY <3>1, <3>2, Joined, Zenon
  <2>8. last = app
    <3>. rest \in Paths /\ rest[1] = Scoped!Slash
      BY <2>6 DEF Scoped!Slash
    <3>. QED
      BY <2>5, <2>7, FirstIsName
  <2>. QED
    BY <2>2, <2>3, <2>8
<1>5. CASE /\ route # Scoped!Within(Scoped!AppsPath)
           /\ ~Scoped!HasSuffix(pattern, Scoped!Within(<<>>))
           /\ Scoped!HasSuffix(pattern, Scoped!Star)
  <2>1. PICK prefix : prefix = Scoped!TrimSuffix(pattern, Scoped!Star)
    OBVIOUS
  <2>2. Scoped!HasPrefix(route, root) /\ pattern # <<>> /\ prefix # <<>> /\ ~Scoped!HasSlash(prefix)
    BY <1>5, <2>1 DEF Scoped!RouteGrantsAnyApp
  <2>3. /\ prefix \in Paths /\ Len(pattern) = Len(prefix) + 1 /\ Len(prefix) \in Nat
        /\ \A i \in 1 .. Len(prefix) : prefix[i] = pattern[i]
        /\ pattern[Len(pattern)] = "*"
    BY <1>2, <1>5, <2>1, <2>2, StarSuffix
  <2>4. ~Scoped!HasSlash(pattern)
    <3>1. \A i \in 1 .. Len(pattern) : i \in 1 .. Len(prefix) \/ i = Len(pattern)
      BY <2>3
    <3>2. \A i \in 1 .. Len(prefix) : prefix[i] # "/"
      BY <2>2, <2>3, SlashIn
    <3>. QED
      BY <1>2, <2>2, <2>3, <3>1, <3>2, SlashIn
  <2>5. last = pattern
    BY <1>2, <2>2, <2>4, NoSlashFirst
  <2>6. PICK app : app = prefix \o <<"x">>
    OBVIOUS
  <2>7. /\ app \in Paths /\ Len(app) = Len(prefix) + 1
        /\ \A i \in 1 .. Len(prefix) : app[i] = prefix[i]
    <3>1. PICK x : x = <<"x">> /\ x \in Paths /\ Len(x) = 1
      <4>1. <<"x">> \in Paths /\ Len(<<"x">>) = 1
        BY KnownTokens, PiecePaths
      <4>. QED
        BY <4>1
    <3>2. x \in Paths /\ app = prefix \o x
      BY <2>6, <3>1
    <3>3. /\ app \in Paths /\ Len(app) = Len(prefix) + Len(x)
          /\ \A i \in 1 .. Len(prefix) : app[i] = prefix[i]
      <4>. prefix \in Paths /\ x \in Paths
        BY <2>3, <3>2
      <4>1. app = prefix \o x
        BY <3>2
      <4>. QED
        BY <4>1 DEF Paths
    <3>. QED
      BY <3>1, <3>3
  <2>8. Scoped!HasPrefix(app, prefix)
    BY <2>3, <2>7, PrefixIs
  <2>9. ~Scoped!IsReserved(app)
    <3>1. Len(prefix) # 0
      BY <2>2, <2>3, Lengths
    <3>2. Len(app) > 1
      BY <2>3, <2>7, <3>1
    <3>3. Len(Scoped!Create) = 1 /\ Len(<<>>) = 0
      BY DEF Scoped!Create
    <3>4. app # Scoped!Create /\ app # <<>>
      <4>1. \A p, q : p = q => Len(p) = Len(q)
        BY Zenon
      <4>2. ~(1 > 1) /\ ~(0 > 1)
        OBVIOUS
      <4>. QED
        BY <3>2, <3>3, <4>1, <4>2, Zenon
    <3>. QED
      BY <3>4 DEF Scoped!IsReserved
  <2>10. Scoped!RouteGrantsApp(route, app)
    BY <1>5, <2>1, <2>2, <2>8 DEF Scoped!RouteGrantsApp
  <2>. QED
    BY <2>1, <2>5, <2>6, <2>9, <2>10
<1>6. CASE /\ route # Scoped!Within(Scoped!AppsPath)
           /\ ~Scoped!HasSuffix(pattern, Scoped!Within(<<>>))
           /\ ~Scoped!HasSuffix(pattern, Scoped!Star)
  <2>1. /\ Scoped!HasPrefix(route, root) /\ pattern # <<>>
        /\ ~Scoped!HasSlash(pattern) /\ ~Scoped!IsReserved(pattern)
    BY <1>6 DEF Scoped!RouteGrantsAnyApp
  <2>2. last = pattern
    BY <1>2, <2>1, NoSlashFirst
  <2>3. Scoped!RouteGrantsApp(route, pattern)
    BY <1>6, <2>1 DEF Scoped!RouteGrantsApp
  <2>. QED
    BY <2>1, <2>2, <2>3
<1>. QED
  BY <1>3, <1>4, <1>5, <1>6

LEMMA SomeApp ==
    ASSUME NEW route, NEW app, ~Scoped!IsReserved(app), Scoped!RouteGrantsApp(route, app)
    PROVE  Scoped!RouteGrantsAnyApp(route)
  BY DEF Scoped!RouteGrantsApp, Scoped!RouteGrantsAnyApp

LEMMA AnyIsSome ==
    ASSUME grantee.routes \subseteq Paths
    PROVE  Scoped!AnyAppIsSomeApp
  BY AnyApp, SomeApp DEF Scoped!AnyAppIsSomeApp

(***************************************************************************)
(* The forms that create an app or a service.                              *)
(***************************************************************************)
LEMMA CreatePaths ==
    LET app == Scoped!AppPath(Scoped!Create)
        service == Scoped!Under(Scoped!ServicesPath) \o Scoped!Create IN
    /\ Scoped!CreatesApp(app) /\ ~Scoped!CreatesService(app)
    /\ Scoped!CreatesService(service) /\ ~Scoped!CreatesApp(service)
<1>1. Scoped!Create \in Paths
  BY KnownTokens, PiecePaths DEF Scoped!Create
<1>2. PICK app : /\ app = Scoped!AppPath(Scoped!Create) /\ app \in Paths
                 /\ app[2] = "apps" /\ Scoped!HasPrefix(app, AppsRoot)
  BY <1>1, AppPathIs
<1>3. ~Scoped!CreatesService(app)
  BY <1>2, NotAService DEF AppRoots
<1>4. PICK service : /\ service = Scoped!Under(Scoped!ServicesPath) \o Scoped!Create
                     /\ service \in Paths /\ service[2] = "services"
  BY <1>1, ServiceTokens, ZenonT(60)
<1>5. PICK ws : ws = Scoped!Ws(app)
  OBVIOUS
<1>6. ws \in Paths /\ ws[2] = "ws" /\ 2 \in 1 .. Len(ws)
  <2>1. ws = <<"/", "ws">> \o app /\ "ws" \in Tokens /\ "/" \in Tokens
    BY <1>5, KnownTokens DEF Scoped!Ws, Scoped!Slash
  <2>2. ws \in Paths /\ Len(ws) = 2 + Len(app) /\ ws[2] = "ws"
    BY <1>2, <2>1, Extended
  <2>. QED
    BY <1>2, <2>2, Lengths
<1>7. ~Scoped!HasPrefix(service, ws)
  BY <1>4, <1>6, PrefixTokens
<1>8. service # app
  BY <1>2, <1>4
<1>. QED
  BY <1>2, <1>3, <1>4, <1>5, <1>7, <1>8 DEF Scoped!CreatesApp, Scoped!CreatesService

LEMMA CreateInSync == Scoped!CreateIsInSync
  BY CreatePaths DEF Scoped!CreateIsInSync, Scoped!canCreateApps, Scoped!canCreateServices,
                     Scoped!hasCreateAccess, Scoped!SeesEverything

(***************************************************************************)
(* A link a page shows is served.                                          *)
(***************************************************************************)
LEMMA CoversItself ==
    ASSUME NEW route \in Paths
    PROVE  Scoped!CoversPath(route, route)
<1>1. CASE Scoped!HasSuffix(route, Scoped!Star)
  <2>1. PICK start : /\ start = Scoped!TrimSuffix(route, Scoped!Star)
                     /\ start \in Paths /\ Len(route) = Len(start) + 1 /\ Len(start) \in Nat
                     /\ \A i \in 1 .. Len(start) : start[i] = route[i]
    BY <1>1, StarSuffix
  <2>2. Scoped!HasPrefix(route, start)
    BY <2>1, PrefixIs
  <2>. QED
    BY <1>1, <2>1, <2>2 DEF Scoped!CoversPath
<1>2. CASE ~Scoped!HasSuffix(route, Scoped!Star)
  BY <1>2 DEF Scoped!CoversPath
<1>. QED
  BY <1>1, <1>2

LEMMA CoversBelow ==
    ASSUME NEW route \in Paths, NEW path \in Paths,
           Scoped!HasSuffix(route, Scoped!Within(<<>>)),
           Scoped!HasPrefix(path, Scoped!TrimSuffix(route, Scoped!Star))
    PROVE  Scoped!IsEverything(route) \/ Scoped!CoversPath(route, path)
<1>1. /\ Len(route) >= 2 /\ route[Len(route) - 1] = "/" /\ route[Len(route)] = "*"
      /\ Len(route) \in Nat
  BY WithinSuffix, Lengths
<1>2. Scoped!HasSuffix(route, Scoped!Star)
  BY <1>1, StarSuffix
<1>3. PICK start : /\ start = Scoped!TrimSuffix(route, Scoped!Star)
                   /\ start \in Paths /\ Len(route) = Len(start) + 1 /\ Len(start) \in Nat
                   /\ \A i \in 1 .. Len(start) : start[i] = route[i]
  BY <1>2, StarSuffix
<1>4. /\ AppsRoot \in Paths /\ Len(AppsRoot) = 3
      /\ AppsRoot[1] = "/" /\ AppsRoot[2] = "apps" /\ AppsRoot[3] = "/"
  BY RootTokens DEF AppRoots
<1>5. ASSUME Scoped!HasPrefix(path, AppsRoot), ~Scoped!HasPrefix(route, AppsRoot)
      PROVE  Scoped!IsEverything(route)
  <2>1. \A i \in 1 .. Len(AppsRoot) : path[i] = AppsRoot[i]
    <3>. AppsRoot \in Paths
      BY <1>4
    <3>. QED
      BY <1>5, PrefixIs
  <2>2. Len(start) <= Len(path) /\ \A i \in 1 .. Len(start) : path[i] = start[i]
    BY <1>3, PrefixIs
  <2>3. ~(Len(start) >= 3)
    <3>1. SUFFICES ASSUME Len(start) >= 3 PROVE FALSE
      OBVIOUS
    <3>2. \A i \in 1 .. Len(AppsRoot) : i \in 1 .. Len(start) /\ route[i] = AppsRoot[i]
      BY <1>3, <1>4, <2>1, <2>2, <3>1
    <3>3. Len(AppsRoot) <= Len(route)
      BY <1>3, <1>4, <3>1
    <3>4. AppsRoot \in Paths
      BY <1>4
    <3>. QED
      BY <1>5, <3>2, <3>3, <3>4, PrefixIs
  <2>4. Len(start) # 2
    <3>1. SUFFICES ASSUME Len(start) = 2 PROVE FALSE
      OBVIOUS
    <3>2. route[2] = "/" /\ 2 \in 1 .. Len(start) /\ 2 \in 1 .. Len(AppsRoot)
      BY <1>1, <1>3, <1>4, <3>1
    <3>3. path[2] = "apps" /\ path[2] = route[2]
      BY <1>3, <1>4, <2>1, <2>2, <3>2
    <3>. QED
      BY <3>2, <3>3
  <2>5. Len(start) = 1
    <3>1. Len(route) = Len(start) + 1 /\ Len(start) \in Nat /\ Len(route) >= 2
      BY <1>1, <1>3
    <3>2. \A l, m : l \in Nat /\ m = l + 1 /\ m >= 2 /\ ~(l >= 3) /\ l # 2 => l = 1
      OBVIOUS
    <3>. QED
      BY <2>3, <2>4, <3>1, <3>2
  <2>6. Len(route) = 2 /\ route[1] = "/" /\ route[2] = "*"
    BY <1>1, <1>3, <2>5
  <2>7. PICK all : /\ all = Scoped!Within(<<>>) /\ all \in Paths /\ Len(all) = 2
                   /\ all[1] = "/" /\ all[2] = "*"
    BY WithinIs
  <2>8. \A i \in 1 .. Len(route) : route[i] = all[i]
    <3>1. \A i \in 1 .. Len(route) : i = 1 \/ i = 2
      <4>1. Len(route) = 2
        BY <2>6
      <4>. QED
        BY <4>1
    <3>. QED
      BY <2>6, <2>7, <3>1
  <2>9. route = all
    <3>1. Len(route) = Len(all) /\ all \in Paths
      BY <2>6, <2>7
    <3>. QED
      BY <2>8, <3>1, SamePath
  <2>. QED
    BY <2>7, <2>9 DEF Scoped!IsEverything
<1>. QED
  BY <1>2, <1>3, <1>5 DEF Scoped!CoversPath, AppsRoot

LEMMA BelowApps ==
    ASSUME NEW u, NEW path \in Paths, Scoped!HasPrefix(path, AppsRoot),
           NEW app, app = Scoped!FirstSegment(Scoped!AppPattern(path)), app # <<>>,
           \/ Scoped!userHasExplicitAppAccess(u, app)
           \/ Scoped!userHasRouteDerivedAppAccess(u, app)
    PROVE  Scoped!hasAppAccess(u, path)
<1>1. AppsRoot \in AppRoots /\ AppsRoot \in Paths
  BY RootTokens DEF AppRoots
<1>2. PICK tail : tail = Scoped!TrimPrefix(path, AppsRoot)
  OBVIOUS
<1>3. Scoped!Tails(path, Scoped!AppsPath) = {tail}
  BY <1>1, <1>2, OneAppTail
<1>4. app = Scoped!FirstSegment(tail)
  BY <1>2 DEF Scoped!AppPattern, AppsRoot
<1>5. /\ tail \in Paths /\ Len(tail) = Len(path) - Len(AppsRoot)
      /\ \A i \in 1 .. Len(path) - Len(AppsRoot) : tail[i] = path[Len(AppsRoot) + i]
  BY <1>1, <1>2, TrimPrefixIs
<1>6. Len(AppsRoot) \in Nat /\ Len(path) \in Nat
  BY <1>1, Lengths
<1>7. /\ Len(AppsRoot) <= Len(path)
      /\ \A i \in 1 .. Len(AppsRoot) : path[i] = AppsRoot[i]
  BY <1>1, PrefixIs
<1>8. /\ app \in Paths /\ Len(app) <= Len(tail) /\ Len(app) \in Nat
      /\ \A i \in 1 .. Len(app) : app[i] = tail[i]
      /\ Len(app) < Len(tail) => tail[Len(app) + 1] = "/"
  BY <1>4, <1>5, FirstSegmentIs, Lengths DEF Scoped!Slash
<1>9. PICK page : page = AppsRoot \o app
  OBVIOUS
<1>10. /\ page \in Paths /\ Len(page) = Len(AppsRoot) + Len(app)
       /\ \A i \in 1 .. Len(AppsRoot) : page[i] = AppsRoot[i]
       /\ \A i \in 1 .. Len(app) : page[Len(AppsRoot) + i] = app[i]
  <2>1. AppsRoot \in Paths /\ app \in Paths
    BY <1>1, <1>8
  <2>. QED
    BY <1>9, <2>1 DEF Paths
<1>11. Len(page) <= Len(path) /\ \A i \in 1 .. Len(page) : path[i] = page[i]
  <2>1. \A i \in 1 .. Len(page) :
           \/ i \in 1 .. Len(AppsRoot)
           \/ i - Len(AppsRoot) \in 1 .. Len(app) /\ Len(AppsRoot) + (i - Len(AppsRoot)) = i
    BY <1>6, <1>8, <1>10
  <2>2. \A i \in 1 .. Len(app) : path[Len(AppsRoot) + i] = app[i]
    BY <1>5, <1>6, <1>7, <1>8
  <2>3. \A i \in 1 .. Len(page) : path[i] = page[i]
    BY <1>7, <1>10, <2>1, <2>2, ZenonT(60)
  <2>. QED
    BY <1>5, <1>6, <1>7, <1>8, <1>10, <2>3
<1>12. Scoped!AppPath(app) = page
  BY <1>9 DEF Scoped!AppPath, AppsRoot
<1>13. Scoped!pathMatchesAppAccess(path, app)
  <2>1. CASE Len(app) = Len(tail)
    <3>1. Len(page) = Len(path)
      BY <1>5, <1>6, <1>7, <1>10, <2>1
    <3>2. page = path
      BY <1>10, <1>11, <3>1, SamePath
    <3>. QED
      BY <1>12, <3>2 DEF Scoped!pathMatchesAppAccess
  <2>2. CASE Len(app) < Len(tail)
    <3>1. path[Len(page) + 1] = "/" /\ Len(page) + 1 <= Len(path)
      <4>1. Len(app) + 1 \in 1 .. Len(path) - Len(AppsRoot)
        BY <1>5, <1>8, <2>2
      <4>2. tail[Len(app) + 1] = path[Len(AppsRoot) + (Len(app) + 1)]
        BY <1>5, <4>1
      <4>3. Len(AppsRoot) + (Len(app) + 1) = Len(page) + 1
        BY <1>6, <1>8, <1>10
      <4>4. Len(page) + 1 <= Len(path)
        BY <1>6, <1>8, <1>10, <4>1
      <4>. QED
        BY <1>8, <2>2, <4>2, <4>3, <4>4
    <3>2. PICK under : /\ under = Scoped!Under(page) /\ under \in Paths
                       /\ Len(under) = Len(page) + 1 /\ Len(page) \in Nat
                       /\ \A i \in 1 .. Len(page) : under[i] = page[i]
                       /\ under[Len(page) + 1] = "/"
      BY <1>10, Slashed
    <3>3. \A i \in 1 .. Len(under) : i \in 1 .. Len(page) \/ i = Len(page) + 1
      BY <3>2
    <3>4. \A i \in 1 .. Len(under) : path[i] = under[i]
      BY <1>11, <3>1, <3>2, <3>3
    <3>5. Scoped!HasPrefix(path, under)
      BY <3>1, <3>2, <3>4, PrefixIs
    <3>. QED
      BY <1>12, <3>2, <3>5 DEF Scoped!pathMatchesAppAccess
  <2>. QED
    BY <1>5, <1>6, <1>7, <1>8, <2>1, <2>2
<1>. QED
  BY <1>3, <1>4, <1>13 DEF Scoped!hasAppAccess

LEMMA LinkIsServed ==
    ASSUME NEW u, u.routes \subseteq Paths, NEW path \in Pages, Scoped!ShowsLink(u, path)
    PROVE  Scoped!CheckAccess(u, path)
<1>1. /\ path \in Paths
      /\ Scoped!HasPrefix(path, AppsRoot) => Scoped!FirstSegment(Scoped!AppPattern(path)) # <<>>
  BY GrantsAssumption DEF GrantsTypeOK, AppsRoot
<1>2. CASE path = Scoped!AppsPath /\ Scoped!userHasAnyAppAccess(u)
  BY <1>2 DEF Scoped!CheckAccess, Scoped!hasAppAccess
<1>3. ASSUME NEW route \in u.routes,
             \/ Scoped!IsEverything(route) \/ route = path
             \/ /\ Scoped!HasSuffix(route, Scoped!Within(<<>>))
                /\ Scoped!HasPrefix(path, Scoped!TrimSuffix(route, Scoped!Star))
      PROVE  Scoped!CheckAccess(u, path)
  <2>1. Scoped!IsEverything(route) \/ Scoped!CoversPath(route, path)
    BY <1>1, <1>3, CoversItself, CoversBelow
  <2>. QED
    BY <2>1 DEF Scoped!CheckAccess, Scoped!hasWildcardAccess, Scoped!hasRouteAccess
<1>4. CASE /\ Scoped!HasPrefix(path, AppsRoot)
           /\ LET app == Scoped!FirstSegment(Scoped!AppPattern(path)) IN
              \/ Scoped!userHasExplicitAppAccess(u, app)
              \/ Scoped!userHasRouteDerivedAppAccess(u, app)
  <2>1. Scoped!hasAppAccess(u, path)
    BY <1>1, <1>4, BelowApps
  <2>. QED
    BY <2>1 DEF Scoped!CheckAccess
<1>. QED
  BY <1>2, <1>3, <1>4 DEF Scoped!ShowsLink, AppsRoot

(***************************************************************************)
(* The list of services, and the page of one.                              *)
(***************************************************************************)
LEMMA ListedServices ==
    ASSUME NEW u, NEW type \in ServiceTypes, NEW name \in ServiceNames
    PROVE  name \in Scoped!getUserAllowedServices(u, type, ServiceNames)
              <=> Scoped!ShowsService(u, type, name)
<1>1. CASE Scoped!hasWildcardAccess(u) \/ Scoped!Within(Scoped!ServicesPath) \in u.routes
  BY <1>1 DEF Scoped!getUserAllowedServices, Scoped!ShowsService
<1>2. CASE ~(Scoped!hasWildcardAccess(u) \/ Scoped!Within(Scoped!ServicesPath) \in u.routes)
  <2>1. name \in Scoped!getUserAllowedServices(u, type, ServiceNames)
           <=> type \in DOMAIN u.services /\ (Scoped!Star \in u.services[type] \/ name \in u.services[type])
    BY <1>2 DEF Scoped!getUserAllowedServices
  <2>2. u.services[type] \cap {Scoped!Star, name} # {}
           <=> Scoped!Star \in u.services[type] \/ name \in u.services[type]
    OBVIOUS
  <2>. QED
    BY <1>2, <2>1, <2>2 DEF Scoped!ShowsService
<1>. QED
  BY <1>1, <1>2

ServicePage(type, name) == Scoped!Under(Scoped!Under(Scoped!ServicesPath) \o type) \o name
ServiceTail(type, name) == Scoped!Under(type) \o name

LEMMA ServicePageIs ==
    ASSUME NEW type, IsName(type), NEW name, IsName(name)
    PROVE  LET path == ServicePage(type, name)
               tail == ServiceTail(type, name)
               root == Scoped!Under(Scoped!ServicesPath) IN
           /\ path \in Paths /\ path[2] = "services"
           /\ Scoped!HasPrefix(path, root) /\ Scoped!TrimPrefix(path, root) = tail
           /\ Scoped!FirstSegment(tail) = type /\ Scoped!HasSlash(tail)
           /\ Scoped!TrimPrefix(tail, Scoped!Under(type)) = name
           /\ Scoped!FirstSegment(name) = name
<1>. PICK root : root = Scoped!Under(Scoped!ServicesPath)
  OBVIOUS
<1>. PICK path : path = ServicePage(type, name)
  OBVIOUS
<1>. PICK tail : tail = ServiceTail(type, name)
  OBVIOUS
<1>1. type \in Paths /\ name \in Paths /\ type # <<>> /\ name # <<>>
  BY DEF IsName
<1>2. root \in Paths /\ Len(root) = 3 /\ root[2] = "services"
  BY RootsAre, AreasAre
<1>3. PICK slash : slash = <<"/">> /\ slash \in Paths
  <2>1. <<"/">> \in Paths
    BY KnownTokens, PiecePaths
  <2>. QED
    BY <2>1
<1>4. PICK rest : rest = slash \o name
  OBVIOUS
<1>5. rest \in Paths /\ rest # <<>> /\ rest[1] = "/"
  <2>1. <<"/">> \o name \in Paths /\ <<"/">> \o name # <<>> /\ (<<"/">> \o name)[1] = "/"
    BY <1>1, KnownTokens DEF Paths
  <2>. QED
    BY <1>3, <1>4, <2>1
<1>6. /\ Scoped!Under(type) = type \o slash
      /\ Scoped!Under(root \o type) = (root \o type) \o slash
  BY <1>3 DEF Scoped!Under, Scoped!Slash
<1>7. tail = type \o rest
  <2>1. (type \o slash) \o name = type \o (slash \o name)
    BY <1>1, <1>3, Associative
  <2>. QED
    BY <1>4, <1>6, <2>1 DEF ServiceTail
<1>8. path = root \o type \o rest
  <2>. PICK page : page = root \o type
    OBVIOUS
  <2>1. root \in Paths
    BY <1>2
  <2>2. page \in Paths
    BY <1>1, <2>1 DEF Paths
  <2>3. (page \o slash) \o name = page \o (slash \o name)
    BY <1>1, <1>3, <2>2, Associative
  <2>. QED
    BY <1>4, <1>6, <2>3 DEF ServicePage
<1>9. /\ path \in Paths /\ Scoped!HasPrefix(path, root)
       /\ Scoped!TrimPrefix(path, root) = tail
  <2>1. root \in Paths
    BY <1>2
  <2>. root \in Paths /\ type \in Paths /\ rest \in Paths
    BY <1>1, <1>5, <2>1
  <2>. PICK whole : whole = root \o type \o rest
    OBVIOUS
  <2>3. /\ whole \in Paths /\ Scoped!HasPrefix(whole, root)
        /\ Scoped!TrimPrefix(whole, root) = type \o rest
    BY PathParts, Zenon
  <2>2. /\ path \in Paths /\ Scoped!HasPrefix(path, root)
        /\ Scoped!TrimPrefix(path, root) = type \o rest
    BY <1>8, <2>3, Zenon
  <2>. QED
    BY <1>7, <2>2
<1>10. path[2] = "services"
  <2>1. 2 \in 1 .. Len(root)
    BY <1>2
  <2>. QED
    BY <1>2, <1>9, <2>1, PrefixTokens
<1>11. Scoped!FirstSegment(tail) = type
  BY <1>5, <1>7, FirstIsName DEF Scoped!Slash
<1>12. Scoped!HasPrefix(tail, Scoped!Under(type)) /\ Scoped!TrimPrefix(tail, Scoped!Under(type)) = name
  <2>. PICK start : start = Scoped!Under(type)
    OBVIOUS
  <2>1. start \in Paths
    BY <1>1, Slashed
  <2>2. name \o <<>> = name
    BY <1>1 DEF Paths
  <2>3. tail = start \o name
    BY DEF ServiceTail
  <2>4. tail \in Paths
    BY <1>1, <2>1, <2>3 DEF Paths
  <2>5. tail \o <<>> = tail
    BY <2>4 DEF Paths
  <2>6. <<>> \in Paths
    BY KnownTokens, PiecePaths
  <2>7. /\ Scoped!HasPrefix(start \o name \o <<>>, start)
        /\ Scoped!TrimPrefix(start \o name \o <<>>, start) = name \o <<>>
    BY <1>1, <2>1, <2>6, PathParts
  <2>. QED
    BY <2>2, <2>3, <2>5, <2>7
<1>13. Scoped!HasSlash(tail)
  <2>1. tail \in Paths
    BY <1>1, <1>5, <1>7 DEF Paths
  <2>2. tail[Len(type) + 1] = "/" /\ Len(type) + 1 \in 1 .. Len(tail)
    <3>1. /\ Len(type) \in Nat /\ Len(rest) \in Nat /\ Len(tail) = Len(type) + Len(rest)
          /\ \A i \in 1 .. Len(rest) : tail[Len(type) + i] = rest[i]
      BY <1>1, <1>5, <1>7 DEF Paths
    <3>2. 1 \in 1 .. Len(rest)
      BY <1>5, <3>1, Lengths
    <3>. QED
      BY <1>5, <3>1, <3>2
  <2>. QED
    BY <2>1, <2>2, SlashIn
<1>14. Scoped!FirstSegment(name) = name
  <2>1. ~Scoped!HasSlash(name)
    BY <1>1, SlashIn DEF IsName, Scoped!Slash, Paths
  <2>. QED
    BY <1>1, <2>1, NoSlashFirst
<1>. QED
  BY <1>9, <1>10, <1>11, <1>12, <1>13, <1>14

LEMMA ServedServices ==
    ASSUME NEW u, NEW type \in ServiceTypes, NEW name \in ServiceNames,
           Scoped!ShowsService(u, type, name)
    PROVE  Scoped!CheckAccess(u, ServicePage(type, name))
<1>. PICK root : root = Scoped!Under(Scoped!ServicesPath)
  OBVIOUS
<1>. PICK path : path = ServicePage(type, name)
  OBVIOUS
<1>. PICK tail : tail = ServiceTail(type, name)
  OBVIOUS
<1>1. IsName(type) /\ IsName(name)
  BY GrantsAssumption DEF GrantsTypeOK
<1>2. /\ path \in Paths /\ path[2] = "services"
      /\ Scoped!HasPrefix(path, root) /\ Scoped!TrimPrefix(path, root) = tail
      /\ Scoped!FirstSegment(tail) = type /\ Scoped!HasSlash(tail)
      /\ Scoped!TrimPrefix(tail, Scoped!Under(type)) = name
      /\ Scoped!FirstSegment(name) = name
  BY <1>1, ServicePageIs
<1>3. CASE Scoped!hasWildcardAccess(u)
  BY <1>3 DEF Scoped!CheckAccess
<1>4. CASE Scoped!Within(Scoped!ServicesPath) \in u.routes
  <2>. PICK route : route = Scoped!Within(Scoped!ServicesPath)
    OBVIOUS
  <2>1. root \in Paths
    BY RootsAre, AreasAre
  <2>2. route = root \o <<"*">> /\ <<"*">> \in Paths /\ Len(<<"*">>) = 1
    BY KnownTokens, PiecePaths DEF Scoped!Within, Scoped!Star
  <2>3. Scoped!HasSuffix(route, Scoped!Star) /\ Scoped!TrimSuffix(route, Scoped!Star) = root
    <3>1. PICK star : star = <<"*">> /\ star \in Paths /\ Len(star) = 1 /\ star[1] = "*"
      <4>1. <<"*">>[1] = "*"
        OBVIOUS
      <4>. QED
        BY <2>2, <4>1
    <3>2. /\ route \in Paths /\ Len(root) \in Nat /\ Len(route) = Len(root) + Len(star)
          /\ \A i \in 1 .. Len(root) : route[i] = root[i]
          /\ \A i \in 1 .. Len(star) : route[Len(root) + i] = star[i]
      <4>1. route = root \o star /\ star \in Paths
        BY <2>2, <3>1
      <4>. QED
        BY <2>1, <4>1 DEF Paths
    <3>3. Len(route) = Len(root) + 1 /\ route[Len(route)] = "*"
      <4>1. 1 \in 1 .. Len(star)
        BY <3>1
      <4>. QED
        BY <3>1, <3>2, <4>1
    <3>4. Scoped!HasSuffix(route, Scoped!Star)
      BY <3>2, <3>3, StarSuffix
    <3>5. PICK start : /\ start = Scoped!TrimSuffix(route, Scoped!Star)
                       /\ start \in Paths /\ Len(route) = Len(start) + 1 /\ Len(start) \in Nat
                       /\ \A i \in 1 .. Len(start) : start[i] = route[i]
      BY <3>2, <3>4, StarSuffix
    <3>6. Len(start) = Len(root) /\ \A i \in 1 .. Len(start) : start[i] = root[i]
      BY <3>2, <3>3, <3>5
    <3>7. start = root
      BY <2>1, <3>5, <3>6, SamePath
    <3>. QED
      BY <3>4, <3>5, <3>7
  <2>4. ~Scoped!HasPrefix(path, Scoped!Under(Scoped!AppsPath))
    <3>. PICK apps : apps = Scoped!Under(Scoped!AppsPath)
      OBVIOUS
    <3>1. apps \in Paths /\ Len(apps) = 3 /\ apps[2] = "apps"
      BY RootsAre, AreasAre
    <3>2. 2 \in 1 .. Len(apps)
      BY <3>1
    <3>. QED
      BY <1>2, <3>1, <3>2, PrefixTokens
  <2>5. Scoped!CoversPath(route, path)
    BY <1>2, <2>3, <2>4 DEF Scoped!CoversPath
  <2>. QED
    BY <1>4, <2>5 DEF Scoped!CheckAccess, Scoped!hasRouteAccess
<1>5. CASE type \in DOMAIN u.services /\ u.services[type] \cap {Scoped!Star, name} # {}
  <2>1. tail \in Scoped!Tails(path, Scoped!ServicesPath)
    BY <1>2 DEF Scoped!Tails
  <2>2. name # <<>>
    BY <1>1 DEF IsName
  <2>3. Scoped!Star \in u.services[type] \/ name \in u.services[type]
    BY <1>5
  <2>4. Scoped!hasServiceAccess(u, path)
    BY <1>2, <1>5, <2>1, <2>2, <2>3 DEF Scoped!hasServiceAccess, ServiceTail
  <2>. QED
    BY <2>4 DEF Scoped!CheckAccess
<1>. QED
  BY <1>3, <1>4, <1>5 DEF Scoped!ShowsService

LEMMA PagesMatch ==
    ASSUME grantee.routes \subseteq Paths
    PROVE  PagesMatchAccess
<1>1. Scoped!AnyAppIsSomeApp
  BY AnyIsSome
<1>2. \A app \in AppNames :
         app \in Scoped!getUserAllowedApps(grantee, AppNames)
            <=> Scoped!CheckAccess(grantee, Scoped!AppPath(app))
  BY ServedApps, ListedApps
<1>3. Scoped!ShowsApps(grantee) => Scoped!CheckAccess(grantee, Scoped!AppsPath)
  <2>1. Scoped!Within(Scoped!AppsPath) \in grantee.routes => Scoped!userHasAnyAppAccess(grantee)
    BY DEF Scoped!userHasAnyAppAccess, Scoped!RouteGrantsAnyApp
  <2>2. Scoped!userHasAnyAppAccess(grantee) => Scoped!CheckAccess(grantee, Scoped!AppsPath)
    BY DEF Scoped!CheckAccess, Scoped!hasAppAccess
  <2>3. Scoped!hasWildcardAccess(grantee) => Scoped!CheckAccess(grantee, Scoped!AppsPath)
    BY DEF Scoped!CheckAccess
  <2>. QED
    BY <2>1, <2>2, <2>3 DEF Scoped!ShowsApps, Scoped!SeesEverything
<1>4. \A path \in Pages : Scoped!ShowsLink(grantee, path) => Scoped!CheckAccess(grantee, path)
  BY LinkIsServed
<1>5. \A type \in ServiceTypes : \A name \in ServiceNames :
         /\ name \in Scoped!getUserAllowedServices(grantee, type, ServiceNames)
               <=> Scoped!ShowsService(grantee, type, name)
         /\ Scoped!ShowsService(grantee, type, name)
               => Scoped!CheckAccess(grantee, Scoped!Under(Scoped!Under(Scoped!ServicesPath) \o type) \o name)
  BY ListedServices, ServedServices DEF ServicePage
<1>6. Scoped!ShowsServices(grantee)
         => \/ Scoped!CheckAccess(grantee, Scoped!ServicesPath)
            \/ Scoped!OnlyBelowServices(grantee)
  BY DEF Scoped!ShowsServices, Scoped!OnlyBelowServices, Scoped!CheckAccess,
     Scoped!hasServiceAccess
<1>7. Scoped!ListedIsServed
  BY <1>2, <1>3, <1>4, <1>5, <1>6 DEF Scoped!ListedIsServed
<1>. QED
  BY <1>1, <1>7, CreateInSync DEF PagesMatchAccess, Scoped!PagesMatchAccess

GranteeOK == grantee.routes \subseteq Paths

LEMMA GranteeStays == MCSpec => []GranteeOK
<1>1. MCInit => GranteeOK
  BY GrantsAssumption DEF MCInit, GrantsTypeOK, GranteeOK, Nobody, Scoped!Init
<1>2. GranteeOK /\ [MCNext]_<<accessVars, grantee>> => GranteeOK'
  BY DEF GranteeOK, MCNext
<1>. QED
  BY <1>1, <1>2, PTL DEF MCSpec

(***************************************************************************)
(* What the pages list, link to and offer agrees with what the middleware  *)
(* lets through, but for the link to the services of a user to whom only   *)
(* the route /services/* shows it, which is refused.                       *)
(***************************************************************************)
THEOREM PagesAgree == MCSpec => []PagesMatchAccess
<1>1. GranteeOK => PagesMatchAccess
  BY PagesMatch DEF GranteeOK
<1>. QED
  BY <1>1, GranteeStays, PTL
=============================================================================
