----------------------------- MODULE UserAdmin ------------------------------
(***************************************************************************)
(* The requests of administrators that change the configuration: create,   *)
(* update and delete a user, set a password, and change the backup         *)
(* settings.  A handler takes the shared configuration, checks the request *)
(* against it, copies and changes the users and saves the copy; no lock    *)
(* spans these steps, so each one is a step here and requests interleave.  *)
(* The backup handler changes the shared configuration itself.             *)
(*                                                                         *)
(* The write of the file is one step: ConfigFile has its system calls and  *)
(* shows when that is sound.                                               *)
(***************************************************************************)
EXTENDS Naturals, Sequences, FiniteSets

CONSTANTS
    Requests,     \* the requests in flight at the same time
    Names,        \* usernames
    Passwords,    \* password hashes
    Settings,     \* backup settings
    Kinds         \* the kinds of requests that are made

Roles == {"admin", "user"}

User == [name : Names, role : Roles, disabled : BOOLEAN, password : Passwords]

NoUser == [name |-> "", role |-> "", disabled |-> FALSE, password |-> ""]

Config == [users : Seq(User), backup : Settings]

NoCopy == [users |-> <<>>, backup |-> ""]

(***************************************************************************)
(* What a request asks for: the user in its path is target, the session it *)
(* belongs to is of actor, the rest is its payload.                        *)
(***************************************************************************)
Command ==
    [kind : {"create"}, actor : Names, name : Names, role : Roles,
     disabled : BOOLEAN, password : Passwords]
    \cup
    [kind : {"update"}, actor : Names, target : Names, name : Names,
     role : Roles, disabled : BOOLEAN]
    \cup
    [kind : {"password"}, actor : Names, target : Names, password : Passwords]
    \cup
    [kind : {"delete"}, actor : Names, target : Names]
    \cup
    [kind : {"backup"}, actor : Names, backup : Settings]

ASSUME KindsAssumption ==
    Kinds \subseteq {"create", "update", "password", "delete", "backup"}

NoCommand == [kind |-> "none"]

RequestPCs == {"idle", "find", "check", "clone", "mutate", "write", "publish"}

VARIABLES
    running,    \* currentConfig
    saved,      \* the content of pruvon.yml
    pc,         \* [Requests -> RequestPCs]
    command,    \* [Requests -> Command], what a request in flight asks for
    found,      \* [Requests -> User or NoUser], the user the handler found
    copy        \* [Requests -> Config], the configuration it will save

vars == <<running, saved, pc, command, found, copy>>

-----------------------------------------------------------------------------
(***************************************************************************)
(* Reading users.                                                          *)
(***************************************************************************)
Exists(users, name) == \E i \in DOMAIN users : users[i].name = name

FindUser(users, name) ==
    IF Exists(users, name)
    THEN users[CHOOSE i \in DOMAIN users :
                   /\ users[i].name = name
                   /\ \A j \in 1 .. i - 1 : users[j].name # name]
    ELSE NoUser

IsEnabledAdmin(user) == user.role = "admin" /\ ~user.disabled

EnabledAdmins(users) == {i \in DOMAIN users : IsEnabledAdmin(users[i])}

Mutant_CountDisabledToo(users) ==
    Cardinality({i \in DOMAIN users : users[i].role = "admin"})

FindEnabledAdminCount(users) == Cardinality(EnabledAdmins(users))

ValidateUsers(users) ==
    \A i, j \in DOMAIN users : users[i].name = users[j].name => i = j

-----------------------------------------------------------------------------
(***************************************************************************)
(* The users a request saves, made from the shared ones.  user is what its *)
(* handler found before, whose password an update keeps.                   *)
(***************************************************************************)
Created(c) == [name |-> c.name, role |-> c.role, disabled |-> c.disabled,
               password |-> c.password]

Updated(c, user) == [name |-> c.name, role |-> c.role, disabled |-> c.disabled,
                     password |-> user.password]

(***************************************************************************)
(* The first user with the name becomes another one.                       *)
(***************************************************************************)
ReplaceUser(users, name, user) ==
    [i \in DOMAIN users |->
        IF users[i].name = name /\ \A j \in 1 .. i - 1 : users[j].name # name
        THEN user ELSE users[i]]

RemoveUser(users, name) ==
    LET newUsers[n \in 0 .. Len(users)] ==    \* after n turns of the loop
            IF n = 0 THEN <<>>
            ELSE IF users[n].name # name THEN Append(newUsers[n - 1], users[n])
                 ELSE newUsers[n - 1]
    IN newUsers[Len(users)]

UsersAfter(c, user, users) ==
    CASE c.kind = "create"   -> Append(users, Created(c))
      [] c.kind = "update"   -> ReplaceUser(users, c.target, Updated(c, user))
      [] c.kind = "password" ->
            ReplaceUser(users, c.target, [FindUser(users, c.target)
                                             EXCEPT !.password = c.password])
      [] c.kind = "delete"   -> RemoveUser(users, c.target)
      [] OTHER               -> users

-----------------------------------------------------------------------------
GoTo(r, from, to) == pc[r] = from /\ pc' = [pc EXCEPT ![r] = to]

(***************************************************************************)
(* The request is answered, with an error or not.                          *)
(***************************************************************************)
End(r) ==
    /\ pc' = [pc EXCEPT ![r] = "idle"]
    /\ command' = [command EXCEPT ![r] = NoCommand]
    /\ found' = [found EXCEPT ![r] = NoUser]
    /\ copy' = [copy EXCEPT ![r] = NoCopy]

Refuse(r) == End(r) /\ UNCHANGED <<running, saved>>

(***************************************************************************)
(* Auth and requireAdminSettingsAccess: the session's user is, now, an     *)
(* enabled administrator.                                                  *)
(***************************************************************************)
Arrive(r) ==
    /\ pc[r] = "idle"
    /\ \E c \in Command :
          /\ c.kind \in Kinds
          /\ IsEnabledAdmin(FindUser(running.users, c.actor))
          /\ command' = [command EXCEPT ![r] = c]
          /\ pc' = [pc EXCEPT ![r] = IF c.kind = "backup" THEN "mutate" ELSE "find"]
    /\ UNCHANGED <<running, saved, found, copy>>

(***************************************************************************)
(* The first look: a user to create must be new, one to change must exist, *)
(* and nobody deletes the own account.                                     *)
(***************************************************************************)
IsChecked(c) == c.kind \in {"update", "delete"}

Findable(c) ==
    CASE c.kind = "create" -> ~Exists(running.users, c.name)
      [] c.kind = "delete" -> c.target # c.actor /\ Exists(running.users, c.target)
      [] OTHER             -> Exists(running.users, c.target)

Find(r) ==
    LET c == command[r] IN
    /\ GoTo(r, "find", IF IsChecked(c) THEN "check" ELSE "clone")
    /\ Findable(c)
    /\ found' = [found EXCEPT ![r] = IF IsChecked(c)
                                     THEN FindUser(running.users, c.target)
                                     ELSE NoUser]
    /\ UNCHANGED <<running, saved, command, copy>>

FindRefuses(r) ==
    /\ pc[r] = "find"
    /\ ~Findable(command[r])
    /\ Refuse(r)

(***************************************************************************)
(* The second look, of an update (the new name, then                       *)
(* validateUserMutation, which finds the target anew) and of a deletion    *)
(* (which goes by the user it found first).                                *)
(***************************************************************************)
LosesAdmin(c, target) ==
    \/ c.target = c.actor /\ c.role # "admin" /\ target.role = "admin"
    \/ IsEnabledAdmin(target) /\ (c.role # "admin" \/ c.disabled)

UpdateAllowed(c) ==
    LET target == FindUser(running.users, c.target) IN
    /\ c.name # c.target => ~Exists(running.users, c.name)
    /\ Exists(running.users, c.target)
    /\ ~(c.target = c.actor /\ c.disabled)
    /\ LosesAdmin(c, target) => FindEnabledAdminCount(running.users) # 1

DeleteAllowed(user) ==
    IsEnabledAdmin(user) => FindEnabledAdminCount(running.users) # 1

Allowed(r) == IF command[r].kind = "update" THEN UpdateAllowed(command[r])
                                            ELSE DeleteAllowed(found[r])

Check(r) ==
    /\ GoTo(r, "check", "clone")
    /\ Allowed(r)
    /\ UNCHANGED <<running, saved, command, found, copy>>

CheckRefuses(r) ==
    /\ pc[r] = "check"
    /\ ~Allowed(r)
    /\ Refuse(r)

(***************************************************************************)
(* The backup handler changes the shared configuration before it saves.    *)
(***************************************************************************)
Mutate(r) ==
    /\ GoTo(r, "mutate", "clone")
    /\ running' = [running EXCEPT !.backup = command[r].backup]
    /\ UNCHANGED <<saved, command, found, copy>>

(***************************************************************************)
(* cloneConfig and the change; for the backup handler, what is marshalled. *)
(***************************************************************************)
Clone(r) ==
    /\ GoTo(r, "clone", "write")
    /\ copy' = [copy EXCEPT ![r] =
                   [running EXCEPT !.users = UsersAfter(command[r], found[r], @)]]
    /\ UNCHANGED <<running, saved, command, found>>

(***************************************************************************)
(* SaveConfig: ValidateUsers, the file, then the memory.                   *)
(***************************************************************************)
Mutant_WriteUnvalidated(r) ==
    /\ GoTo(r, "write", "publish")
    /\ saved' = copy[r]
    /\ UNCHANGED <<running, command, found, copy>>

Write(r) ==
    /\ ValidateUsers(copy[r].users)
    /\ GoTo(r, "write", "publish")
    /\ saved' = copy[r]
    /\ UNCHANGED <<running, command, found, copy>>

(***************************************************************************)
(* The users are not valid, or the file cannot be written.                 *)
(***************************************************************************)
WriteFails(r) == pc[r] = "write" /\ Refuse(r)

Publish(r) ==
    /\ pc[r] = "publish"
    /\ running' = IF command[r].kind = "backup" THEN running ELSE copy[r]
    /\ End(r)
    /\ UNCHANGED saved

(***************************************************************************)
(* The server stops and starts again, with what is in the file.            *)
(***************************************************************************)
Restart ==
    /\ running' = saved
    /\ pc' = [r \in Requests |-> "idle"]
    /\ command' = [r \in Requests |-> NoCommand]
    /\ found' = [r \in Requests |-> NoUser]
    /\ copy' = [r \in Requests |-> NoCopy]
    /\ UNCHANGED saved

(***************************************************************************)
(* CreateDefaultConfig: the file of a first start has one administrator.   *)
(***************************************************************************)
Init ==
    /\ \E name \in Names, password \in Passwords, backup \in Settings :
          running = [users  |-> <<[name |-> name, role |-> "admin",
                                   disabled |-> FALSE, password |-> password]>>,
                     backup |-> backup]
    /\ saved = running
    /\ pc = [r \in Requests |-> "idle"]
    /\ command = [r \in Requests |-> NoCommand]
    /\ found = [r \in Requests |-> NoUser]
    /\ copy = [r \in Requests |-> NoCopy]

RequestStep(r) ==
    \/ Arrive(r) \/ Find(r) \/ FindRefuses(r) \/ Check(r) \/ CheckRefuses(r)
    \/ Mutate(r) \/ Clone(r) \/ Write(r) \/ WriteFails(r) \/ Publish(r)

Next == (\E r \in Requests : RequestStep(r)) \/ Restart

Spec == Init /\ [][Next]_vars

-----------------------------------------------------------------------------
TypeOK ==
    /\ running \in Config
    /\ saved \in Config
    /\ pc \in [Requests -> RequestPCs]
    /\ command \in [Requests -> Command \cup {NoCommand}]
    /\ found \in [Requests -> User \cup {NoUser}]
    /\ copy \in [Requests -> Config \cup {NoCopy}]

(***************************************************************************)
(* Whatever requests overlap, no username is taken twice, neither in the   *)
(* memory nor in the file: two requests that both found a name free are    *)
(* told apart when they save.                                              *)
(***************************************************************************)
NamesAreUnique == ValidateUsers(running.users) /\ ValidateUsers(saved.users)

(***************************************************************************)
(* "Cannot remove the last enabled admin": there is always somebody who    *)
(* can administer the server.                                              *)
(***************************************************************************)
AdminRemains == /\ EnabledAdmins(running.users) # {}
                /\ EnabledAdmins(saved.users) # {}

(***************************************************************************)
(* A user changes only by a request about that user: no save brings back   *)
(* what another one has replaced.  And an update, which has no password in *)
(* its payload, leaves the user the password that is set when it is        *)
(* published, also under a new name.  As the tests of the handlers have it *)
(* for one request after the other: a password that was set is the user's  *)
(* password, and renaming keeps it.  UserAdminLostUpdate.cfg shows what    *)
(* two requests make of it.                                                *)
(***************************************************************************)
IsAbout(c, name) ==
    CASE c.kind = "create" -> name = c.name
      [] c.kind = "update" -> name \in {c.name, c.target}
      [] c.kind \in {"password", "delete"} -> name = c.target
      [] OTHER -> FALSE

PasswordStays(r) ==
    pc[r] = "publish" /\ pc'[r] = "idle" /\ command[r].kind = "update"
        => FindUser(running'.users, command[r].name).password
              = FindUser(running.users, command[r].target).password

NoLostUpdate ==
    [][/\ \A name \in Names :
             FindUser(running.users, name)' # FindUser(running.users, name)
                => \E r \in Requests : IsAbout(command[r], name)
       /\ \A r \in Requests : PasswordStays(r)]_vars
=============================================================================
