------------------------------- MODULE Access -------------------------------
(***************************************************************************)
(* Browsers in front of UserAdmin: they log in and out, every request of   *)
(* theirs passes the middleware Auth, and the requests of administrators   *)
(* are those of UserAdmin.  A session keeps a username and a role; Auth    *)
(* looks the user up anew and brings the role up to date, the handler goes *)
(* by the role in the session.  Sessions live in memory.                   *)
(*                                                                         *)
(* A browser does one thing at a time.                                     *)
(***************************************************************************)
EXTENDS UserAdmin

CONSTANTS
    Browsers,
    NoBrowser

ASSUME NoBrowserAssumption == NoBrowser \notin Browsers

Session == [name : Names, role : Roles]

NoSession == [name |-> "", role |-> ""]

VARIABLES
    session,    \* [Browsers -> Session or NoSession], the session store
    by,         \* [Requests -> Browsers or NoBrowser], whose request passed Auth
    renaming    \* [Requests -> Session or NoSession], the session to be saved
                \* after an administrator's update of the own user

sessionVars == <<session, by, renaming>>

accessVars == <<vars, sessionVars>>

-----------------------------------------------------------------------------
IsEnabled(user) == user # NoUser /\ ~user.disabled

IsFree(b) == \A r \in Requests : by[r] # b

SessionOf(user) == [name |-> user.name, role |-> user.role]

(***************************************************************************)
(* HandleLoginAPI: the password is that of an enabled user.                *)
(***************************************************************************)
HandleLogin(b) ==
    /\ IsFree(b)
    /\ \E i \in DOMAIN running.users :
          /\ IsEnabled(running.users[i])
          /\ session' = [session EXCEPT ![b] = SessionOf(running.users[i])]
    /\ UNCHANGED <<vars, by, renaming>>

HandleLogout(b) ==
    /\ IsFree(b)
    /\ session' = [session EXCEPT ![b] = NoSession]
    /\ UNCHANGED <<vars, by, renaming>>

(***************************************************************************)
(* syncConfiguredUser: the session of a user who is gone or disabled is    *)
(* emptied, a role that has changed is saved.                              *)
(***************************************************************************)
Mutant_RoleNotSynced(s) ==
    IF IsEnabled(FindUser(running.users, s.name)) THEN s ELSE NoSession

syncConfiguredUser(s) ==
    LET user == FindUser(running.users, s.name) IN
    IF IsEnabled(user) THEN SessionOf(user) ELSE NoSession

(***************************************************************************)
(* Auth: a request of a browser that is logged in, for one of the handlers *)
(* of UserAdmin or for anything else.                                      *)
(***************************************************************************)
Auth(b) ==
    LET synced == syncConfiguredUser(session[b]) IN
    /\ IsFree(b)
    /\ session[b] # NoSession
    /\ session' = [session EXCEPT ![b] = synced]
    /\ \/ UNCHANGED by
       \/ \E r \in Requests :
             /\ synced # NoSession
             /\ by[r] = NoBrowser
             /\ by' = [by EXCEPT ![r] = b]
    /\ UNCHANGED <<vars, renaming>>

(***************************************************************************)
(* requireAdminSettingsAccess: the role in the session lets the request in *)
(* or not, and the session's user is the actor.                            *)
(***************************************************************************)
IsWaiting(r) == by[r] # NoBrowser /\ pc[r] = "idle" /\ renaming[r] = NoSession

requireAdminSettingsAccess(r) ==
    /\ IsWaiting(r)
    /\ session[by[r]].role = "admin"
    /\ \E c \in Command :
          /\ c.kind \in Kinds
          /\ c.actor = session[by[r]].name
          /\ command' = [command EXCEPT ![r] = c]
          /\ pc' = [pc EXCEPT ![r] = IF c.kind = "backup" THEN "mutate" ELSE "find"]
    /\ UNCHANGED <<running, saved, found, copy, sessionVars>>

Leave(r) == by' = [by EXCEPT ![r] = NoBrowser]

Forbidden(r) ==
    /\ IsWaiting(r)
    /\ session[by[r]].role # "admin"
    /\ Leave(r)
    /\ UNCHANGED <<vars, session, renaming>>

-----------------------------------------------------------------------------
(***************************************************************************)
(* The handlers' steps.  After an update of the own user is saved, the     *)
(* session follows it.                                                     *)
(***************************************************************************)
HandlerStep(r) ==
    /\ \/ Find(r) \/ Check(r) \/ Mutate(r) \/ Clone(r) \/ Write(r)
    /\ UNCHANGED sessionVars

HandlerRefuses(r) ==
    /\ FindRefuses(r) \/ CheckRefuses(r) \/ WriteFails(r)
    /\ Leave(r)
    /\ UNCHANGED <<session, renaming>>

IsOwnUpdate(r) ==
    /\ command[r].kind = "update"
    /\ command[r].target = session[by[r]].name

HandlerSaved(r) ==
    /\ Publish(r)
    /\ IF IsOwnUpdate(r)
       THEN /\ renaming' = [renaming EXCEPT ![r] = SessionOf(command[r])]
            /\ UNCHANGED by
       ELSE Leave(r) /\ UNCHANGED renaming
    /\ UNCHANGED session

Mutant_RoleOnly(r) ==
    /\ renaming[r] # NoSession
    /\ session' = [session EXCEPT ![by[r]].role = renaming[r].role]
    /\ renaming' = [renaming EXCEPT ![r] = NoSession]
    /\ Leave(r)
    /\ UNCHANGED vars

updateCurrentSessionUsername(r) ==
    /\ renaming[r] # NoSession
    /\ session' = [session EXCEPT ![by[r]] = renaming[r]]
    /\ renaming' = [renaming EXCEPT ![r] = NoSession]
    /\ Leave(r)
    /\ UNCHANGED vars

AccessRestart ==
    /\ Restart
    /\ session' = [b \in Browsers |-> NoSession]
    /\ by' = [r \in Requests |-> NoBrowser]
    /\ renaming' = [r \in Requests |-> NoSession]

AccessInit ==
    /\ Init
    /\ session = [b \in Browsers |-> NoSession]
    /\ by = [r \in Requests |-> NoBrowser]
    /\ renaming = [r \in Requests |-> NoSession]

BrowserStep(b) == HandleLogin(b) \/ HandleLogout(b) \/ Auth(b)

AccessRequestStep(r) ==
    \/ requireAdminSettingsAccess(r) \/ Forbidden(r)
    \/ HandlerStep(r) \/ HandlerRefuses(r) \/ HandlerSaved(r)
    \/ updateCurrentSessionUsername(r)

AccessNext ==
    \/ \E b \in Browsers : BrowserStep(b)
    \/ \E r \in Requests : AccessRequestStep(r)
    \/ AccessRestart

AccessSpec == AccessInit /\ [][AccessNext]_accessVars

-----------------------------------------------------------------------------
AccessTypeOK ==
    /\ TypeOK
    /\ session \in [Browsers -> Session \cup {NoSession}]
    /\ by \in [Requests -> Browsers \cup {NoBrowser}]
    /\ renaming \in [Requests -> Session \cup {NoSession}]

(***************************************************************************)
(* With one request at a time, browsers whose sessions are older than the  *)
(* configuration make only those changes UserAdmin allows: each one is of  *)
(* a user who is an enabled administrator when the request begins, however *)
(* the user was demoted, disabled, deleted or renamed since the login.     *)
(***************************************************************************)
ImplementsUserAdmin == Init /\ [][Next]_vars

(***************************************************************************)
(* With one request at a time, the session of an administrator who updates *)
(* the own user is up to date with the configuration when the request is   *)
(* answered, unless the server restarts: nobody loses the session by       *)
(* renaming oneself.                                                       *)
(***************************************************************************)
OwnUpdateKeepsSession ==
    [][\A r \in Requests :
          renaming[r] # NoSession /\ by'[r] = NoBrowser
             => \/ session' = [b \in Browsers |-> NoSession]
                \/ LET user == FindUser(running.users, session'[by[r]].name) IN
                   IsEnabled(user) /\ session'[by[r]] = SessionOf(user)]_accessVars
=============================================================================
