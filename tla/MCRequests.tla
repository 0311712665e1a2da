----------------------------- MODULE MCRequests -----------------------------
(***************************************************************************)
(* Requests that save, or that run commands, for TLC.  A behaviour is that *)
(* of one part, and the others stand still:                                *)
(*    "file"      ConfigFile, in a directory that can be written           *)
(*    "fallback"  ConfigFile, in one that may deny a call                  *)
(*    "users"     UserAdmin, with requests that overlap                    *)
(*    "apps"      AppRequests, with requests that overlap                  *)
(***************************************************************************)
EXTENDS ConfigFile, AppForms, Sequences, TLC

CONSTANTS Requests,
          Names, Passwords, Settings, Kinds,           \* of UserAdmin
          Apps, DefaultName, Options, Forms, Linked, MaxFailures

ASSUME UserRequestsAssumption ==
    Kinds \subseteq {"create", "update", "password", "delete", "backup"}

SetOrUnset == {"config", "port", "nginx", "redirect", "scale", "procfile", "restart-policy"}

FormsTypeOK ==
    \A f \in Forms :
        /\ f.kind \in SetOrUnset \cup
              {"create-app", "delete-app", "add-domain", "remove-domain", "ssl", "mount",
               "unmount", "add-option", "update-option", "delete-option", "limits",
               "create-service", "link", "unlink", "delete-service", "service-config",
               "service-limits"}
        /\ f.kind \in SetOrUnset => f.do \in {"set", "unset"}
        /\ f.kind = "create-app" =>
              /\ f.services \in Seq(STRING \X STRING)
              /\ f.wants \subseteq {"env", "domain", "port", "ssl", "mount", "image"}
        /\ f.kind \in {"create-service", "delete-service", "service-config",
                       "service-limits"} \/ f.app \in Apps

ASSUME FormsAssumption == FormsTypeOK

VARIABLES part,
          fInode, fFile, fTmp, fRunning, fPc, fConfig, fSharing, fFd,
          uRunning, uSaved, uPc, uCommand, uFound, uCopy,
          dokku, asked, plan, told, logged, answer, failures, alone, had

Fallback == INSTANCE ConfigFile WITH
    Denied <- TRUE, inode <- fInode, file <- fFile, tmp <- fTmp,
    running <- fRunning, pc <- fPc, config <- fConfig, sharing <- fSharing,
    fd <- fFd

Users == INSTANCE UserAdmin WITH
    running <- uRunning, saved <- uSaved, pc <- uPc, command <- uCommand,
    found <- uFound, copy <- uCopy

A == INSTANCE AppRequests

fallbackVars == <<fInode, fFile, fTmp, fRunning, fPc, fConfig, fSharing, fFd>>
userVars == <<uRunning, uSaved, uPc, uCommand, uFound, uCopy>>
appVars == <<dokku, asked, plan, told, logged, answer, failures, alone, had>>

AnInode == CHOOSE i \in Inodes : TRUE
AConfig == CHOOSE c \in Configs : TRUE
AName == CHOOSE n \in Names : TRUE

\* Of a part that stands still one initial state is enough.
MCInit ==
    /\ Init /\ Fallback!Init /\ Users!Init /\ A!Init
    /\ part \in {"file", "fallback", "users", "apps"}
    /\ part # "file" => file = AnInode /\ running = AConfig
    /\ part # "fallback" => fFile = AnInode /\ fRunning = AConfig
    /\ part # "users" => uRunning.users[1].name = AName

MCNext ==
    /\ \/ part = "file" /\ Next /\ UNCHANGED <<fallbackVars, userVars, appVars>>
       \/ part = "fallback" /\ Fallback!Next /\ UNCHANGED <<vars, userVars, appVars>>
       \/ part = "users" /\ Users!Next /\ UNCHANGED <<vars, fallbackVars, appVars>>
       \/ part = "apps" /\ A!Next /\ UNCHANGED <<vars, fallbackVars, userVars>>
    /\ UNCHANGED part

MCSpec == MCInit /\ [][MCNext]_<<part, vars, fallbackVars, userVars, appVars>>

Symmetry == Permutations(Requests)

-----------------------------------------------------------------------------
\* Both directories: a save that is answered with success is in the file and in
\* the memory, by the rename or by the fallback that overwrites.
SavesAreSaved == SavedMeansSaved /\ Fallback!SavedMeansSaved

\* Two requests never give two users one name.
NamesAreUnique == Users!NamesAreUnique

SuccessIsComplete == A!SuccessIsComplete
DataOutlivesApp == A!DataOutlivesApp
DeletionCanBeRepeated == A!DeletionCanBeRepeated
=============================================================================
