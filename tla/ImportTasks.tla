---------------------------- MODULE ImportTasks -----------------------------
(***************************************************************************)
(* Importing a backup into a service takes two requests.  An upload leaves *)
(* the backup in a temporary file, checks that the service exists and puts *)
(* a task in the table ImportTasks; a WebSocket then takes the task out of *)
(* the table, pipes the file into dokku and streams what dokku prints.     *)
(* Several browsers may open a socket for the same task.                   *)
(*                                                                         *)
(* A task and its temporary file have one identifier here, which is taken  *)
(* again when nothing is left of either.                                   *)
(***************************************************************************)
CONSTANTS
    Tasks,      \* identifiers of tasks (uuids) and of their files
    Sockets,    \* WebSocket connections that ask for a task
    NoTask      \* a socket that has no task

ASSUME TaskAssumption == NoTask \notin Tasks

UploadPCs == {"none", "save", "plugins", "services", "register"}

SocketPCs == {"idle", "start", "stream", "close", "remove"}

(***************************************************************************)
(* A file a stopped server has left in /tmp is an orphan.                  *)
(***************************************************************************)
FileStates == {"absent", "empty", "saved", "orphan"}

VARIABLES
    table,      \* ImportTasks, the tasks that wait for a socket
    file,       \* [Tasks -> FileStates], the temporary files
    upload,     \* [Tasks -> UploadPCs], the handlers of the uploads
    socket,     \* [Sockets -> SocketPCs]
    task,       \* [Sockets -> Tasks or NoTask], what a socket has taken
    import      \* [Tasks -> BOOLEAN], is dokku reading the file

vars == <<table, file, upload, socket, task, import>>

Init ==
    /\ table = {}
    /\ file = [t \in Tasks |-> "absent"]
    /\ upload = [t \in Tasks |-> "none"]
    /\ socket = [s \in Sockets |-> "idle"]
    /\ task = [s \in Sockets |-> NoTask]
    /\ import = [t \in Tasks |-> FALSE]

-----------------------------------------------------------------------------
(***************************************************************************)
(* handleServiceImport.                                                    *)
(***************************************************************************)
GoTo(t, from, to) == upload[t] = from /\ upload' = [upload EXCEPT ![t] = to]

Fresh(t) ==
    /\ upload[t] = "none" /\ t \notin table /\ file[t] = "absent"
    /\ \A s \in Sockets : task[s] # t

CreateTemp(t) ==
    /\ Fresh(t)
    /\ GoTo(t, "none", "save")
    /\ file' = [file EXCEPT ![t] = "empty"]
    /\ UNCHANGED <<table, socket, task, import>>

SaveFile(t) ==
    /\ GoTo(t, "save", "plugins")
    /\ file' = [file EXCEPT ![t] = "saved"]
    /\ UNCHANGED <<table, socket, task, import>>

(***************************************************************************)
(* plugin:list names the service's plugin; then <type>:list the service.   *)
(***************************************************************************)
PluginInstalled(t) ==
    /\ GoTo(t, "plugins", "services")
    /\ UNCHANGED <<table, file, socket, task, import>>

ServiceExists(t) ==
    /\ GoTo(t, "services", "register")
    /\ UNCHANGED <<table, file, socket, task, import>>

Mutant_RefusedFileStays(t) ==
    /\ \E from \in {"save", "plugins", "services"} : GoTo(t, from, "none")
    /\ file' = IF upload[t] = "services" THEN file ELSE [file EXCEPT ![t] = "absent"]
    /\ UNCHANGED <<table, socket, task, import>>

(***************************************************************************)
(* The file could not be saved, a command failed or a check did: the       *)
(* upload is refused and its file removed.                                 *)
(***************************************************************************)
UploadRefused(t) ==
    /\ \E from \in {"save", "plugins", "services"} : GoTo(t, from, "none")
    /\ file' = [file EXCEPT ![t] = "absent"]
    /\ UNCHANGED <<table, socket, task, import>>

Register(t) ==
    /\ GoTo(t, "register", "none")
    /\ table' = table \cup {t}
    /\ UNCHANGED <<file, socket, task, import>>

-----------------------------------------------------------------------------
(***************************************************************************)
(* handleServiceImportTask.                                                *)
(***************************************************************************)
Mutant_LeaveInTable(s, t) ==
    /\ socket[s] = "idle"
    /\ t \in table
    /\ socket' = [socket EXCEPT ![s] = "start"]
    /\ task' = [task EXCEPT ![s] = t]
    /\ UNCHANGED <<table, file, upload, import>>

(***************************************************************************)
(* The task is looked up and deleted under the mutex.                      *)
(***************************************************************************)
Claim(s, t) ==
    /\ socket[s] = "idle"
    /\ t \in table
    /\ table' = table \ {t}
    /\ socket' = [socket EXCEPT ![s] = "start"]
    /\ task' = [task EXCEPT ![s] = t]
    /\ UNCHANGED <<file, upload, import>>

StartImport(s) ==
    /\ socket[s] = "start"
    /\ socket' = [socket EXCEPT ![s] = "stream"]
    /\ import' = [import EXCEPT ![task[s]] = TRUE]
    /\ UNCHANGED <<table, file, upload, task>>

Mutant_StartErrorKeepsFile(s) ==
    /\ socket[s] = "start"
    /\ socket' = [socket EXCEPT ![s] = "idle"]
    /\ task' = [task EXCEPT ![s] = NoTask]
    /\ UNCHANGED <<table, file, upload, import>>

StartImportFails(s) ==
    /\ socket[s] = "start"
    /\ socket' = [socket EXCEPT ![s] = "remove"]
    /\ UNCHANGED <<table, file, upload, task, import>>

(***************************************************************************)
(* The command ends, or a write to the socket fails while it runs.         *)
(***************************************************************************)
ImportEnds(s) ==
    /\ socket[s] = "stream"
    /\ socket' = [socket EXCEPT ![s] = "close"]
    /\ import' = [import EXCEPT ![task[s]] = FALSE]
    /\ UNCHANGED <<table, file, upload, task>>

SocketGone(s) ==
    /\ socket[s] = "stream"
    /\ socket' = [socket EXCEPT ![s] = "close"]
    /\ UNCHANGED <<table, file, upload, task, import>>

(***************************************************************************)
(* The deferred calls, the last one first: the terminal is closed, which   *)
(* ends a command that still runs, then the file is removed.               *)
(***************************************************************************)
ClosePTY(s) ==
    /\ socket[s] = "close"
    /\ socket' = [socket EXCEPT ![s] = "remove"]
    /\ import' = [import EXCEPT ![task[s]] = FALSE]
    /\ UNCHANGED <<table, file, upload, task>>

RemoveFile(s) ==
    /\ socket[s] = "remove"
    /\ socket' = [socket EXCEPT ![s] = "idle"]
    /\ file' = [file EXCEPT ![task[s]] = "absent"]
    /\ task' = [task EXCEPT ![s] = NoTask]
    /\ UNCHANGED <<table, upload, import>>

(***************************************************************************)
(* The server stops and starts again: table, handlers and sockets are      *)
(* gone, the files are not.                                                *)
(***************************************************************************)
Restart ==
    /\ table' = {}
    /\ file' = [t \in Tasks |-> IF file[t] = "absent" THEN "absent" ELSE "orphan"]
    /\ upload' = [t \in Tasks |-> "none"]
    /\ socket' = [s \in Sockets |-> "idle"]
    /\ task' = [s \in Sockets |-> NoTask]
    /\ import' = [t \in Tasks |-> FALSE]

UploadStep(t) ==
    \/ SaveFile(t) \/ PluginInstalled(t) \/ ServiceExists(t)
    \/ UploadRefused(t) \/ Register(t)

SocketStep(s) ==
    \/ StartImport(s) \/ StartImportFails(s)
    \/ ImportEnds(s) \/ SocketGone(s) \/ ClosePTY(s) \/ RemoveFile(s)

Next ==
    \/ \E t \in Tasks : CreateTemp(t) \/ UploadStep(t)
    \/ \E s \in Sockets, t \in Tasks : Claim(s, t)
    \/ \E s \in Sockets : SocketStep(s)
    \/ Restart

(***************************************************************************)
(* A handler that runs goes on, and an import ends.  Uploads, sockets that *)
(* ask for a task and restarts of the server need not happen.              *)
(***************************************************************************)
Fairness ==
    /\ \A t \in Tasks : WF_vars(UploadStep(t))
    /\ \A s \in Sockets : WF_vars(SocketStep(s))

Spec == Init /\ [][Next]_vars

FairSpec == Spec /\ Fairness

-----------------------------------------------------------------------------
TypeOK ==
    /\ table \in SUBSET Tasks
    /\ file \in [Tasks -> FileStates]
    /\ upload \in [Tasks -> UploadPCs]
    /\ socket \in [Sockets -> SocketPCs]
    /\ task \in [Sockets -> Tasks \cup {NoTask}]
    /\ import \in [Tasks -> BOOLEAN]

(***************************************************************************)
(* A task is with its upload, in the table or with one socket, never with  *)
(* two of them: two sockets cannot import the same backup, nor one a       *)
(* backup whose upload can still be refused.                               *)
(***************************************************************************)
Holders(t) == {s \in Sockets : task[s] = t}

OneOwner ==
    /\ \A t \in Tasks : upload[t] # "none" => t \notin table /\ Holders(t) = {}
    /\ \A t \in table : Holders(t) = {}
    /\ \A r, s \in Sockets : task[r] = task[s] /\ task[r] # NoTask => r = s

(***************************************************************************)
(* A temporary file is there as long as a task has an owner, and no longer *)
(* unless the server stops; what dokku reads is a whole upload.            *)
(***************************************************************************)
Owned(t) == upload[t] # "none" \/ t \in table \/ Holders(t) # {}

FileIsOwned ==
    \A t \in Tasks :
        /\ file[t] \in {"empty", "saved"} <=> Owned(t)
        /\ t \in table \/ Holders(t) # {} => file[t] = "saved"
        /\ import[t] => Holders(t) # {}

(***************************************************************************)
(* What makes both inductive.                                              *)
(***************************************************************************)
PcMatches ==
    /\ \A t \in Tasks : upload[t] \in {"plugins", "services", "register"}
                           => file[t] = "saved"
    /\ \A s \in Sockets : socket[s] = "idle" <=> task[s] = NoTask
    /\ \A s \in Sockets : socket[s] \in {"idle", "start", "remove"}
                             => \A t \in Tasks : task[s] = t => ~import[t]

IInv == TypeOK /\ OneOwner /\ FileIsOwned /\ PcMatches

(***************************************************************************)
(* The file of a task that a socket has taken is removed in the end,       *)
(* whether the import worked or not, unless the server stops before.       *)
(***************************************************************************)
ClaimedIsRemoved ==
    \A t \in Tasks : Holders(t) # {} ~> file[t] \in {"absent", "orphan"}
=============================================================================
