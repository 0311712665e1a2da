----------------------------- MODULE ConfigFile -----------------------------
(***************************************************************************)
(* SaveConfig and WriteConfigFile: how a configuration that passed         *)
(* ValidateUsers gets to the file pruvon.yml and to the memory of the      *)
(* server, one step per system call.  The temporary file has one name,     *)
(* pruvon.yml.tmp, whoever saves; so the model keeps the names of the      *)
(* directory apart from the inodes they lead to and from the descriptors   *)
(* the savers hold.  When the directory denies the temporary file or the   *)
(* rename, the file is overwritten in place.                               *)
(*                                                                         *)
(* The handlers that change users save a copy of the configuration, which  *)
(* becomes the running one at the end of SaveConfig.  The handler of the   *)
(* backup settings changes the running configuration itself and then saves *)
(* that: requests see its settings before they are saved, and go on seeing *)
(* them when the save fails.                                               *)
(*                                                                         *)
(* Each system call can fail, the server can stop between any two of them  *)
(* and start again.  Losing the machine's power is not modelled.           *)
(***************************************************************************)
CONSTANTS
    Savers,      \* the requests that save, each one save at a time
    UserLists,   \* the users of a configuration that passes ValidateUsers
    Schedules,   \* its backup settings
    Inodes,      \* inodes the two names may lead to
    NoInode,     \* a name that does not exist
    Empty,       \* the content of a file just created or truncated
    Garbled,     \* a content no one wrote as a whole
    Denied       \* does the directory ever deny a call for permission?

Configs == [users : UserLists, backup : Schedules]

Content == Configs \cup {Empty, Garbled}

SaverPCs == {"idle", "marshal", "open", "write", "rename", "remove", "remove_denied",
             "truncate", "overwrite", "publish", "saved", "failed"}

ASSUME FileAssumption ==
    /\ NoInode \notin Inodes
    /\ Configs \cap {Empty, Garbled} = {}
    /\ Denied \in BOOLEAN

VARIABLES
    inode,       \* [Inodes -> Content]
    file,        \* the inode of pruvon.yml
    tmp,         \* the inode of pruvon.yml.tmp, or NoInode
    running,     \* currentConfig, or Empty when the file gives none
    pc,          \* [Savers -> SaverPCs]
    config,      \* [Savers -> Configs], the configuration being saved
    sharing,     \* the savers whose configuration is the running one itself
    fd           \* [Savers -> Inodes], the file a saver has open

fs == <<inode, file, tmp>>
vars == <<inode, file, tmp, running, pc, config, sharing, fd>>

Init ==
    /\ \E i \in Inodes, c \in Configs :
          /\ file = i
          /\ inode = [j \in Inodes |-> IF j = i THEN c ELSE Empty]
          /\ running = c
          /\ config = [s \in Savers |-> c]
          /\ fd = [s \in Savers |-> i]
    /\ tmp = NoInode
    /\ pc = [s \in Savers |-> "idle"]
    /\ sharing = {}

-----------------------------------------------------------------------------
GoTo(s, from, to) == pc[s] = from /\ pc' = [pc EXCEPT ![s] = to]

(***************************************************************************)
(* An inode that no name and no descriptor leads to can be taken again.    *)
(***************************************************************************)
Unused(i) ==
    /\ i # file
    /\ i # tmp
    /\ \A s \in Savers : pc[s] \in {"write", "overwrite"} => fd[s] # i

(***************************************************************************)
(* A write of a whole configuration from the start of the file.  Over      *)
(* another content it may leave the rest of that content behind it.        *)
(***************************************************************************)
Written(old, new) == IF old \in {Empty, new} THEN {new} ELSE {new, Garbled}

-----------------------------------------------------------------------------
(***************************************************************************)
(* SaveConfig up to WriteConfigFile, of a handler that saves a copy, in a  *)
(* server that has a configuration: without users no request gets this     *)
(* far.                                                                    *)
(***************************************************************************)
Mutant_PublishFirst(s) ==
    /\ GoTo(s, "idle", "open")
    /\ running \in Configs
    /\ \E c \in Configs : /\ config' = [config EXCEPT ![s] = c]
                          /\ running' = c
    /\ sharing' = sharing \ {s}
    /\ UNCHANGED <<fs, fd>>

Save(s) ==
    /\ GoTo(s, "idle", "open")
    /\ running \in Configs
    /\ \E c \in Configs : config' = [config EXCEPT ![s] = c]
    /\ sharing' = sharing \ {s}
    /\ UNCHANGED <<fs, running, fd>>

(***************************************************************************)
(* handleUpdateBackupSettings: the settings of the running configuration   *)
(* are replaced, then SaveConfig marshals it as it is by then.             *)
(***************************************************************************)
SetBackup(s) ==
    /\ GoTo(s, "idle", "marshal")
    /\ running \in Configs
    /\ \E b \in Schedules : running' = [running EXCEPT !.backup = b]
    /\ sharing' = sharing \cup {s}
    /\ UNCHANGED <<fs, config, fd>>

Marshal(s) ==
    /\ GoTo(s, "marshal", "open")
    /\ config' = [config EXCEPT ![s] = running]
    /\ UNCHANGED <<fs, running, sharing, fd>>

(***************************************************************************)
(* os.WriteFile(tempPath): open with O_CREATE and O_TRUNC, then write.     *)
(***************************************************************************)
OpenTemp(s) ==
    /\ GoTo(s, "open", "write")
    /\ \E i \in Inodes :
          /\ IF tmp # NoInode THEN i = tmp ELSE Unused(i)
          /\ tmp' = i
          /\ inode' = [inode EXCEPT ![i] = Empty]
          /\ fd' = [fd EXCEPT ![s] = i]
    /\ UNCHANGED <<file, running, config, sharing>>

OpenTempDenied(s) ==
    /\ Denied
    /\ GoTo(s, "open", "truncate")
    /\ UNCHANGED <<fs, running, config, sharing, fd>>

OpenTempFails(s) ==
    /\ GoTo(s, "open", "failed")
    /\ UNCHANGED <<fs, running, config, sharing, fd>>

WriteTemp(s) ==
    /\ GoTo(s, "write", "rename")
    /\ \E c \in Written(inode[fd[s]], config[s]) :
          inode' = [inode EXCEPT ![fd[s]] = c]
    /\ UNCHANGED <<file, tmp, running, config, sharing, fd>>

(***************************************************************************)
(* The write or the close after it fails; the temporary file stays behind. *)
(***************************************************************************)
Mutant_RenameAfterError(s) ==
    /\ GoTo(s, "write", "rename")
    /\ inode' = [inode EXCEPT ![fd[s]] = Garbled]
    /\ UNCHANGED <<file, tmp, running, config, sharing, fd>>

WriteTempFails(s) ==
    /\ GoTo(s, "write", "failed")
    /\ \E c \in {Empty, Garbled, config[s]} :
          inode' = [inode EXCEPT ![fd[s]] = c]
    /\ UNCHANGED <<file, tmp, running, config, sharing, fd>>

Rename(s) ==
    /\ tmp # NoInode
    /\ GoTo(s, "rename", "publish")
    /\ file' = tmp
    /\ tmp' = NoInode
    /\ UNCHANGED <<inode, running, config, sharing, fd>>

(***************************************************************************)
(* The rename fails, for one because another saver renamed the temporary   *)
(* file before, and the temporary file is removed.                         *)
(***************************************************************************)
RenameFails(s) ==
    /\ GoTo(s, "rename", "remove")
    /\ UNCHANGED <<fs, running, config, sharing, fd>>

RenameDenied(s) ==
    /\ Denied
    /\ tmp # NoInode
    /\ GoTo(s, "rename", "remove_denied")
    /\ UNCHANGED <<fs, running, config, sharing, fd>>

RemoveTemp(s) ==
    /\ GoTo(s, "remove", "failed") \/ GoTo(s, "remove_denied", "truncate")
    /\ tmp' \in {NoInode, tmp}
    /\ UNCHANGED <<inode, file, running, config, sharing, fd>>

(***************************************************************************)
(* overwriteConfigFile: open and truncate, then write.                     *)
(***************************************************************************)
Truncate(s) ==
    /\ GoTo(s, "truncate", "overwrite")
    /\ inode' = [inode EXCEPT ![file] = Empty]
    /\ fd' = [fd EXCEPT ![s] = file]
    /\ UNCHANGED <<file, tmp, running, config, sharing>>

TruncateFails(s) ==
    /\ GoTo(s, "truncate", "failed")
    /\ UNCHANGED <<fs, running, config, sharing, fd>>

Overwrite(s) ==
    /\ GoTo(s, "overwrite", "publish")
    /\ \E c \in Written(inode[fd[s]], config[s]) :
          inode' = [inode EXCEPT ![fd[s]] = c]
    /\ UNCHANGED <<file, tmp, running, config, sharing, fd>>

Mutant_OverwriteErrorIgnored(s) ==
    /\ GoTo(s, "overwrite", "publish")
    /\ inode' = [inode EXCEPT ![fd[s]] = Garbled]
    /\ UNCHANGED <<file, tmp, running, config, sharing, fd>>

(***************************************************************************)
(* The seek, the write or the sync after it fails.                         *)
(***************************************************************************)
OverwriteFails(s) ==
    /\ GoTo(s, "overwrite", "failed")
    /\ \E c \in {Empty, Garbled, config[s]} :
          inode' = [inode EXCEPT ![fd[s]] = c]
    /\ UNCHANGED <<file, tmp, running, config, sharing, fd>>

(***************************************************************************)
(* The end of SaveConfig: a copy becomes the running configuration.        *)
(***************************************************************************)
Publish(s) ==
    /\ GoTo(s, "publish", "saved")
    /\ running' = IF s \in sharing THEN running ELSE config[s]
    /\ UNCHANGED <<fs, config, sharing, fd>>

Return(s) ==
    /\ GoTo(s, "saved", "idle") \/ GoTo(s, "failed", "idle")
    /\ UNCHANGED <<fs, running, config, sharing, fd>>

(***************************************************************************)
(* The server stops, wherever the savers are, and LoadConfig reads the     *)
(* file at the next start.                                                 *)
(***************************************************************************)
Restart ==
    /\ running' = IF inode[file] \in Configs THEN inode[file] ELSE Empty
    /\ pc' = [s \in Savers |-> "idle"]
    /\ UNCHANGED <<fs, config, sharing, fd>>

SaverStep(s) ==
    \/ Save(s) \/ SetBackup(s) \/ Marshal(s)
    \/ OpenTemp(s) \/ OpenTempDenied(s) \/ OpenTempFails(s)
    \/ WriteTemp(s) \/ WriteTempFails(s)
    \/ Rename(s) \/ RenameFails(s) \/ RenameDenied(s) \/ RemoveTemp(s)
    \/ Truncate(s) \/ TruncateFails(s) \/ Overwrite(s) \/ OverwriteFails(s)
    \/ Publish(s) \/ Return(s)

Next == (\E s \in Savers : SaverStep(s)) \/ Restart

Spec == Init /\ [][Next]_vars

-----------------------------------------------------------------------------
TypeOK ==
    /\ inode \in [Inodes -> Content]
    /\ file \in Inodes
    /\ tmp \in Inodes \cup {NoInode}
    /\ running \in Configs \cup {Empty}
    /\ pc \in [Savers -> SaverPCs]
    /\ config \in [Savers -> Configs]
    /\ sharing \subseteq Savers
    /\ fd \in [Savers -> Inodes]

(***************************************************************************)
(* Whenever the server stops, its next start finds a whole configuration   *)
(* in the file: one that was being saved or the one before it.             *)
(***************************************************************************)
FileIsWhole == inode[file] \in Configs

(***************************************************************************)
(* A save that is answered with success is in the file and in the memory,  *)
(* by whichever of the two ways it was written.                            *)
(***************************************************************************)
SavedMeansSaved ==
    \A s \in Savers : pc[s] = "saved" => inode[file] = config[s] /\ running = config[s]

(***************************************************************************)
(* The inductive invariant of a server that saves one configuration at a   *)
(* time, in a directory it may write to.  A temporary file is not the      *)
(* configuration file, it is whole when it is renamed, and the users in    *)
(* memory are those in the file except between the rename and the          *)
(* publication.                                                            *)
(***************************************************************************)
TempIsApart == tmp # file

InPlacePCs == {"remove_denied", "truncate", "overwrite"}

SaverInv(s) ==
    /\ pc[s] \notin InPlacePCs
    /\ pc[s] \in {"write", "rename"} => tmp = fd[s]
    /\ pc[s] = "write" => inode[fd[s]] = Empty
    /\ pc[s] = "rename" => inode[fd[s]] = config[s]
    /\ s \in sharing /\ pc[s] \notin {"idle", "marshal"} => config[s].users = running.users
    /\ pc[s] = "publish" => inode[file] = config[s]
    /\ pc[s] # "publish" => inode[file].users = running.users

IInv == /\ TypeOK
        /\ FileIsWhole
        /\ running \in Configs
        /\ TempIsApart
        /\ \A s \in Savers : SaverInv(s)

(***************************************************************************)
(* Such a server saves its users atomically: the users that requests see   *)
(* are those in the file or, for as long as a save is being answered,      *)
(* those before it, and a save that fails changes neither                  *)
(* (handleUpdateUser and the other handlers that save a copy).  The backup *)
(* settings are not part of this: a failed save leaves them changed in the *)
(* memory (handleUpdateBackupSettings).                                    *)
(***************************************************************************)
Atomic == INSTANCE AtomicConfig WITH
              Configs <- UserLists, saved <- inode[file].users, running <- running.users

ImplementsAtomicConfig == Atomic!Spec
=============================================================================
