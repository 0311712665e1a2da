--------------------------- MODULE ConfigFileProofs -------------------------
(***************************************************************************)
(* A server that saves one configuration at a time, in a directory it may  *)
(* write to, saves atomically: the file is whole at every step, and the    *)
(* users in file and memory together implement AtomicConfig, whatever      *)
(* becomes of the backup settings.  The theorems have the two conditions   *)
(* as assumptions; the runs show what is lost without them.                *)
(* That a save which is answered with success is in file and memory needs  *)
(* the first only.                                                         *)
(***************************************************************************)
EXTENDS ConfigFile, TLAPS

OneAtATime == \A s, t \in Savers : s = t

LEMMA InitIInv == ASSUME OneAtATime PROVE Init => IInv
<1>. SUFFICES ASSUME Init PROVE IInv
  OBVIOUS
<1>. PICK i \in Inodes, c \in Configs :
       /\ file = i
       /\ inode = [j \in Inodes |-> IF j = i THEN c ELSE Empty]
       /\ running = c
       /\ config = [s \in Savers |-> c]
       /\ fd = [s \in Savers |-> i]
  BY DEF Init
<1>1. TypeOK
  BY DEF Init, TypeOK, Content, SaverPCs
<1>2. FileIsWhole /\ running \in Configs /\ TempIsApart
  BY FileAssumption DEF Init, FileIsWhole, TempIsApart
<1>3. ASSUME NEW s \in Savers PROVE SaverInv(s)
  BY DEF Init, SaverInv, InPlacePCs
<1>. QED
  BY <1>1, <1>2, <1>3 DEF IInv

(***************************************************************************)
(* The steps of the one saver.                                             *)
(***************************************************************************)
LEMMA StepTyped ==
    ASSUME TypeOK, NEW s \in Savers, SaverStep(s),
           pc[s] = "marshal" => running \in Configs
    PROVE  TypeOK'
<1>. USE DEF TypeOK, GoTo, SaverPCs, fs
<1>1. CASE Save(s) \/ Marshal(s)
  BY <1>1 DEF Save, Marshal
<1>9. CASE SetBackup(s)
  BY <1>9 DEF SetBackup, Configs
<1>2. CASE OpenTemp(s)
  BY <1>2 DEF OpenTemp, Content
<1>3. CASE OpenTempDenied(s) \/ OpenTempFails(s) \/ RenameFails(s) \/ RenameDenied(s)
  BY <1>3 DEF OpenTempDenied, OpenTempFails, RenameFails, RenameDenied
<1>4. CASE WriteTemp(s) \/ Overwrite(s)
  <2>1. \A old : Written(old, config[s]) \subseteq Content
    BY DEF Written, Content
  <2>. QED
    BY <1>4, <2>1 DEF WriteTemp, Overwrite
<1>5. CASE WriteTempFails(s) \/ OverwriteFails(s)
  BY <1>5 DEF WriteTempFails, OverwriteFails, Content
<1>6. CASE Rename(s) \/ RemoveTemp(s)
  BY <1>6 DEF Rename, RemoveTemp
<1>7. CASE Truncate(s) \/ TruncateFails(s)
  BY <1>7 DEF Truncate, TruncateFails, Content
<1>8. CASE Publish(s) \/ Return(s)
  BY <1>8 DEF Publish, Return
<1>. QED
  BY <1>1, <1>2, <1>3, <1>4, <1>5, <1>6, <1>7, <1>8, <1>9 DEF SaverStep

(***************************************************************************)
(* What each step of the one saver does to the users in file and memory:   *)
(* it renames, it publishes, or it leaves both alone.                      *)
(***************************************************************************)
Renamed(s) ==
    /\ inode'[file'].users = config[s].users
    /\ inode[file].users = running.users
    /\ running'.users = running.users

Published(s) ==
    /\ running'.users = inode[file].users
    /\ inode'[file'].users = inode[file].users

Kept ==
    /\ inode'[file'].users = inode[file].users
    /\ running'.users = running.users

LEMMA StepInv ==
    ASSUME OneAtATime, ~Denied, IInv, NEW s \in Savers, SaverStep(s)
    PROVE  /\ IInv'
           /\ \/ Renamed(s)
              \/ Published(s)
              \/ Kept
<1>. SUFFICES /\ FileIsWhole' /\ running' \in Configs /\ TempIsApart' /\ SaverInv(s)'
              /\ Renamed(s) \/ Published(s) \/ Kept
  BY StepTyped DEF IInv, OneAtATime
<1>. TypeOK /\ TypeOK'
  BY StepTyped DEF IInv
<1>1. /\ SaverInv(s) /\ inode[file] \in Configs /\ running \in Configs /\ tmp # file
      /\ Empty \notin Configs /\ Garbled \notin Configs
      /\ file \in Inodes /\ fd[s] \in Inodes /\ NoInode \notin Inodes
      /\ pc[s] \in SaverPCs /\ config[s] \in Configs
  BY FileAssumption DEF IInv, TypeOK, FileIsWhole, TempIsApart
<1>. USE <1>1 DEF FileIsWhole, TempIsApart, SaverInv, InPlacePCs, GoTo, TypeOK, fs, Kept
<1>2. CASE Save(s)
  BY <1>2 DEF Save
<1>11. CASE SetBackup(s)
  <2>1. running'.users = running.users /\ running' \in Configs
    BY <1>11 DEF SetBackup, Configs
  <2>. QED
    BY <1>11, <2>1 DEF SetBackup
<1>12. CASE Marshal(s)
  BY <1>12 DEF Marshal
<1>3. CASE OpenTemp(s)
  BY <1>3 DEF OpenTemp, Unused
<1>4. CASE OpenTempFails(s) \/ RenameFails(s)
  BY <1>4 DEF OpenTempFails, RenameFails
<1>5. CASE WriteTemp(s)
  BY <1>5 DEF WriteTemp, Written
<1>6. CASE WriteTempFails(s)
  BY <1>6 DEF WriteTempFails
<1>7. CASE Rename(s)
  BY <1>7 DEF Rename, Renamed
<1>8. CASE RemoveTemp(s)
  BY <1>8 DEF RemoveTemp
<1>9. CASE Publish(s)
  BY <1>9 DEF Publish, Published
<1>10. CASE Return(s)
  BY <1>10 DEF Return
<1>. QED
  BY <1>2, <1>3, <1>4, <1>5, <1>6, <1>7, <1>8, <1>9, <1>10, <1>11, <1>12
     DEF SaverStep, OpenTempDenied, RenameDenied, Truncate, TruncateFails,
         Overwrite, OverwriteFails

LEMMA RestartInv ==
    ASSUME IInv, Restart
    PROVE  IInv' /\ running' = inode[file] /\ inode'[file'] = inode[file]
<1>1. TypeOK'
  BY DEF Restart, IInv, TypeOK, SaverPCs, fs
<1>2. running' = inode[file] /\ inode' = inode /\ file' = file /\ tmp' = tmp
  BY DEF Restart, IInv, FileIsWhole, fs
<1>3. \A s \in Savers : pc'[s] = "idle"
  BY DEF Restart
<1>4. \A s \in Savers : SaverInv(s)'
  BY <1>2, <1>3 DEF SaverInv, InPlacePCs
<1>. QED
  BY <1>1, <1>2, <1>4 DEF IInv, FileIsWhole, TempIsApart

LEMMA NextInv ==
    ASSUME OneAtATime, ~Denied
    PROVE  IInv /\ [Next]_vars => IInv'
<1>. SUFFICES ASSUME IInv, [Next]_vars PROVE IInv'
  OBVIOUS
<1>1. ASSUME NEW s \in Savers, SaverStep(s) PROVE IInv'
  BY <1>1, StepInv
<1>2. CASE Restart
  BY <1>2, RestartInv
<1>3. CASE UNCHANGED vars
  BY <1>3 DEF vars, IInv, TypeOK, FileIsWhole, TempIsApart, SaverInv
<1>. QED
  BY <1>1, <1>2, <1>3 DEF Next

LEMMA Inductive ==
    ASSUME OneAtATime, ~Denied
    PROVE  Spec => []IInv
BY InitIInv, NextInv, PTL DEF Spec

(***************************************************************************)
(* The next start always finds a whole configuration in the file.          *)
(***************************************************************************)
THEOREM AlwaysWhole ==
    ASSUME OneAtATime, ~Denied
    PROVE  Spec => []FileIsWhole
<1>1. IInv => FileIsWhole
  BY DEF IInv
<1>. QED
  BY <1>1, Inductive, PTL

(***************************************************************************)
(* The users in file and memory implement the abstract, atomic             *)
(* configuration.                                                          *)
(***************************************************************************)
LEMMA StepSimulates ==
    ASSUME OneAtATime, ~Denied
    PROVE  IInv /\ [Next]_vars => [Atomic!Next]_(Atomic!vars)
<1>. SUFFICES ASSUME IInv, [Next]_vars PROVE [Atomic!Next]_(Atomic!vars)
  OBVIOUS
<1>. USE DEF Atomic!Next, Atomic!vars, Atomic!Save, Atomic!Follow, Atomic!InStep
<1>1. ASSUME NEW s \in Savers, SaverStep(s)
      PROVE  [Atomic!Next]_(Atomic!vars)
  <2>1. config[s].users \in UserLists
    BY DEF IInv, TypeOK, Configs
  <2>. QED
    BY <1>1, <2>1, StepInv DEF Renamed, Published, Kept
<1>2. CASE Restart
  BY <1>2, RestartInv
<1>3. CASE UNCHANGED vars
  BY <1>3 DEF vars
<1>. QED
  BY <1>1, <1>2, <1>3 DEF Next

THEOREM SavesAtomically ==
    ASSUME OneAtATime, ~Denied
    PROVE  Spec => ImplementsAtomicConfig
<1>1. Init => Atomic!Init
  <2>. SUFFICES ASSUME Init PROVE Atomic!Init
    OBVIOUS
  <2>1. inode[file] \in Configs /\ running = inode[file]
    BY DEF Init
  <2>. QED
    BY <2>1 DEF Atomic!Init, Configs
<1>. QED
  BY <1>1, Inductive, StepSimulates, PTL
     DEF Spec, ImplementsAtomicConfig, Atomic!Spec

-----------------------------------------------------------------------------
(***************************************************************************)
(* A save that is answered with success, by the rename or in place.  What  *)
(* was in the file before does not matter: a save that failed in place may *)
(* have left anything there.                                               *)
(***************************************************************************)
SavedInv(s) ==
    /\ pc[s] \in {"write", "rename"} => tmp = fd[s]
    /\ pc[s] = "write" => inode[fd[s]] = Empty
    /\ pc[s] = "rename" => inode[fd[s]] = config[s]
    /\ pc[s] = "overwrite" => fd[s] = file /\ inode[file] = Empty
    /\ pc[s] \in {"publish", "saved"} => inode[file] = config[s]
    /\ s \in sharing /\ pc[s] \notin {"idle", "marshal"} => running = config[s]
    /\ pc[s] = "marshal" => running \in Configs
    /\ pc[s] = "saved" => running = config[s]

LastInv == TypeOK /\ TempIsApart /\ \A s \in Savers : SavedInv(s)

LEMMA StepLastInv ==
    ASSUME OneAtATime, LastInv, NEW s \in Savers, SaverStep(s)
    PROVE  LastInv'
<1>. SUFFICES TempIsApart' /\ SavedInv(s)'
  BY StepTyped DEF LastInv, SavedInv, OneAtATime
<1>. TypeOK /\ TypeOK'
  BY StepTyped DEF LastInv, SavedInv
<1>1. /\ SavedInv(s) /\ tmp # file
      /\ Empty \notin Configs /\ Garbled \notin Configs
      /\ file \in Inodes /\ fd[s] \in Inodes /\ NoInode \notin Inodes
      /\ pc[s] \in SaverPCs /\ config[s] \in Configs
  BY FileAssumption DEF LastInv, TypeOK, TempIsApart
<1>. USE <1>1 DEF TempIsApart, SavedInv, GoTo, TypeOK, fs
<1>2. CASE Save(s) \/ Marshal(s) \/ Return(s)
  BY <1>2 DEF Save, Marshal, Return
<1>10. CASE SetBackup(s)
  BY <1>10 DEF SetBackup, Configs
<1>3. CASE OpenTemp(s)
  BY <1>3 DEF OpenTemp, Unused
<1>4. CASE \/ OpenTempDenied(s) \/ OpenTempFails(s) \/ RenameFails(s) \/ RenameDenied(s)
           \/ RemoveTemp(s) \/ TruncateFails(s)
  BY <1>4 DEF OpenTempDenied, OpenTempFails, RenameFails, RenameDenied, RemoveTemp,
              TruncateFails
<1>5. CASE WriteTemp(s) \/ WriteTempFails(s)
  BY <1>5 DEF WriteTemp, WriteTempFails, Written
<1>6. CASE Rename(s)
  BY <1>6 DEF Rename
<1>7. CASE Truncate(s)
  BY <1>7 DEF Truncate
<1>8. CASE Overwrite(s) \/ OverwriteFails(s)
  BY <1>8 DEF Overwrite, OverwriteFails, Written
<1>9. CASE Publish(s)
  BY <1>9 DEF Publish
<1>. QED
  BY <1>2, <1>3, <1>4, <1>5, <1>6, <1>7, <1>8, <1>9, <1>10 DEF SaverStep

LEMMA NextLastInv ==
    ASSUME OneAtATime
    PROVE  LastInv /\ [Next]_vars => LastInv'
<1>. SUFFICES ASSUME LastInv, [Next]_vars PROVE LastInv'
  OBVIOUS
<1>1. ASSUME NEW s \in Savers, SaverStep(s) PROVE LastInv'
  BY <1>1, StepLastInv
<1>2. CASE Restart
  BY <1>2 DEF Restart, LastInv, TypeOK, TempIsApart, SavedInv, SaverPCs, fs, Content
<1>3. CASE UNCHANGED vars
  BY <1>3 DEF vars, LastInv, TypeOK, TempIsApart, SavedInv
<1>. QED
  BY <1>1, <1>2, <1>3 DEF Next

(***************************************************************************)
(* With one save at a time, a save that is answered with success is in the *)
(* file and in the memory, whatever the directory denies, whatever failed  *)
(* before and however often the server stops (SaveConfig).                 *)
(***************************************************************************)
THEOREM SavesLast ==
    ASSUME OneAtATime
    PROVE  Spec => []SavedMeansSaved
<1>1. Init => LastInv
  <2>. SUFFICES ASSUME Init PROVE LastInv
    OBVIOUS
  <2>. PICK i \in Inodes, c \in Configs :
         /\ file = i
         /\ inode = [j \in Inodes |-> IF j = i THEN c ELSE Empty]
         /\ running = c
         /\ config = [s \in Savers |-> c]
         /\ fd = [s \in Savers |-> i]
    BY DEF Init
  <2>1. TypeOK
    BY DEF Init, TypeOK, Content, SaverPCs
  <2>. QED
    BY <2>1, FileAssumption DEF Init, LastInv, TempIsApart, SavedInv
<1>2. LastInv => SavedMeansSaved
  BY DEF LastInv, SavedInv, SavedMeansSaved
<1>. QED
  BY <1>1, <1>2, NextLastInv, PTL DEF Spec
=============================================================================
