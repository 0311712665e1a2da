----------------------------- MODULE MCHostJobs -----------------------------
(***************************************************************************)
(* What changes the host beside the pages, for TLC: the backups cron takes *)
(* (Backups), and the syncs of SSH keys from GitHub (MCGitHubKeySync).  A  *)
(* behaviour is that of one of the two, and the other stands still.        *)
(***************************************************************************)
EXTENDS MCBackups, MCGitHubKeySync

VARIABLE job    \* "backups" or "keys"

HostInit ==
    /\ BackupInit /\ MCInit
    /\ job \in {"backups", "keys"}
    /\ job = "backups" => ~overlap

LastRunIsOver ==
    /\ today.day = LastDay /\ runs = RunsPerDay /\ phase = "idle"
    /\ UNCHANGED backupVars

HostNext ==
    /\ UNCHANGED job
    /\ \/ /\ job = "backups"
          /\ BackupNext \/ LastRunIsOver
          /\ UNCHANGED <<vars, overlap>>
       \/ /\ job = "keys"
          /\ MCNext
          /\ UNCHANGED backupVars

HostSpec == HostInit /\ [][HostNext]_<<backupVars, vars, overlap, job>>
=============================================================================
