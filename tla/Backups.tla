------------------------------ MODULE Backups -------------------------------
(***************************************************************************)
(* pruvon -backup, which cron runs every day: it chooses a rotation        *)
(* (daily, weekly or monthly), and for the databases of each type it       *)
(* removes what the rotation replaces, exports, and compresses; then it    *)
(* removes daily and monthly backups that are too old.  Commands and file  *)
(* operations fail, the program can be killed, and midnight can pass while *)
(* it runs; MaxTroubles bounds how often.                                  *)
(*                                                                         *)
(* The time of day is not kept.  A run is never exactly at midnight, and   *)
(* the host's clock is UTC, the zone the dates in file names are read in.  *)
(***************************************************************************)
EXTENDS Calendar, Sequences, FiniteSets

CONSTANTS
    Types,             \* db_types, a sequence
    Databases,         \* [type -> the databases <type>:list prints, a sequence]
    DoWeekly,          \* do_weekly, do_monthly, keep_... of the settings
    DoMonthly,
    KeepDailyDays,
    KeepWeeklyNum,
    KeepMonthlyNum,
    Commands,          \* the backup types it is run with
    FirstDay,          \* the day before the first run
    LastDay,           \* the number of the last day
    RunsPerDay,        \* the runs of one day
    MaxTroubles        \* what goes wrong, at most

(***************************************************************************)
(* InitBackupConfig and validateBackupConfig.                              *)
(***************************************************************************)
ASSUME SettingsAssumption ==
    /\ DoWeekly \in 0 .. 7
    /\ DoMonthly \in 1 .. 31
    /\ KeepDailyDays \in Nat \ {0}
    /\ KeepWeeklyNum \in Nat \ {0}
    /\ KeepMonthlyNum \in Nat \ {0}

Rotations == {"daily", "weekly", "monthly"}

ASSUME RunAssumption ==
    /\ Commands \subseteq Rotations \cup {"auto"}
    /\ FirstDay \in Day
    /\ LastDay \in Nat
    /\ RunsPerDay \in Nat
    /\ MaxTroubles \in Nat

TypeNames == {Types[i] : i \in DOMAIN Types}

DatabaseNames == UNION {{Databases[t][i] : i \in DOMAIN Databases[t]} : t \in TypeNames}

ASSUME DatabasesAssumption ==
    /\ Types \in Seq(TypeNames)
    /\ \A t \in TypeNames : Databases[t] \in Seq(DatabaseNames)

(***************************************************************************)
(* A backup file.  stamp and run stand for the date and time in its name;  *)
(* a file is partial when it could not be written as a whole.              *)
(***************************************************************************)
File == [type : TypeNames, db : DatabaseNames, rotation : Rotations,
         stamp : Day, run : 1 .. RunsPerDay, form : {"partial", "plain", "gz"}]

Phases == {"idle", "types", "databases", "export", "compress", "daily", "monthly"}

VARIABLES
    today,       \* the day it is
    runs,        \* how many runs this day has had
    files,       \* what is under backup_dir
    phase,
    rotation,    \* backupType, once chosen
    stamp,       \* timeData, taken when the run starts
    run,         \* the run's number, part of the time in names
    types,       \* the types still to do, the current one first
    queue,       \* its databases still to do, the current one first
    warned,      \* the types the run has printed a notice or a warning about
    troubles

setting == <<rotation, stamp, run>>
backupVars == <<today, runs, files, phase, setting, types, queue, warned, troubles>>

Trouble == troubles < MaxTroubles /\ troubles' = troubles + 1
NoTrouble == troubles' = troubles

BackupInit ==
    /\ today = FirstDay
    /\ runs = 0
    /\ files = {}
    /\ phase = "idle"
    /\ rotation = "daily"
    /\ stamp = FirstDay
    /\ run = 1
    /\ types = <<>>
    /\ queue = <<>>
    /\ warned = {}
    /\ troubles = 0

-----------------------------------------------------------------------------
IsSunday(n) == n \in {0, 7}

Rotation(command) ==
    IF command # "auto" THEN command
    ELSE IF today.dom = DoMonthly THEN "monthly"
    ELSE IF today.weekday = DoWeekly \/ (IsSunday(DoWeekly) /\ today.weekday = 7)
    THEN "weekly"
    ELSE "daily"

(***************************************************************************)
(* Backup: the prerequisites, the directories, the rotation.               *)
(***************************************************************************)
Start(command) ==
    /\ phase = "idle" /\ runs < RunsPerDay
    /\ phase' = "types"
    /\ runs' = runs + 1
    /\ rotation' = Rotation(command)
    /\ stamp' = today
    /\ run' = runs + 1
    /\ types' = Types
    /\ queue' = <<>>
    /\ warned' = {}
    /\ NoTrouble /\ UNCHANGED <<today, files>>

StartFails ==
    /\ phase = "idle" /\ runs < RunsPerDay
    /\ runs' = runs + 1
    /\ Trouble
    /\ UNCHANGED <<today, files, phase, setting, types, queue, warned>>

(***************************************************************************)
(* One type after the other.  A type whose plugin is not found, or whose   *)
(* databases cannot be listed, is left out.                                *)
(***************************************************************************)
ListDatabases ==
    /\ phase = "types" /\ types # <<>>
    /\ queue' = Databases[Head(types)]
    /\ phase' = "databases"
    /\ NoTrouble /\ UNCHANGED <<today, runs, files, setting, types, warned>>

Mutant_GiveUp ==
    /\ warned' = warned \cup {Head(types)}
    /\ types' = <<>>
    /\ queue' = <<>>
    /\ phase' = "types"

SkipType ==
    /\ warned' = warned \cup {Head(types)}
    /\ types' = Tail(types)
    /\ queue' = <<>>
    /\ phase' = "types"

ListFails ==
    /\ phase = "types" /\ types # <<>>
    /\ SkipType
    /\ Trouble /\ UNCHANGED <<today, runs, files, setting>>

TypeDone ==
    /\ phase = "databases" /\ queue = <<>>
    /\ types' = Tail(types)
    /\ phase' = "types"
    /\ NoTrouble /\ UNCHANGED <<today, runs, files, setting, queue, warned>>

-----------------------------------------------------------------------------
(***************************************************************************)
(* performBackup of the first database in the queue.                       *)
(***************************************************************************)
IsCurrent(f) == f.type = Head(types) /\ f.db = Head(queue) /\ f.rotation = rotation

(***************************************************************************)
(* calculateRemWeek, the week a weekly backup replaces, and whether it is  *)
(* printed with a leading zero, which the names of files do not have.      *)
(***************************************************************************)
Mutant_NoWrap(week) == IF week <= KeepWeeklyNum THEN 53 - week ELSE week - KeepWeeklyNum

RemWeek(week) == IF week <= KeepWeeklyNum THEN 53 - KeepWeeklyNum + week
                                          ELSE week - KeepWeeklyNum

HasZero(week) == KeepWeeklyNum < week /\ week < 10 + KeepWeeklyNum

(***************************************************************************)
(* The names of daily backups that are removed end in the extension of an  *)
(* export: a compressed backup has another one.                            *)
(***************************************************************************)
Replaced ==
    CASE rotation = "daily" ->
            {f \in files : /\ IsCurrent(f)
                           /\ f.stamp.weekday = stamp.weekday
                           /\ f.form # "gz"}
      [] rotation = "weekly" ->
            {f \in files : /\ IsCurrent(f)
                           /\ f.stamp.week = RemWeek(stamp.week)
                           /\ ~HasZero(stamp.week)}
      [] OTHER -> {}

NewFile(form) == [type |-> Head(types), db |-> Head(queue), rotation |-> rotation,
                  stamp |-> stamp, run |-> run, form |-> form]

Rotate ==
    /\ phase = "databases" /\ queue # <<>>
    /\ files' = files \ Replaced
    /\ phase' = "export"
    /\ NoTrouble /\ UNCHANGED <<today, runs, setting, types, queue, warned>>

(***************************************************************************)
(* The files could not be removed, which does not matter to the run.       *)
(***************************************************************************)
RotateFails ==
    /\ phase = "databases" /\ queue # <<>>
    /\ phase' = "export"
    /\ Trouble /\ UNCHANGED <<today, runs, files, setting, types, queue, warned>>

MkdirFails ==
    /\ phase = "databases" /\ queue # <<>>
    /\ SkipType
    /\ Trouble /\ UNCHANGED <<today, runs, files, setting>>

Export ==
    /\ phase = "export"
    /\ files' = files \cup {NewFile("plain")}
    /\ phase' = "compress"
    /\ NoTrouble /\ UNCHANGED <<today, runs, setting, types, queue, warned>>

(***************************************************************************)
(* The command failed, or the file could not be written.                   *)
(***************************************************************************)
ExportFails ==
    /\ phase = "export"
    /\ files' \in {files, files \cup {NewFile("partial")}}
    /\ SkipType
    /\ Trouble /\ UNCHANGED <<today, runs, setting>>

Compress ==
    /\ phase = "compress"
    /\ files' = (files \ {NewFile("plain")}) \cup {NewFile("gz")}
    /\ queue' = Tail(queue)
    /\ phase' = "databases"
    /\ NoTrouble /\ UNCHANGED <<today, runs, setting, types, warned>>

CompressFails ==
    /\ phase = "compress"
    /\ SkipType
    /\ Trouble /\ UNCHANGED <<today, runs, files, setting>>

-----------------------------------------------------------------------------
(***************************************************************************)
(* CleanupOldBackups, when the mode of the directory could be set.         *)
(***************************************************************************)
StartCleanup ==
    /\ phase = "types" /\ types = <<>>
    /\ phase' = "daily"
    /\ NoTrouble /\ UNCHANGED <<today, runs, files, setting, types, queue, warned>>

Mutant_IsOldInclusive(f) == today.day - f.stamp.day >= KeepDailyDays - 1

Mutant_IsYoung(f) == today.day - f.stamp.day <= KeepDailyDays

IsOld(f) == today.day - f.stamp.day >= KeepDailyDays

CleanupDaily ==
    /\ phase = "daily"
    /\ files' = {f \in files : f.rotation = "daily" => ~IsOld(f)}
    /\ phase' = "monthly"
    /\ NoTrouble /\ UNCHANGED <<today, runs, setting, types, queue, warned>>

(***************************************************************************)
(* A directory cannot be read, or its files cannot be removed: the cleanup *)
(* goes on with the next one.                                              *)
(***************************************************************************)
CleanupDailyFails ==
    /\ phase = "daily"
    /\ phase' = "monthly"
    /\ Trouble /\ UNCHANGED <<today, runs, files, setting, types, queue, warned>>

Monthly == {f \in files : f.rotation = "monthly"}

SameMonth(f, g) == f.type = g.type /\ f.db = g.db /\ f.stamp.month = g.stamp.month

IsToday(f) == f.stamp.day = today.day

Mutant_CutoffOfToday == [month |-> today.month, dom |-> 1]

Cutoff == AddMonths(today, -KeepMonthlyNum)

IsRecent(f) == IsAfter(f.stamp, Cutoff)

(***************************************************************************)
(* Today's backups, and of each month the newest one if it is recent.      *)
(***************************************************************************)
Candidates ==
    {f \in Monthly :
        \/ IsToday(f)
        \/ IsRecent(f) /\ \A g \in Monthly : SameMonth(f, g) => g.stamp.day <= f.stamp.day}

(***************************************************************************)
(* Of several backups of one day, which is not today, any one is kept.     *)
(***************************************************************************)
CleanupMonthly ==
    /\ phase = "monthly"
    /\ \E kept \in SUBSET Candidates :
          /\ \A f \in Candidates :
                IF IsToday(f) THEN f \in kept
                              ELSE Cardinality({g \in kept : SameMonth(f, g)}) = 1
          /\ files' = (files \ Monthly) \cup kept
    /\ phase' = "idle"
    /\ NoTrouble /\ UNCHANGED <<today, runs, setting, types, queue, warned>>

(***************************************************************************)
(* The program ends before it is done: the mode cannot be set, a directory *)
(* cannot be read, or it is killed.                                        *)
(***************************************************************************)
Stop ==
    /\ phase # "idle"
    /\ phase' = "idle"
    /\ \/ files' = files
       \/ phase = "export" /\ files' = files \cup {NewFile("partial")}
    /\ Trouble /\ UNCHANGED <<today, runs, setting, types, queue, warned>>

(***************************************************************************)
(* Midnight, after the day's run; without one, or during one, it is a      *)
(* trouble.                                                                *)
(***************************************************************************)
Midnight ==
    /\ today.day < LastDay
    /\ today' = NextDay(today)
    /\ runs' = 0
    /\ IF phase = "idle" /\ runs > 0 THEN NoTrouble ELSE Trouble
    /\ UNCHANGED <<files, phase, setting, types, queue, warned>>

BackupNext ==
    \/ \E command \in Commands : Start(command)
    \/ StartFails
    \/ ListDatabases \/ ListFails \/ TypeDone
    \/ Rotate \/ RotateFails \/ MkdirFails
    \/ Export \/ ExportFails \/ Compress \/ CompressFails
    \/ StartCleanup \/ CleanupDaily \/ CleanupDailyFails \/ CleanupMonthly
    \/ Stop
    \/ Midnight

BackupSpec == BackupInit /\ [][BackupNext]_backupVars

-----------------------------------------------------------------------------
BackupTypeOK ==
    /\ today \in Day
    /\ runs \in 0 .. RunsPerDay
    /\ files \in SUBSET File
    /\ phase \in Phases
    /\ rotation \in Rotations
    /\ stamp \in Day
    /\ run \in 1 .. RunsPerDay
    /\ types \in Seq(TypeNames)
    /\ queue \in Seq(DatabaseNames)
    /\ warned \in SUBSET TypeNames
    /\ troubles \in 0 .. MaxTroubles

(***************************************************************************)
(* When a run gets to the cleanup, every database has a compressed backup  *)
(* of this run, except those of the types the run has complained about: a  *)
(* failure neither stops the other types nor goes unnoticed.               *)
(***************************************************************************)
HasBackup(t, db) ==
    \E f \in files : /\ f.type = t /\ f.db = db /\ f.form = "gz"
                     /\ f.stamp = stamp /\ f.run = run

FailuresAreLocal ==
    phase = "daily" =>
        \A t \in TypeNames \ warned :
            \A i \in DOMAIN Databases[t] : HasBackup(t, Databases[t][i])

(***************************************************************************)
(* "Daily backups are rotated by day and retained for keep_daily_days":    *)
(* whatever the rotation and the cleanup remove, a compressed daily backup *)
(* stays for that long.                                                    *)
(***************************************************************************)
DailiesStay ==
    [][\A f \in files \ files' :
          f.rotation = "daily" /\ f.form = "gz"
             => today.day - f.stamp.day >= KeepDailyDays]_backupVars

(***************************************************************************)
(* A weekly backup is replaced by a run of the same year only after as     *)
(* many weeks as are kept, and by one of the next year only after as many  *)
(* less one, however many weeks the year that ends has.                    *)
(***************************************************************************)
KeptWeeks(f) == IF f.stamp.week < stamp.week THEN KeepWeeklyNum ELSE KeepWeeklyNum - 1

WeekliesLive ==
    [][\A f \in files \ files' :
          f.rotation = "weekly" /\ f.form = "gz"
             => stamp.day - f.stamp.day >= 7 * KeptWeeks(f)]_backupVars

(***************************************************************************)
(* "Weekly backups keep the latest keep_weekly_num rotations": none is     *)
(* removed before that many weeks have passed.  calculateRemWeek takes     *)
(* every year to have 53 weeks.                                            *)
(***************************************************************************)
WeekliesStay ==
    [][\A f \in files \ files' :
          f.rotation = "weekly" /\ f.form = "gz"
             => stamp.day - f.stamp.day >= 7 * KeepWeeklyNum]_backupVars

(***************************************************************************)
(* "Monthly backups keep the latest keep_monthly_num rotations": a month   *)
(* that has a backup keeps one, as long as fewer than that many months     *)
(* have passed.                                                            *)
(***************************************************************************)
HasMonthly(t, db, month) ==
    \E f \in files : /\ f.type = t /\ f.db = db /\ f.rotation = "monthly"
                     /\ f.stamp.month = month

MonthsStay ==
    [][\A t \in TypeNames, db \in DatabaseNames,
          month \in today.month - KeepMonthlyNum + 1 .. today.month :
             HasMonthly(t, db, month) => HasMonthly(t, db, month)']_backupVars

(***************************************************************************)
(* A database that has been backed up never is without any compressed      *)
(* backup again, when there is one run a day, weekly and monthly backups   *)
(* are kept for longer than daily ones, and fewer things go wrong than     *)
(* daily backups are kept.                                                 *)
(***************************************************************************)
IsBackedUp(t, db) == \E f \in files : f.type = t /\ f.db = db /\ f.form = "gz"

BackupRemains ==
    [][\A t \in TypeNames, db \in DatabaseNames :
          IsBackedUp(t, db) => IsBackedUp(t, db)']_backupVars
=============================================================================
