--------------------------- MODULE BackupsProofs ----------------------------
(***************************************************************************)
(* What the rotation and the cleanup never remove, for every calendar and  *)
(* any number of databases: what is proved of the days, the weeks and the  *)
(* months comes first, then the days that are accounted for, and that a    *)
(* backup always remains.                                                  *)
(***************************************************************************)
EXTENDS Backups, FiniteSetTheorems, TLAPS

(***************************************************************************)
(* performBackup removes daily backups only by the name of an export that  *)
(* is not compressed.                                                      *)
(***************************************************************************)
LEMMA ReplacedDailies ==
    ASSUME NEW f \in Replaced, f.rotation = "daily"
    PROVE  f.form # "gz"
<1>1. f.rotation = rotation
  <2>1. CASE rotation = "daily"
    BY <2>1 DEF Replaced
  <2>2. CASE rotation = "weekly"
    BY <2>2 DEF Replaced, IsCurrent
  <2>3. CASE rotation # "daily" /\ rotation # "weekly"
    BY <2>3 DEF Replaced
  <2> QED BY <2>1, <2>2, <2>3
<1>2. rotation = "daily"
  BY <1>1
<1> QED BY <1>2 DEF Replaced

(***************************************************************************)
(* A compressed daily backup is removed by nothing but the cleanup, and    *)
(* not before keep_daily_days have passed.                                 *)
(***************************************************************************)
THEOREM DailiesRetained == BackupSpec => DailiesStay
<1> DEFINE Kept(f) == f.rotation = "daily" /\ f.form = "gz"
                         => today.day - f.stamp.day >= KeepDailyDays
<1>1. [BackupNext]_backupVars => [\A f \in files \ files' : Kept(f)]_backupVars
  <2> SUFFICES ASSUME BackupNext, NEW f \in files, f \notin files'
               PROVE  Kept(f)
    OBVIOUS
  <2>1. CASE Rotate
    <3>1. f \in Replaced
      BY <2>1 DEF Rotate
    <3> QED BY <3>1, ReplacedDailies
  <2>2. CASE Compress
    <3>1. f = NewFile("plain")
      BY <2>2 DEF Compress
    <3>2. f.form = "plain"
      BY <3>1 DEF NewFile
    <3> QED BY <3>2
  <2>3. CASE CleanupDaily
    BY <2>3 DEF CleanupDaily, IsOld
  <2>4. CASE CleanupMonthly
    <3>1. f \in Monthly
      BY <2>4 DEF CleanupMonthly
    <3>2. f.rotation = "monthly"
      BY <3>1 DEF Monthly
    <3> QED BY <3>2
  <2>5. CASE Export \/ ExportFails \/ Stop
    BY <2>5 DEF Export, ExportFails, Stop
  <2>6. CASE UNCHANGED files
    BY <2>6
  <2>7. \/ Rotate \/ Compress \/ CleanupDaily \/ CleanupMonthly
        \/ Export \/ ExportFails \/ Stop \/ UNCHANGED files
    BY DEF BackupNext, Start, StartFails, ListDatabases, ListFails, TypeDone, RotateFails,
           MkdirFails, CompressFails, StartCleanup, CleanupDailyFails, Midnight
  <2> QED BY <2>1, <2>2, <2>3, <2>4, <2>5, <2>6, <2>7
<1> QED BY <1>1, PTL DEF BackupSpec, DailiesStay

-----------------------------------------------------------------------------
(***************************************************************************)
(* Failures are local.  While a run works, each database of a type it has  *)
(* not complained about has its backup, or is still to be done.            *)
(***************************************************************************)
InSeq(x, s) == \E i \in DOMAIN s : s[i] = x

InType == {"databases", "export", "compress"}

Pending(t, db) ==
    IF phase \in InType
    THEN InSeq(t, Tail(types)) \/ (t = Head(types) /\ InSeq(db, queue))
    ELSE InSeq(t, types)

PlacesAgree ==
    /\ types \in Seq(TypeNames)
    /\ queue \in Seq(DatabaseNames)
    /\ phase \in InType => types # <<>>
    /\ phase \in {"export", "compress"} => queue # <<>>
    /\ phase = "daily" => types = <<>>

NothingForgotten ==
    phase \in InType \cup {"types", "daily"} =>
        \A t \in TypeNames \ warned :
            \A i \in DOMAIN Databases[t] :
                HasBackup(t, Databases[t][i]) \/ Pending(t, Databases[t][i])

RunInv == PlacesAgree /\ NothingForgotten

LEMMA HeadOrTail ==
    ASSUME NEW S, NEW s \in Seq(S), s # <<>>
    PROVE  /\ Head(s) \in S /\ Tail(s) \in Seq(S)
           /\ InSeq(Head(s), s)
           /\ \A x : InSeq(x, s) <=> x = Head(s) \/ InSeq(x, Tail(s))
<1>1. /\ Head(s) \in S /\ Tail(s) \in Seq(S)
      /\ Len(s) \in Nat \ {0} /\ Head(s) = s[1] /\ 1 \in DOMAIN s
      /\ DOMAIN s = 1 .. Len(s) /\ DOMAIN Tail(s) = 1 .. Len(s) - 1
      /\ \A i \in 1 .. Len(s) - 1 : Tail(s)[i] = s[i + 1]
  OBVIOUS
<1>2. ASSUME NEW x, InSeq(x, s) PROVE x = Head(s) \/ InSeq(x, Tail(s))
  <2>1. PICK i \in 1 .. Len(s) : s[i] = x
    BY <1>1, <1>2 DEF InSeq
  <2>2. CASE i # 1
    <3>1. i - 1 \in 1 .. Len(s) - 1 /\ Tail(s)[i - 1] = x
      BY <1>1, <2>1, <2>2
    <3>. QED
      BY <1>1, <3>1 DEF InSeq
  <2>. QED
    BY <1>1, <2>1, <2>2
<1>3. ASSUME NEW x, InSeq(x, Tail(s)) PROVE InSeq(x, s)
  <2>1. PICK i \in 1 .. Len(s) - 1 : Tail(s)[i] = x
    BY <1>1, <1>3 DEF InSeq
  <2>2. i + 1 \in 1 .. Len(s) /\ s[i + 1] = x
    BY <1>1, <2>1
  <2>. QED
    BY <1>1, <2>2 DEF InSeq
<1>. QED
  BY <1>1, <1>2, <1>3 DEF InSeq

LEMMA NothingInEmpty == \A x : ~InSeq(x, <<>>)
  BY DEF InSeq

(***************************************************************************)
(* A step that keeps the compressed backups of this run keeps what the     *)
(* databases have.                                                         *)
(***************************************************************************)
OfThisRun(f) == f.form = "gz" /\ f.stamp = stamp /\ f.run = run

LEMMA BackupsKept ==
    ASSUME UNCHANGED setting, \A f \in files : OfThisRun(f) => f \in files',
           NEW t, NEW db, HasBackup(t, db)
    PROVE  HasBackup(t, db)'
  BY DEF HasBackup, OfThisRun, setting

LEMMA SkipKeeps ==
    ASSUME RunInv, SkipType, phase \in InType \cup {"types"}, types # <<>>,
           UNCHANGED setting, files \subseteq files'
    PROVE  RunInv'
<1>1. /\ Tail(types) \in Seq(TypeNames) /\ Head(types) \in TypeNames
      /\ \A t : InSeq(t, types) <=> t = Head(types) \/ InSeq(t, Tail(types))
  BY HeadOrTail DEF RunInv, PlacesAgree
<1>2. PlacesAgree'
  BY <1>1 DEF RunInv, PlacesAgree, SkipType, InType
<1>3. ASSUME NEW t \in TypeNames \ warned', NEW i \in DOMAIN Databases[t]
      PROVE  HasBackup(t, Databases[t][i])' \/ Pending(t, Databases[t][i])'
  <2>1. t \in TypeNames \ warned /\ t # Head(types)
    BY <1>3 DEF SkipType
  <2>2. HasBackup(t, Databases[t][i]) \/ Pending(t, Databases[t][i])
    BY <2>1 DEF RunInv, NothingForgotten
  <2>3. CASE HasBackup(t, Databases[t][i])
    BY <2>3, BackupsKept
  <2>4. CASE Pending(t, Databases[t][i])
    BY <1>1, <2>1, <2>4 DEF Pending, SkipType, InType
  <2>. QED
    BY <2>2, <2>3, <2>4
<1>. QED
  BY <1>2, <1>3 DEF RunInv, NothingForgotten

(***************************************************************************)
(* Steps that leave the type and its queue alone: a database may lose its  *)
(* backup while it is to be done.                                          *)
(***************************************************************************)
LEMMA SamePlace ==
    ASSUME RunInv, phase \in InType, phase' \in InType, queue # <<>>,
           UNCHANGED <<setting, types, queue, warned>>,
           \A f \in files : OfThisRun(f) => f \in files' \/ IsCurrent(f)
    PROVE  RunInv'
<1>1. /\ InSeq(Head(queue), queue)
      /\ types # <<>>
  BY HeadOrTail DEF RunInv, PlacesAgree
<1>2. PlacesAgree'
  BY <1>1 DEF RunInv, PlacesAgree, InType
<1>3. ASSUME NEW t \in TypeNames \ warned, NEW i \in DOMAIN Databases[t]
      PROVE  HasBackup(t, Databases[t][i])' \/ Pending(t, Databases[t][i])'
  <2>1. HasBackup(t, Databases[t][i]) \/ Pending(t, Databases[t][i])
    BY <1>3 DEF RunInv, NothingForgotten
  <2>2. CASE Pending(t, Databases[t][i])
    BY <2>2 DEF Pending
  <2>3. CASE HasBackup(t, Databases[t][i])
    <3>1. PICK f \in files : /\ f.type = t /\ f.db = Databases[t][i]
                             /\ OfThisRun(f)
      BY <2>3 DEF HasBackup, OfThisRun
    <3>2. CASE f \in files'
      BY <3>1, <3>2 DEF HasBackup, OfThisRun, setting
    <3>3. CASE IsCurrent(f)
      BY <1>1, <3>1, <3>3 DEF IsCurrent, Pending
    <3>. QED
      BY <3>1, <3>2, <3>3
  <2>. QED
    BY <2>1, <2>2, <2>3
<1>. QED
  BY <1>2, <1>3 DEF RunInv, NothingForgotten

LEMMA CompressKeeps == ASSUME RunInv, Compress PROVE RunInv'
<1>1. /\ phase = "compress" /\ phase' = "databases" /\ types # <<>> /\ queue # <<>>
      /\ queue' = Tail(queue) /\ UNCHANGED <<setting, types, warned>>
      /\ files' = (files \ {NewFile("plain")}) \cup {NewFile("gz")}
  BY DEF Compress, RunInv, PlacesAgree, InType
<1>2. /\ Tail(queue) \in Seq(DatabaseNames)
      /\ \A db : InSeq(db, queue) <=> db = Head(queue) \/ InSeq(db, Tail(queue))
  BY <1>1, HeadOrTail DEF RunInv, PlacesAgree
<1>3. PlacesAgree'
  BY <1>1, <1>2 DEF RunInv, PlacesAgree, InType
<1>4. ASSUME NEW t, NEW db, t = Head(types), db = Head(queue)
      PROVE  HasBackup(t, db)'
  <2>1. /\ NewFile("gz").type = t /\ NewFile("gz").db = db
        /\ NewFile("gz").form = "gz"
        /\ NewFile("gz").stamp = stamp /\ NewFile("gz").run = run
    BY <1>4 DEF NewFile
  <2>2. NewFile("gz") \in files' /\ stamp' = stamp /\ run' = run
    BY <1>1 DEF setting
  <2>. QED
    BY <2>1, <2>2 DEF HasBackup
<1>5. \A f \in files : OfThisRun(f) => f \in files'
  <2>1. NewFile("plain").form = "plain"
    BY DEF NewFile
  <2>. QED
    BY <1>1, <2>1 DEF OfThisRun
<1>6. ASSUME NEW t \in TypeNames \ warned, NEW i \in DOMAIN Databases[t]
      PROVE  HasBackup(t, Databases[t][i])' \/ Pending(t, Databases[t][i])'
  <2>1. HasBackup(t, Databases[t][i]) \/ Pending(t, Databases[t][i])
    BY <1>1, <1>6 DEF RunInv, NothingForgotten, InType
  <2>2. CASE HasBackup(t, Databases[t][i])
    BY <1>1, <1>5, <2>2, BackupsKept
  <2>3. CASE Pending(t, Databases[t][i])
    <3>1. CASE t = Head(types) /\ Databases[t][i] = Head(queue)
      BY <1>1, <1>4, <3>1
    <3>2. CASE t # Head(types) \/ Databases[t][i] # Head(queue)
      BY <1>1, <1>2, <2>3, <3>2 DEF Pending, InType
    <3>. QED
      BY <3>1, <3>2
  <2>. QED
    BY <2>1, <2>2, <2>3
<1>. QED
  BY <1>1, <1>3, <1>6 DEF RunInv, NothingForgotten

LEMMA TypeDoneKeeps == ASSUME RunInv, TypeDone PROVE RunInv'
<1>1. /\ phase = "databases" /\ phase' = "types" /\ types # <<>> /\ queue = <<>>
      /\ types' = Tail(types) /\ UNCHANGED <<setting, queue, warned, files>>
  BY DEF TypeDone, RunInv, PlacesAgree, InType
<1>2. PlacesAgree'
  BY <1>1, HeadOrTail DEF RunInv, PlacesAgree, InType
<1>3. ASSUME NEW t \in TypeNames \ warned, NEW i \in DOMAIN Databases[t]
      PROVE  HasBackup(t, Databases[t][i])' \/ Pending(t, Databases[t][i])'
  <2>1. HasBackup(t, Databases[t][i]) \/ Pending(t, Databases[t][i])
    BY <1>1, <1>3 DEF RunInv, NothingForgotten, InType
  <2>. QED
    BY <1>1, <2>1, BackupsKept, NothingInEmpty DEF Pending, InType
<1>. QED
  BY <1>1, <1>2, <1>3 DEF RunInv, NothingForgotten

LEMMA ListDatabasesKeeps == ASSUME RunInv, ListDatabases PROVE RunInv'
<1>1. /\ phase = "types" /\ phase' = "databases" /\ types # <<>>
      /\ queue' = Databases[Head(types)]
      /\ UNCHANGED <<setting, types, warned, files>>
  BY DEF ListDatabases
<1>2. /\ Head(types) \in TypeNames
      /\ \A t : InSeq(t, types) <=> t = Head(types) \/ InSeq(t, Tail(types))
  BY <1>1, HeadOrTail DEF RunInv, PlacesAgree
<1>3. PlacesAgree'
  BY <1>1, <1>2, DatabasesAssumption DEF RunInv, PlacesAgree, InType
<1>4. ASSUME NEW t \in TypeNames \ warned, NEW i \in DOMAIN Databases[t]
      PROVE  HasBackup(t, Databases[t][i])' \/ Pending(t, Databases[t][i])'
  <2>1. HasBackup(t, Databases[t][i]) \/ InSeq(t, types)
    BY <1>1, <1>4 DEF RunInv, NothingForgotten, Pending, InType
  <2>2. CASE HasBackup(t, Databases[t][i])
    BY <1>1, <2>2, BackupsKept
  <2>3. CASE InSeq(t, types)
    <3>1. InSeq(Databases[t][i], Databases[t])
      BY DEF InSeq
    <3>. QED
      BY <1>1, <1>2, <2>3, <3>1 DEF Pending, InType
  <2>. QED
    BY <2>1, <2>2, <2>3
<1>. QED
  BY <1>1, <1>3, <1>4 DEF RunInv, NothingForgotten

LEMMA StartKeeps ==
    ASSUME NEW command, Start(command)
    PROVE  RunInv'
<1>1. /\ phase' = "types" /\ types' = Types /\ queue' = <<>>
  BY DEF Start
<1>2. PlacesAgree'
  BY <1>1, DatabasesAssumption DEF PlacesAgree, InType
<1>3. \A t \in TypeNames : InSeq(t, Types)
  BY DEF InSeq, TypeNames
<1>. QED
  BY <1>1, <1>2, <1>3 DEF RunInv, NothingForgotten, Pending, InType

LEMMA RunStep == RunInv /\ [BackupNext]_backupVars => RunInv'
<1>. SUFFICES ASSUME RunInv, [BackupNext]_backupVars PROVE RunInv'
  OBVIOUS
<1>1. CASE \E command \in Commands : Start(command)
  BY <1>1, StartKeeps
<1>2. CASE StartFails \/ Midnight \/ UNCHANGED backupVars
  <2>1. UNCHANGED <<files, phase, setting, types, queue, warned>>
    BY <1>2 DEF StartFails, Midnight, backupVars
  <2>. QED
    BY <2>1 DEF RunInv, PlacesAgree, NothingForgotten, HasBackup, Pending, setting
<1>3. CASE ListFails \/ MkdirFails \/ ExportFails \/ CompressFails
  <2>1. /\ SkipType /\ phase \in InType \cup {"types"} /\ types # <<>>
        /\ UNCHANGED setting /\ files \subseteq files'
    BY <1>3 DEF ListFails, MkdirFails, ExportFails, CompressFails, InType,
       RunInv, PlacesAgree
  <2>. QED
    BY <2>1, SkipKeeps
<1>4. CASE Rotate \/ RotateFails \/ Export
  <2>1. /\ phase \in InType /\ phase' \in InType /\ queue # <<>>
        /\ UNCHANGED <<setting, types, queue, warned>>
    BY <1>4 DEF Rotate, RotateFails, Export, InType, RunInv, PlacesAgree
  <2>2. \A f \in Replaced : IsCurrent(f)
    BY DEF Replaced
  <2>3. \A f \in files : f \in files' \/ IsCurrent(f)
    BY <1>4, <2>2 DEF Rotate, RotateFails, Export
  <2>. QED
    BY <2>1, <2>3, SamePlace
<1>5. CASE StartCleanup
  <2>1. /\ phase = "types" /\ phase' = "daily" /\ types = <<>>
        /\ UNCHANGED <<files, setting, types, queue, warned>>
    BY <1>5 DEF StartCleanup
  <2>. QED
    BY <2>1 DEF RunInv, PlacesAgree, NothingForgotten, HasBackup, Pending, InType, setting
<1>6. CASE CleanupDaily \/ CleanupDailyFails \/ CleanupMonthly \/ Stop
  <2>1. /\ phase' \in {"monthly", "idle"} /\ UNCHANGED <<types, queue>>
    BY <1>6 DEF CleanupDaily, CleanupDailyFails, CleanupMonthly, Stop
  <2>. QED
    BY <2>1 DEF RunInv, PlacesAgree, NothingForgotten, InType
<1>. QED
  BY <1>1, <1>2, <1>3, <1>4, <1>5, <1>6, CompressKeeps, TypeDoneKeeps,
     ListDatabasesKeeps DEF BackupNext

(***************************************************************************)
(* When a run gets to the cleanup, every database has a compressed backup  *)
(* of this run, except those of the types it has complained about: for all *)
(* types, databases and settings, and any number of troubles.              *)
(***************************************************************************)
THEOREM FailuresStayLocal == BackupSpec => []FailuresAreLocal
<1>1. BackupInit => RunInv
  BY DEF BackupInit, RunInv, PlacesAgree, NothingForgotten, InType
<1>2. RunInv => FailuresAreLocal
  BY NothingInEmpty DEF RunInv, PlacesAgree, NothingForgotten, FailuresAreLocal,
     Pending, InType
<1>. QED
  BY <1>1, <1>2, RunStep, PTL DEF BackupSpec

-----------------------------------------------------------------------------
(***************************************************************************)
(* Monthly backups.  A month that is too short for the day it is today     *)
(* moves the cutoff at most three days into the next month: a backup of a  *)
(* later day than the third is still after it.                             *)
(***************************************************************************)
IsDate(d) == d.day \in Nat /\ d.month \in Int /\ d.dom \in 1 .. 31

LEMMA MonthLengths == \A month \in Int : DaysIn(month) \in 28 .. 31
  BY DEF DaysIn

LEMMA CutoffIsEarly ==
    ASSUME NEW d, IsDate(d), NEW e, IsDate(e), e.dom > 3, NEW n \in Nat,
           e.month > d.month - n
    PROVE  IsAfter(e, AddMonths(d, -n))
<1>1. d.month + -n \in Int /\ d.month + -n = d.month - n
  BY DEF IsDate
<1>2. DaysIn(d.month + -n) \in 28 .. 31
  BY <1>1, MonthLengths
<1>3. CASE d.dom > DaysIn(d.month + -n)
  <2>1. AddMonths(d, -n) = [month |-> d.month + -n + 1,
                            dom |-> d.dom - DaysIn(d.month + -n)]
    BY <1>3 DEF AddMonths, Normalized
  <2>2. d.dom - DaysIn(d.month + -n) <= 3
    BY <1>2 DEF IsDate
  <2>. QED
    BY <1>1, <1>2, <2>1, <2>2 DEF IsAfter, IsDate
<1>4. CASE ~(d.dom > DaysIn(d.month + -n))
  <2>1. AddMonths(d, -n) = [month |-> d.month + -n, dom |-> d.dom]
    BY <1>4 DEF AddMonths, Normalized
  <2>. QED
    BY <1>1, <2>1 DEF IsAfter, IsDate
<1>. QED
  BY <1>3, <1>4

LEMMA TomorrowIsDate ==
    ASSUME NEW d, IsDate(d)
    PROVE  IsDate(NextDay(d)) /\ NextDay(d).day = d.day + 1
<1>1. DaysIn(d.month) \in 28 .. 31 /\ d.dom + 1 \in 2 .. 32
  BY MonthLengths DEF IsDate
<1>2. /\ Normalized(d.month, d.dom + 1).month \in Int
      /\ Normalized(d.month, d.dom + 1).dom \in 1 .. 31
  BY <1>1 DEF Normalized, IsDate
<1>. QED
  BY <1>2 DEF NextDay, IsDate

(***************************************************************************)
(* When cron is left to choose the rotation and monthly backups are not    *)
(* those of the first three days, every monthly backup has such a date,    *)
(* and no date lies ahead.                                                 *)
(***************************************************************************)
DatesAreLate ==
    /\ IsDate(today)
    /\ IsDate(stamp) /\ stamp.day <= today.day
    /\ rotation = "monthly" => stamp.dom > 3
    /\ \A f \in files : /\ IsDate(f.stamp) /\ f.stamp.day <= today.day
                        /\ f.rotation = "monthly" => f.stamp.dom > 3

LateMonthlies == Commands = {"auto"} /\ DoMonthly > 3

LEMMA DatesStep == LateMonthlies /\ DatesAreLate /\ [BackupNext]_backupVars => DatesAreLate'
<1>. SUFFICES ASSUME LateMonthlies, DatesAreLate, [BackupNext]_backupVars PROVE DatesAreLate'
  OBVIOUS
<1>1. CASE \E command \in Commands : Start(command)
  <2>1. Start("auto")
    BY <1>1 DEF LateMonthlies
  <2>2. /\ rotation' = Rotation("auto") /\ stamp' = today
        /\ UNCHANGED <<today, files>>
    BY <2>1 DEF Start
  <2>3. Rotation("auto") = "monthly" => today.dom > 3
    BY DEF Rotation, LateMonthlies
  <2>. QED
    BY <2>2, <2>3 DEF DatesAreLate, IsDate
<1>2. CASE Midnight
  <2>1. today' = NextDay(today) /\ UNCHANGED <<files, stamp, rotation>>
    BY <1>2 DEF Midnight, setting
  <2>. QED
    BY <2>1, TomorrowIsDate DEF DatesAreLate, IsDate
<1>3. CASE /\ UNCHANGED <<today, stamp, rotation>>
           /\ \A f \in files' \ files : f.stamp = stamp /\ f.rotation = rotation
  BY <1>3 DEF DatesAreLate
<1>4. \A form : NewFile(form).stamp = stamp /\ NewFile(form).rotation = rotation
  BY DEF NewFile
<1>5. CASE \/ StartFails \/ ListDatabases \/ ListFails \/ TypeDone
           \/ Rotate \/ RotateFails \/ MkdirFails
           \/ Export \/ ExportFails \/ Compress \/ CompressFails
           \/ StartCleanup \/ CleanupDaily \/ CleanupDailyFails \/ Stop
           \/ UNCHANGED backupVars
  <2>1. /\ UNCHANGED <<today, stamp, rotation>>
        /\ \A f \in files' \ files : \E form : f = NewFile(form)
    BY <1>5 DEF StartFails, ListDatabases, ListFails, TypeDone, Rotate, RotateFails,
       MkdirFails, Export, ExportFails, Compress, CompressFails, StartCleanup,
       CleanupDaily, CleanupDailyFails, Stop, backupVars, setting
  <2>. QED
    BY <1>3, <1>4, <2>1
<1>6. CASE CleanupMonthly
  <2>1. files' \subseteq files /\ UNCHANGED <<today, stamp, rotation>>
    BY <1>6 DEF CleanupMonthly, Candidates, Monthly, setting
  <2>. QED
    BY <1>3, <2>1
<1>. QED
  BY <1>1, <1>2, <1>5, <1>6 DEF BackupNext

LEMMA Least ==
    ASSUME NEW T \in SUBSET Nat, T # {}
    PROVE  \E n \in T : \A m \in T : n <= m
<1>1. \A m, n \in Nat : m < n => <<m, n>> \in OpToRel(<, Nat)
  BY Zenon DEF OpToRel
<1>2. PICK R : /\ IsWellFoundedOn(R, Nat)
               /\ \A m, n \in Nat : m < n => <<m, n>> \in R
  BY <1>1, NatLessThanWellFounded, Zenon
<1>3. PICK n \in T : \A m \in T : ~(<<m, n>> \in R)
  <2>1. T \subseteq Nat /\ IsWellFoundedOn(R, Nat)
    BY <1>2, Zenon
  <2>. QED
    BY <2>1, WFMin, Zenon
<1>4. \A m \in T : ~(m < n)
  BY <1>2, <1>3
<1>. QED
  BY <1>4

(***************************************************************************)
(* Of the monthly backups of a month, one is the newest.                   *)
(***************************************************************************)
LEMMA NewestOfMonth ==
    ASSUME DatesAreLate, NEW f \in Monthly
    PROVE  \E g \in Monthly :
              /\ SameMonth(f, g)
              /\ \A h \in Monthly : SameMonth(g, h) => h.stamp.day <= g.stamp.day
<1>. DEFINE Ages == {today.day - g.stamp.day : g \in {h \in Monthly : SameMonth(f, h)}}
<1>1. \A g \in Monthly : g.stamp.day \in Nat /\ g.stamp.day <= today.day
  BY DEF Monthly, DatesAreLate, IsDate
<1>2. Ages \in SUBSET Nat
  BY <1>1 DEF DatesAreLate, IsDate
<1>3. today.day - f.stamp.day \in Ages
  BY DEF SameMonth
<1>4. PICK n \in Ages : \A m \in Ages : n <= m
  <2>. HIDE DEF Ages
  <2>. QED
    BY <1>2, <1>3, Least
<1>5. PICK g \in Monthly : SameMonth(f, g) /\ n = today.day - g.stamp.day
  OBVIOUS
<1>6. ASSUME NEW h \in Monthly, SameMonth(g, h) PROVE h.stamp.day <= g.stamp.day
  <2>1. SameMonth(f, h)
    BY <1>5, <1>6 DEF SameMonth
  <2>2. today.day - g.stamp.day <= today.day - h.stamp.day
    BY <1>4, <1>5, <2>1
  <2>. QED
    BY <1>1, <2>2 DEF DatesAreLate, IsDate
<1>. QED
  BY <1>5, <1>6

(***************************************************************************)
(* The cleanup leaves a month that is to be kept a backup.                 *)
(***************************************************************************)
LEMMA CleanupKeepsMonth ==
    ASSUME DatesAreLate, CleanupMonthly,
           NEW f \in Monthly, f.stamp.month \in today.month - KeepMonthlyNum + 1 .. today.month
    PROVE  \E g \in Monthly : g \in files' /\ SameMonth(f, g)
<1>1. PICK g \in Monthly :
             /\ SameMonth(f, g)
             /\ \A h \in Monthly : SameMonth(g, h) => h.stamp.day <= g.stamp.day
  BY NewestOfMonth
<1>2. g \in Candidates
  <2>1. /\ IsDate(today) /\ IsDate(g.stamp) /\ g.stamp.dom > 3
        /\ g.stamp.month = f.stamp.month
    BY <1>1 DEF DatesAreLate, Monthly, SameMonth
  <2>2. KeepMonthlyNum \in Nat
    BY SettingsAssumption
  <2>3. g.stamp.month > today.month - KeepMonthlyNum
    BY <2>1, <2>2 DEF IsDate
  <2>4. IsRecent(g)
    BY <2>1, <2>2, <2>3, CutoffIsEarly DEF IsRecent, Cutoff
  <2>. QED
    BY <1>1, <2>4 DEF Candidates
<1>3. PICK kept \in SUBSET Candidates :
             /\ IF IsToday(g) THEN g \in kept
                              ELSE Cardinality({h \in kept : SameMonth(g, h)}) = 1
             /\ files' = (files \ Monthly) \cup kept
  BY <1>2 DEF CleanupMonthly
<1>4. PICK h \in kept : SameMonth(g, h)
  <2>1. CASE IsToday(g)
    BY <1>3, <2>1 DEF SameMonth
  <2>2. CASE ~IsToday(g)
    <3>. DEFINE Same == {h \in kept : SameMonth(g, h)}
    <3>1. Same # {}
      <4>1. Cardinality(Same) = 1
        BY <1>3, <2>2
      <4>. HIDE DEF Same
      <4>. QED
        BY <4>1, FS_EmptySet
    <3>. QED
      BY <3>1
  <2>. QED
    BY <2>1, <2>2
<1>5. h \in Monthly /\ h \in files'
  BY <1>3 DEF Candidates
<1>. QED
  BY <1>1, <1>4, <1>5 DEF SameMonth

LEMMA MonthStays ==
    ASSUME DatesAreLate, [BackupNext]_backupVars, NEW t, NEW db,
           NEW month \in today.month - KeepMonthlyNum + 1 .. today.month,
           HasMonthly(t, db, month)
    PROVE  HasMonthly(t, db, month)'
<1>1. PICK f \in files : /\ f.type = t /\ f.db = db /\ f.rotation = "monthly"
                         /\ f.stamp.month = month
  BY DEF HasMonthly
<1>2. CASE CleanupMonthly
  <2>1. f \in Monthly
    BY <1>1 DEF Monthly
  <2>2. PICK g \in Monthly : g \in files' /\ SameMonth(f, g)
    BY <1>1, <1>2, <2>1, CleanupKeepsMonth
  <2>. QED
    BY <1>1, <2>2 DEF HasMonthly, Monthly, SameMonth
<1>3. CASE Rotate
  <2>1. f \notin Replaced
    BY <1>1 DEF Replaced, IsCurrent
  <2>. QED
    BY <1>1, <1>3, <2>1 DEF Rotate, HasMonthly
<1>4. CASE Compress
  <2>1. CASE f = NewFile("plain")
    <3>1. NewFile("gz") \in files'
      BY <1>4 DEF Compress
    <3>2. /\ NewFile("gz").type = f.type /\ NewFile("gz").db = f.db
          /\ NewFile("gz").rotation = f.rotation /\ NewFile("gz").stamp = f.stamp
      BY <2>1 DEF NewFile
    <3>. QED
      BY <1>1, <3>1, <3>2 DEF HasMonthly
  <2>2. CASE f # NewFile("plain")
    BY <1>1, <1>4, <2>2 DEF Compress, HasMonthly
  <2>. QED
    BY <2>1, <2>2
<1>5. CASE CleanupDaily
  BY <1>1, <1>5 DEF CleanupDaily, HasMonthly
<1>6. CASE files \subseteq files'
  BY <1>1, <1>6 DEF HasMonthly
<1>7. CleanupMonthly \/ Rotate \/ Compress \/ CleanupDaily \/ files \subseteq files'
  BY DEF BackupNext, Start, StartFails, ListDatabases, ListFails, TypeDone, RotateFails,
     MkdirFails, Export, ExportFails, CompressFails, StartCleanup, CleanupDailyFails,
     Stop, Midnight, backupVars
<1>. QED
  BY <1>2, <1>3, <1>4, <1>5, <1>6, <1>7

(***************************************************************************)
(* "Monthly backups keep the latest keep_monthly_num rotations" is true of *)
(* every calendar when the rotation is left to the program and do_monthly  *)
(* is not one of the first three days of a month.  For those days a run    *)
(* shows that it is false.                                                 *)
(***************************************************************************)
THEOREM LateMonthliesStay ==
    ASSUME Commands = {"auto"}, DoMonthly > 3
    PROVE  BackupSpec => MonthsStay
<1>1. BackupInit => DatesAreLate
  BY RunAssumption DEF BackupInit, DatesAreLate, IsDate, Day
<1>2. DatesAreLate /\ [BackupNext]_backupVars => DatesAreLate'
  BY DatesStep DEF LateMonthlies
<1>3. DatesAreLate /\ [BackupNext]_backupVars =>
          [\A t \in TypeNames, db \in DatabaseNames,
              month \in today.month - KeepMonthlyNum + 1 .. today.month :
                 HasMonthly(t, db, month) => HasMonthly(t, db, month)']_backupVars
  BY MonthStays
<1>. QED
  BY <1>1, <1>2, <1>3, PTL DEF BackupSpec, MonthsStay
-----------------------------------------------------------------------------
(***************************************************************************)
(* The calendar.  A day is one of the calendar when its date is one and    *)
(* its week is the ISO week: the number of the Thursday of its week, in    *)
(* the year of that Thursday, in sevens.                                   *)
(***************************************************************************)
YearLength(year) == IF IsLeap(year) THEN 366 ELSE 365

DaysBefore(month) ==
    LET leap == IF IsLeap(month \div 12) THEN 1 ELSE 0 IN
    CASE month % 12 = 0  -> 0
      [] month % 12 = 1  -> 31
      [] month % 12 = 2  -> 59 + leap
      [] month % 12 = 3  -> 90 + leap
      [] month % 12 = 4  -> 120 + leap
      [] month % 12 = 5  -> 151 + leap
      [] month % 12 = 6  -> 181 + leap
      [] month % 12 = 7  -> 212 + leap
      [] month % 12 = 8  -> 243 + leap
      [] month % 12 = 9  -> 273 + leap
      [] month % 12 = 10 -> 304 + leap
      [] OTHER           -> 334 + leap

DayOfYear(d) == DaysBefore(d.month) + d.dom

Thursday(d) == DayOfYear(d) + 4 - d.weekday

InWeek(t, week) == 7 * (week - 1) < t /\ t <= 7 * week

IsWeekOf(d) ==
    LET year == d.month \div 12
        t == Thursday(d)
    IN
    \/ t < 1 /\ InWeek(t + YearLength(year - 1), d.week)
    \/ t >= 1 /\ t <= YearLength(year) /\ InWeek(t, d.week)
    \/ t > YearLength(year) /\ d.week = 1

InCalendar(d) == d \in Day /\ d.dom <= DaysIn(d.month) /\ IsWeekOf(d)

LEMMA Months ==
    ASSUME NEW month \in Nat
    PROVE  /\ month % 12 \in 0 .. 11 /\ month \div 12 \in Nat
           /\ DaysIn(month) \in 28 .. 31 /\ DaysBefore(month) \in Nat
           /\ YearLength(month \div 12) \in 365 .. 366
           /\ month % 12 # 11 =>
                 /\ (month + 1) % 12 = (month % 12) + 1
                 /\ (month + 1) \div 12 = month \div 12
                 /\ DaysBefore(month + 1) = DaysBefore(month) + DaysIn(month)
                 /\ DaysBefore(month + 1) <= YearLength(month \div 12) - 31
           /\ month % 12 = 11 =>
                 /\ (month + 1) % 12 = 0
                 /\ (month + 1) \div 12 = month \div 12 + 1
                 /\ DaysIn(month) = 31
                 /\ DaysBefore(month) = YearLength(month \div 12) - 31
           /\ month % 12 = 0 => DaysBefore(month) = 0
           /\ month % 12 # 0 => DaysBefore(month) >= 31
<1>1. /\ month % 12 \in 0 .. 11 /\ month \div 12 \in Nat
      /\ month % 12 # 11 => /\ (month + 1) % 12 = (month % 12) + 1
                            /\ (month + 1) \div 12 = month \div 12
      /\ month % 12 = 11 => /\ (month + 1) % 12 = 0
                            /\ (month + 1) \div 12 = month \div 12 + 1
  OBVIOUS
<1>. DEFINE m == month % 12
            y == month \div 12
            leap == IF IsLeap(y) THEN 1 ELSE 0
<1>2. /\ leap \in 0 .. 1 /\ YearLength(y) = 365 + leap
  BY DEF YearLength
<1>3. DaysIn(month) = IF m = 1 THEN 28 + leap ELSE IF m \in {3, 5, 8, 10} THEN 30 ELSE 31
  BY DEF DaysIn
<1>. DEFINE Before(k) ==
       CASE k = 0  -> 0
         [] k = 1  -> 31
         [] k = 2  -> 59 + leap
         [] k = 3  -> 90 + leap
         [] k = 4  -> 120 + leap
         [] k = 5  -> 151 + leap
         [] k = 6  -> 181 + leap
         [] k = 7  -> 212 + leap
         [] k = 8  -> 243 + leap
         [] k = 9  -> 273 + leap
         [] k = 10 -> 304 + leap
         [] OTHER  -> 334 + leap
<1>4. DaysBefore(month) = Before(m)
  BY DEF DaysBefore
<1>5. m # 11 => DaysBefore(month + 1) = Before(m + 1)
  BY <1>1 DEF DaysBefore
<1>6. \A k \in 0 .. 11 :
         /\ Before(k) \in Nat
         /\ k # 11 => /\ Before(k + 1) = Before(k)
                           + (IF k = 1 THEN 28 + leap ELSE IF k \in {3, 5, 8, 10} THEN 30 ELSE 31)
                      /\ Before(k + 1) <= 365 + leap - 31
         /\ k = 11 => Before(k) = 365 + leap - 31
         /\ k = 0 => Before(k) = 0
         /\ k # 0 => Before(k) >= 31
  <2>. HIDE DEF leap
  <2>. TAKE k \in 0 .. 11
  <2>. QED
    BY <1>2
<1>7. m \in 0 .. 11
  BY <1>1
<1>. HIDE DEF Before, leap, m, y
<1>8. DaysIn(month) \in 28 .. 31
  BY <1>2, <1>3
<1>. QED
  BY <1>1, <1>2, <1>3, <1>4, <1>5, <1>6, <1>7, <1>8 DEF m, y

LEMMA MonthEnds ==
    ASSUME NEW month \in Nat, month % 12 # 11
    PROVE  /\ (month + 1) \div 12 = month \div 12
           /\ DaysBefore(month + 1) = DaysBefore(month) + DaysIn(month)
           /\ DaysBefore(month + 1) <= YearLength(month \div 12) - 31
  BY Months

LEMMA YearEnds ==
    ASSUME NEW month \in Nat, month % 12 = 11
    PROVE  /\ DaysIn(month) = 31 /\ DaysBefore(month) = YearLength(month \div 12) - 31
           /\ (month + 1) % 12 = 0 /\ (month + 1) \div 12 = month \div 12 + 1
  BY Months

(***************************************************************************)
(* The Monday after d starts a year when d is one of the days from         *)
(* December 28 to January 3.                                               *)
(***************************************************************************)
LEMMA YearStarts ==
    ASSUME NEW d, InCalendar(d)
    PROVE  StartsYear(d) <=> \/ d.month % 12 = 0 /\ d.dom <= 3
                             \/ d.month % 12 = 11 /\ d.dom >= 28
<1>1. /\ d.month \in Nat /\ d.dom \in 1 .. 31 /\ d.dom <= DaysIn(d.month)
  BY DEF InCalendar, Day
<1>2. /\ DaysIn(d.month) \in 28 .. 31
      /\ d.month % 12 \in 0 .. 11
      /\ d.month % 12 # 11 => (d.month + 1) % 12 = (d.month % 12) + 1
      /\ d.month % 12 = 11 => (d.month + 1) % 12 = 0 /\ DaysIn(d.month) = 31
  BY <1>1, Months
<1>3. CASE d.dom + 4 > DaysIn(d.month)
  <2>1. StartsYear(d) <=> /\ (d.month + 1) % 12 = 0
                          /\ d.dom + 4 - DaysIn(d.month) <= 7
    <3>1. Normalized(d.month, d.dom + 4)
             = [month |-> d.month + 1, dom |-> d.dom + 4 - DaysIn(d.month)]
      BY <1>1, <1>2, <1>3 DEF Normalized
    <3>. QED
      BY <3>1 DEF StartsYear, IsJanuary
  <2>. QED
    BY <1>1, <1>2, <1>3, <2>1
<1>4. CASE ~(d.dom + 4 > DaysIn(d.month))
  <2>1. StartsYear(d) <=> d.month % 12 = 0 /\ d.dom + 4 <= 7
    BY <1>4 DEF StartsYear, Normalized, IsJanuary
  <2>. QED
    BY <1>1, <1>2, <1>4, <2>1
<1>. QED
  BY <1>3, <1>4

(***************************************************************************)
(* A year has at least 52 weeks.                                           *)
(***************************************************************************)
LEMMA YearsAreLong ==
    ASSUME NEW d, InCalendar(d), d.weekday = 7, StartsYear(d)
    PROVE  d.week >= 52
<1>. DEFINE y == d.month \div 12
            t == DayOfYear(d) - 3
<1>1. /\ d.month \in Nat /\ d.dom \in 1 .. 31 /\ d.week \in 1 .. 53
      /\ \/ d.month % 12 = 0 /\ d.dom <= 3
         \/ d.month % 12 = 11 /\ d.dom >= 28
  BY YearStarts DEF InCalendar, Day
<1>2. /\ y \in Nat /\ YearLength(y) \in 365 .. 366 /\ YearLength(y - 1) \in 365 .. 366
      /\ d.month % 12 = 11 => DayOfYear(d) = YearLength(y) - 31 + d.dom
      /\ d.month % 12 = 0 => DayOfYear(d) = d.dom
  <2>1. YearLength(y - 1) \in 365 .. 366
    BY DEF YearLength
  <2>2. /\ y \in Nat /\ YearLength(y) \in 365 .. 366
        /\ d.month % 12 = 11 => DaysBefore(d.month) = YearLength(y) - 31
        /\ d.month % 12 = 0 => DaysBefore(d.month) = 0
    BY <1>1, Months
  <2>. QED
    BY <1>1, <2>1, <2>2 DEF DayOfYear
<1>3. /\ Thursday(d) = t /\ t \in Int
      /\ \/ t < 1 /\ InWeek(t + YearLength(y - 1), d.week)
         \/ t >= 1 /\ t <= YearLength(y) /\ InWeek(t, d.week)
         \/ t > YearLength(y) /\ d.week = 1
  BY <1>1, <1>2 DEF InCalendar, IsWeekOf, Thursday
<1>. QED
  BY <1>1, <1>2, <1>3 DEF InWeek

(***************************************************************************)
(* NextDay takes a day of the calendar to the next one.                    *)
(***************************************************************************)
LEMMA TomorrowInCalendar ==
    ASSUME NEW d, InCalendar(d)
    PROVE  InCalendar(NextDay(d))
<1>. DEFINE e == NextDay(d)
            y == d.month \div 12
            n == DayOfYear(d)
            t == Thursday(d)
            L == YearLength(y)
<1>1. /\ d.day \in Nat /\ d.month \in Nat /\ d.dom \in 1 .. 31
      /\ d.weekday \in 1 .. 7 /\ d.week \in 1 .. 53
      /\ d.dom <= DaysIn(d.month)
      /\ \/ t < 1 /\ InWeek(t + YearLength(y - 1), d.week)
         \/ t >= 1 /\ t <= L /\ InWeek(t, d.week)
         \/ t > L /\ d.week = 1
  BY DEF InCalendar, IsWeekOf, Day
<1>2. /\ DaysIn(d.month) \in 28 .. 31 /\ DaysBefore(d.month) \in Nat
      /\ L \in 365 .. 366 /\ YearLength(y - 1) \in 365 .. 366 /\ y \in Nat
  BY <1>1, Months DEF YearLength
<1>3. n \in Nat /\ n >= 1 /\ t = n + 4 - d.weekday
  BY <1>1, <1>2 DEF DayOfYear, Thursday
<1>4. /\ e.day = d.day + 1 /\ e.weekday = (d.weekday % 7) + 1
      /\ e.week = IF d.weekday # 7 THEN d.week
                  ELSE IF StartsYear(d) THEN 1 ELSE d.week + 1
      /\ e = [day |-> e.day, month |-> e.month, dom |-> e.dom,
              weekday |-> e.weekday, week |-> e.week]
  BY DEF NextDay
<1>5. /\ d.weekday # 7 => e.weekday = d.weekday + 1
      /\ d.weekday = 7 => e.weekday = 1
      /\ e.weekday \in 1 .. 7
  BY <1>1, <1>4
<1>6. CASE d.month % 12 = 11 /\ d.dom = 31
  <2>1. /\ DaysIn(d.month) = 31 /\ DaysBefore(d.month) = L - 31
        /\ (d.month + 1) % 12 = 0 /\ (d.month + 1) \div 12 = y + 1
    <3>1. d.month \in Nat
      BY <1>1
    <3>. QED
      BY <1>6, <3>1, YearEnds
  <2>2. e.month = d.month + 1 /\ e.dom = 1
    BY <1>1, <1>6, <2>1 DEF NextDay, Normalized
  <2>3. /\ DaysBefore(e.month) = 0 /\ DaysIn(e.month) \in 28 .. 31
        /\ YearLength(y + 1) \in 365 .. 366
    BY <1>1, <2>1, <2>2, Months
  <2>4. /\ n = L /\ DayOfYear(e) = 1 /\ Thursday(e) = 5 - e.weekday
    BY <1>2, <1>5, <1>6, <2>1, <2>2, <2>3 DEF DayOfYear, Thursday
  <2>5. e.month \div 12 = y + 1 /\ (y + 1) - 1 = y
    BY <1>2, <2>1, <2>2
  <2>6. StartsYear(d)
    BY <1>6, YearStarts
  <2>7. IsWeekOf(e) /\ e.week \in 1 .. 53
    <3>1. CASE d.weekday = 7
      BY <1>4, <1>5, <2>3, <2>4, <2>5, <2>6, <3>1 DEF IsWeekOf, InWeek
    <3>2. CASE d.weekday # 7
      <4>1. Thursday(e) = t - L /\ e.week = d.week
        BY <1>1, <1>2, <1>3, <1>4, <1>5, <2>4, <3>2
      <4>2. t >= 1 /\ Thursday(e) <= 3
        BY <1>1, <1>2, <1>3, <2>4, <4>1
      <4>3. CASE t <= L /\ InWeek(t, d.week)
        BY <1>1, <1>2, <1>3, <2>5, <4>1, <4>3 DEF IsWeekOf
      <4>4. CASE t > L /\ d.week = 1
        BY <1>1, <1>2, <1>3, <2>3, <2>5, <4>1, <4>2, <4>4 DEF IsWeekOf, InWeek
      <4>. QED
        BY <1>1, <1>2, <1>3, <4>1, <4>2, <4>3, <4>4
    <3>. QED
      BY <3>1, <3>2
  <2>. QED
    BY <1>1, <1>4, <1>5, <2>2, <2>3, <2>7 DEF InCalendar, Day
<1>7. CASE ~(d.month % 12 = 11 /\ d.dom = 31)
  <2>1. /\ e.month \in Nat /\ e.dom \in 1 .. 31 /\ e.dom <= DaysIn(e.month)
        /\ DayOfYear(e) = n + 1 /\ e.month \div 12 = y
    <3>1. CASE d.dom + 1 > DaysIn(d.month)
      <4>1. d.dom = DaysIn(d.month) /\ e.month = d.month + 1 /\ e.dom = 1
        BY <1>1, <1>2, <3>1 DEF NextDay, Normalized
      <4>2. d.month % 12 # 11
        <5>1. d.month % 12 = 11 => DaysIn(d.month) = 31
          BY <1>1, Months
        <5>. QED
          BY <1>7, <4>1, <5>1
      <4>3. /\ DaysBefore(d.month + 1) = DaysBefore(d.month) + DaysIn(d.month)
            /\ (d.month + 1) \div 12 = y /\ DaysIn(d.month + 1) \in 28 .. 31
        <5>1. /\ DaysBefore(d.month + 1) = DaysBefore(d.month) + DaysIn(d.month)
              /\ (d.month + 1) \div 12 = y
          BY <1>1, <4>2, Months
        <5>2. DaysIn(d.month + 1) \in 28 .. 31
          BY <1>1, MonthLengths
        <5>. QED
          BY <5>1, <5>2
      <4>4. DayOfYear(e) = DaysBefore(d.month) + DaysIn(d.month) + 1
        BY <1>2, <4>1, <4>3 DEF DayOfYear
      <4>5. n = DaysBefore(d.month) + d.dom
        BY DEF DayOfYear
      <4>6. e.month \in Nat /\ e.month \div 12 = y /\ e.dom <= DaysIn(e.month)
        BY <1>1, <4>1, <4>3
      <4>. HIDE DEF e, n, y
      <4>. QED
        BY <1>1, <1>2, <4>1, <4>4, <4>5, <4>6
    <3>2. CASE ~(d.dom + 1 > DaysIn(d.month))
      <4>1. e.month = d.month /\ e.dom = d.dom + 1
        BY <3>2 DEF NextDay, Normalized
      <4>. QED
        BY <1>1, <1>2, <3>2, <4>1 DEF DayOfYear
    <3>. QED
      BY <3>1, <3>2
  <2>2. Thursday(e) = n + 5 - e.weekday
    BY <1>3, <1>5, <2>1 DEF Thursday
  <2>3. CASE d.weekday # 7
    <3>1. Thursday(e) = t /\ e.week = d.week
      BY <1>1, <1>3, <1>4, <1>5, <2>2, <2>3
    <3>2. IsWeekOf(e)
      BY <1>1, <2>1, <3>1 DEF IsWeekOf
    <3>. QED
      BY <1>1, <1>4, <1>5, <2>1, <3>1, <3>2 DEF InCalendar, Day
  <2>4. CASE d.weekday = 7 /\ StartsYear(d)
    <3>1. Thursday(e) = n + 4 /\ e.week = 1
      BY <1>3, <1>4, <1>5, <2>2, <2>4
    <3>2. n <= 3 \/ n >= L - 3
      <4>1. /\ n = DaysBefore(d.month) + d.dom
            /\ d.month % 12 = 0 => DaysBefore(d.month) = 0
            /\ d.month % 12 = 11 => DaysBefore(d.month) = L - 31
        BY <1>1, Months DEF DayOfYear
      <4>2. \/ d.month % 12 = 0 /\ d.dom <= 3
            \/ d.month % 12 = 11 /\ d.dom >= 28
        BY <2>4, YearStarts
      <4>. HIDE DEF n, L
      <4>. QED
        BY <1>1, <1>2, <4>1, <4>2
    <3>3. IsWeekOf(e)
      BY <1>2, <1>3, <2>1, <3>1, <3>2 DEF IsWeekOf, InWeek
    <3>. QED
      BY <1>4, <1>5, <1>1, <2>1, <3>1, <3>3 DEF InCalendar, Day
  <2>5. CASE d.weekday = 7 /\ ~StartsYear(d)
    <3>1. Thursday(e) = t + 7 /\ e.week = d.week + 1 /\ t = n - 3
      BY <1>3, <1>4, <1>5, <2>2, <2>5
    <3>2. n > 3 /\ n + 4 <= L
      <4>1. CASE d.month % 12 = 11
        <5>1. L >= 365 /\ DaysBefore(d.month) = L - 31 /\ d.dom < 28
          BY <1>1, <1>2, <2>5, <4>1, YearStarts, Months
        <5>. QED
          BY <1>1, <1>2, <5>1 DEF DayOfYear
      <4>2. CASE d.month % 12 # 11
        <5>1. DaysBefore(d.month) + DaysIn(d.month) <= L - 31
          <6>1. d.month \in Nat
            BY <1>1
          <6>2. /\ (d.month + 1) \div 12 = d.month \div 12
                /\ DaysBefore(d.month + 1) = DaysBefore(d.month) + DaysIn(d.month)
                /\ DaysBefore(d.month + 1) <= YearLength(d.month \div 12) - 31
            BY <4>2, <6>1, MonthEnds
          <6>. QED
            BY <6>2
        <5>2. d.month % 12 # 0 => DaysBefore(d.month) >= 31
          BY <1>1, Months
        <5>3. d.month % 12 = 0 => d.dom > 3
          BY <1>1, <2>5, YearStarts
        <5>. QED
          BY <1>1, <1>2, <5>1, <5>2, <5>3 DEF DayOfYear
      <4>. QED
        BY <4>1, <4>2
    <3>3. t >= 1 /\ t + 7 <= L /\ InWeek(t, d.week)
      BY <1>1, <1>2, <1>3, <3>1, <3>2
    <3>4. InWeek(Thursday(e), e.week) /\ e.week \in 1 .. 53
      BY <1>1, <1>2, <1>3, <3>1, <3>3 DEF InWeek
    <3>5. IsWeekOf(e)
      BY <1>2, <1>3, <2>1, <3>1, <3>3, <3>4 DEF IsWeekOf
    <3>. QED
      BY <1>1, <1>4, <1>5, <2>1, <3>4, <3>5 DEF InCalendar, Day
  <2>. QED
    BY <2>3, <2>4, <2>5
<1>. QED
  BY <1>6, <1>7

-----------------------------------------------------------------------------
(***************************************************************************)
(* Two days.  e follows s: as many weeks have passed as their numbers say, *)
(* or, when a year has begun in between, at least that many and 52; and as *)
(* many days as their dates say, of months of at least 28 days.            *)
(***************************************************************************)
WeeksPass(s, e) ==
    LET days == (e.day - e.weekday) - (s.day - s.weekday) IN
    \/ days = 7 * (e.week - s.week)
    \/ days >= 7 * (52 + e.week - s.week)

MonthsPass(s, e) ==
    \/ e.month = s.month /\ e.day - s.day = e.dom - s.dom
    \/ /\ e.month > s.month
       /\ e.day - s.day >= (DaysIn(s.month) - s.dom) + e.dom
                               + 28 * (e.month - s.month - 1)

Follows(s, e) == WeeksPass(s, e) /\ MonthsPass(s, e)

LEMMA WeekLater ==
    ASSUME NEW a \in Int, NEW b \in Int
    PROVE  /\ 7 * ((a + 1) - b) = 7 * (a - b) + 7
           /\ 7 * (52 + (a + 1) - b) = 7 * (52 + a - b) + 7
           /\ 7 * (a - b) \in Int /\ 7 * (52 + a - b) \in Int
  OBVIOUS

LEMMA TwentyEightMore == \A n \in Int : 28 * n \in Int /\ 28 * (n + 1) = 28 * n + 28
  OBVIOUS

LEMMA FollowsItself == ASSUME NEW d, InCalendar(d) PROVE Follows(d, d)
  BY DEF InCalendar, Day, Follows, WeeksPass, MonthsPass

LEMMA TomorrowFollows ==
    ASSUME NEW s, InCalendar(s), NEW d, InCalendar(d), Follows(s, d)
    PROVE  Follows(s, NextDay(d))
<1>. DEFINE e == NextDay(d)
<1>1. /\ s.day \in Nat /\ s.weekday \in 1 .. 7 /\ s.week \in 1 .. 53
      /\ s.month \in Nat /\ s.dom \in 1 .. 31 /\ s.dom <= DaysIn(s.month)
      /\ d.day \in Nat /\ d.weekday \in 1 .. 7 /\ d.week \in 1 .. 53
      /\ d.month \in Nat /\ d.dom \in 1 .. 31 /\ d.dom <= DaysIn(d.month)
  BY DEF InCalendar, Day
<1>2. DaysIn(s.month) \in 28 .. 31 /\ DaysIn(d.month) \in 28 .. 31
  BY <1>1, Months
<1>0. e.day = d.day + 1
  BY DEF NextDay
<1>3. /\ e.day = d.day + 1 /\ e.weekday = (d.weekday % 7) + 1
      /\ e.week = IF d.weekday # 7 THEN d.week
                  ELSE IF StartsYear(d) THEN 1 ELSE d.week + 1
  BY DEF NextDay
<1>4. WeeksPass(s, e)
  <2>. DEFINE days == (d.day - d.weekday) - (s.day - s.weekday)
  <2>1. days \in Int /\ (days = 7 * (d.week - s.week) \/ days >= 7 * (52 + d.week - s.week))
    BY <1>1 DEF Follows, WeeksPass
  <2>2. CASE d.weekday # 7
    <3>1. (e.day - e.weekday) - (s.day - s.weekday) = days /\ e.week = d.week
      BY <1>1, <1>3, <2>2
    <3>. QED
      BY <2>1, <3>1 DEF WeeksPass
  <2>3. CASE d.weekday = 7
    <3>1. (e.day - e.weekday) - (s.day - s.weekday) = days + 7
      BY <1>1, <1>3, <2>3
    <3>2. e.week = d.week + 1 \/ (e.week = 1 /\ d.week >= 52)
      BY <1>3, <2>3, YearsAreLong
    <3>. HIDE DEF days
    <3>3. CASE e.week = d.week + 1
      <4>1. \/ days + 7 = 7 * (e.week - s.week)
            \/ days + 7 >= 7 * (52 + e.week - s.week)
        <5>. HIDE DEF e
        <5>1. d.week \in Int /\ s.week \in Int
          BY <1>1
        <5>2. /\ 7 * (e.week - s.week) = 7 * (d.week - s.week) + 7
              /\ 7 * (52 + e.week - s.week) = 7 * (52 + d.week - s.week) + 7
              /\ 7 * (d.week - s.week) \in Int /\ 7 * (52 + d.week - s.week) \in Int
          BY <3>3, <5>1, WeekLater
        <5>. QED
          BY <2>1, <5>2
      <4>. QED
        BY <3>1, <4>1 DEF WeeksPass
    <3>4. CASE e.week = 1 /\ d.week >= 52
      <4>1. days + 7 >= 7 * (52 + e.week - s.week)
        BY <1>1, <2>1, <3>4
      <4>. QED
        BY <3>1, <4>1 DEF WeeksPass
    <3>. QED
      BY <3>2, <3>3, <3>4
  <2>. QED
    BY <1>1, <2>2, <2>3
<1>5. MonthsPass(s, e)
  <2>1. \/ e.month = d.month /\ e.dom = d.dom + 1
        \/ e.month = d.month + 1 /\ e.dom = 1 /\ d.dom = DaysIn(d.month)
    BY <1>1, <1>2 DEF NextDay, Normalized
  <2>2. \/ d.month = s.month /\ d.day - s.day = d.dom - s.dom
        \/ /\ d.month > s.month
           /\ d.day - s.day >= (DaysIn(s.month) - s.dom) + d.dom
                                   + 28 * (d.month - s.month - 1)
    BY DEF Follows, MonthsPass
  <2>3. e.day \in Int /\ e.dom \in Int /\ e.month \in Int
    BY <1>1, <1>0, <2>1
  <2>. HIDE DEF e
  <2>4. CASE e.month = d.month /\ e.dom = d.dom + 1
    <3>1. CASE d.month = s.month
      <4>1. d.day - s.day = d.dom - s.dom
        BY <1>1, <2>2, <3>1
      <4>2. e.day - s.day = e.dom - s.dom
        <5>1. e.day - s.day = (d.day - s.day) + 1
          BY <1>0, <1>1
        <5>2. e.dom - s.dom = (d.dom - s.dom) + 1
          BY <1>1, <2>4
        <5>. QED
          BY <4>1, <5>1, <5>2
      <4>. QED
        BY <2>4, <3>1, <4>2 DEF MonthsPass
    <3>2. CASE d.month # s.month
      <4>1. /\ d.month > s.month
            /\ d.day - s.day >= (DaysIn(s.month) - s.dom) + d.dom
                                    + 28 * (d.month - s.month - 1)
        BY <2>2, <3>2
      <4>2. e.day - s.day = (d.day - s.day) + 1 /\ d.day - s.day \in Int
        BY <1>0, <1>1
      <4>. DEFINE left == DaysIn(s.month) - s.dom
                  between == d.month - s.month - 1
      <4>3. left \in Int /\ between \in Int /\ e.month - s.month - 1 = between
        BY <1>1, <1>2, <2>4
      <4>4. d.day - s.day >= left + d.dom + 28 * between /\ 28 * between \in Int
        BY <4>1, <4>3, TwentyEightMore
      <4>5. e.day - s.day >= left + e.dom + 28 * between
        <5>. HIDE DEF left, between
        <5>. QED
          BY <1>1, <2>4, <4>2, <4>3, <4>4
      <4>. QED
        BY <1>1, <2>4, <4>1, <4>3, <4>5 DEF MonthsPass
    <3>. QED
      BY <3>1, <3>2
  <2>5. CASE e.month = d.month + 1 /\ e.dom = 1 /\ d.dom = DaysIn(d.month)
    <3>1. CASE d.month = s.month
      BY <1>1, <1>2, <1>0, <2>2, <2>5, <3>1 DEF MonthsPass
    <3>2. CASE d.month # s.month
      <4>1. /\ d.month > s.month
            /\ d.day - s.day >= (DaysIn(s.month) - s.dom) + d.dom
                                    + 28 * (d.month - s.month - 1)
        BY <2>2, <3>2
      <4>2. e.day - s.day = (d.day - s.day) + 1 /\ d.day - s.day \in Int
        BY <1>0, <1>1
      <4>. DEFINE left == DaysIn(s.month) - s.dom
                  between == d.month - s.month - 1
      <4>3. /\ left \in Int /\ between \in Int /\ e.month - s.month - 1 = between + 1
            /\ d.dom \in Int /\ d.dom >= 28 /\ e.dom = 1
        BY <1>1, <1>2, <2>5
      <4>4. /\ d.day - s.day >= left + d.dom + 28 * between /\ 28 * between \in Int
            /\ 28 * (between + 1) = 28 * between + 28
        BY <4>1, <4>3, TwentyEightMore
      <4>5. e.day - s.day >= left + e.dom + 28 * (between + 1)
        <5>. HIDE DEF left, between
        <5>. QED
          BY <4>2, <4>3, <4>4
      <4>. QED
        BY <1>1, <2>5, <4>1, <4>3, <4>5 DEF MonthsPass
    <3>. QED
      BY <3>1, <3>2
  <2>. QED
    BY <2>1, <2>4, <2>5
<1>. QED
  BY <1>4, <1>5 DEF Follows

(***************************************************************************)
(* A backup that is not recent is at least 28 days old for each month that *)
(* is kept.                                                                *)
(***************************************************************************)
LEMMA OldMonthly ==
    ASSUME NEW s, InCalendar(s), NEW d, InCalendar(d), Follows(s, d),
           NEW n \in Nat \ {0}, ~IsAfter(s, AddMonths(d, -n))
    PROVE  d.day - s.day >= 28 * n
<1>1. /\ s.day \in Nat /\ s.month \in Nat /\ s.dom \in 1 .. 31 /\ s.dom <= DaysIn(s.month)
      /\ d.day \in Nat /\ d.month \in Nat /\ d.dom \in 1 .. 31 /\ d.dom <= DaysIn(d.month)
  BY DEF InCalendar, Day
<1>. DEFINE back == d.month + -n
<1>2. /\ back \in Int /\ back = d.month - n
      /\ DaysIn(back) \in 28 .. 31 /\ DaysIn(s.month) \in 28 .. 31
  BY <1>1, MonthLengths
<1>. DEFINE months == d.month - s.month
            gap == (DaysIn(s.month) - s.dom) + d.dom
<1>3. /\ months \in Int /\ gap \in Int /\ gap >= d.dom
      /\ months = 0 => d.day - s.day = d.dom - s.dom
      /\ months # 0 => months > 0 /\ d.day - s.day >= gap + 28 * (months - 1)
  <2>1. \/ d.month = s.month /\ d.day - s.day = d.dom - s.dom
        \/ d.month > s.month /\ d.day - s.day >= gap + 28 * (months - 1)
    BY DEF Follows, MonthsPass
  <2>2. /\ months \in Int
        /\ d.month = s.month <=> months = 0
        /\ d.month > s.month <=> months > 0
    <3>1. d.month \in Int /\ s.month \in Int
      BY <1>1
    <3>. QED
      BY <3>1
  <2>3. gap \in Int /\ gap >= d.dom
    BY <1>1, <1>2
  <2>. HIDE DEF gap, months
  <2>. QED
    BY <2>1, <2>2, <2>3
<1>4. ASSUME months = n, gap >= 28 PROVE d.day - s.day >= 28 * n
  <2>1. d.day - s.day >= gap + 28 * (n - 1) /\ 28 * n = 28 * (n - 1) + 28
    BY <1>3, <1>4, TwentyEightMore
  <2>2. 28 * (n - 1) \in Int /\ d.day - s.day \in Int
    BY <1>1
  <2>. HIDE DEF gap
  <2>. QED
    BY <1>3, <1>4, <2>1, <2>2
<1>5. ASSUME months > n PROVE d.day - s.day >= 28 * n
  <2>1. d.day - s.day >= gap + 28 * (months - 1) /\ 28 * (months - 1) >= 28 * n
    BY <1>3, <1>5
  <2>2. 28 * (months - 1) \in Int /\ 28 * n \in Int /\ d.day - s.day \in Int /\ gap >= 0
    BY <1>1, <1>3
  <2>. HIDE DEF gap, months
  <2>. QED
    BY <1>3, <2>1, <2>2
<1>6. CASE d.dom > DaysIn(back)
  <2>1. AddMonths(d, -n) = [month |-> back + 1, dom |-> d.dom - DaysIn(back)]
    BY <1>6 DEF AddMonths, Normalized
  <2>2. \/ months > n
        \/ months = n /\ s.month = back
        \/ months = n - 1 /\ s.dom <= d.dom - DaysIn(back)
    BY <1>1, <1>2, <2>1 DEF IsAfter
  <2>3. CASE months = n /\ s.month = back
    <3>1. gap >= 28
      BY <1>1, <1>2, <1>6, <2>3
    <3>. QED
      BY <1>4, <2>3, <3>1
  <2>4. CASE months = n - 1 /\ s.dom <= d.dom - DaysIn(back)
    <3>1. CASE n = 1
      BY <1>1, <1>2, <1>3, <2>4, <3>1
    <3>2. CASE n # 1
      <4>1. d.day - s.day >= gap + 28 * (n - 2) /\ gap >= 56
        BY <1>1, <1>2, <1>3, <2>4, <3>2
      <4>2. 28 * n = 28 * (n - 2) + 56 /\ 28 * (n - 2) \in Int /\ d.day - s.day \in Int
        BY <1>1
      <4>. HIDE DEF gap
      <4>. QED
        BY <1>3, <4>1, <4>2
    <3>. QED
      BY <3>1, <3>2
  <2>. QED
    BY <1>5, <2>2, <2>3, <2>4
<1>7. CASE ~(d.dom > DaysIn(back))
  <2>1. AddMonths(d, -n) = [month |-> back, dom |-> d.dom]
    BY <1>7 DEF AddMonths, Normalized
  <2>2. months > n \/ (months = n /\ s.dom <= d.dom)
    BY <1>1, <1>2, <2>1 DEF IsAfter
  <2>3. CASE months = n /\ s.dom <= d.dom
    <3>1. gap >= 28
      BY <1>1, <1>2, <2>3
    <3>. QED
      BY <1>4, <2>3, <3>1
  <2>. QED
    BY <1>5, <2>2, <2>3
<1>. QED
  BY <1>6, <1>7

-----------------------------------------------------------------------------
(***************************************************************************)
(* When cron is left to choose the rotation: every day a backup or a run   *)
(* bears is one of the calendar and not ahead, weekly backups are of the   *)
(* weekday, and monthly backups of the day of the month, of the settings.  *)
(***************************************************************************)
Stamps == {today, stamp} \cup {f.stamp : f \in files}

DaysFollow ==
    /\ \A s \in Stamps : InCalendar(s) /\ s.day <= today.day
    /\ \A s, e \in Stamps : s.day <= e.day => Follows(s, e)

OnSchedule(r, s) ==
    /\ r = "weekly" => s.weekday = IF IsSunday(DoWeekly) THEN 7 ELSE DoWeekly
    /\ r = "monthly" => s.dom = DoMonthly

ScheduleInv ==
    /\ DaysFollow
    /\ OnSchedule(rotation, stamp)
    /\ \A f \in files : OnSchedule(f.rotation, f.stamp) /\ f.stamp.day <= stamp.day

\* No step but Midnight and Start makes a day known or a run a new one.
Chosen == Commands = {"auto"} /\ InCalendar(FirstDay)

LEMMA FilesOfSteps ==
    ASSUME [BackupNext]_backupVars
    PROVE  \/ \E command \in Commands : Start(command)
           \/ Midnight
           \/ /\ UNCHANGED <<today, setting>>
              /\ \A f \in files' \ files : \E form : f = NewFile(form)
<1>1. CASE \/ StartFails \/ ListDatabases \/ ListFails \/ TypeDone
           \/ Rotate \/ RotateFails \/ MkdirFails
           \/ Export \/ ExportFails \/ Compress \/ CompressFails
           \/ StartCleanup \/ CleanupDaily \/ CleanupDailyFails \/ Stop
           \/ UNCHANGED backupVars
  BY <1>1 DEF StartFails, ListDatabases, ListFails, TypeDone, Rotate, RotateFails,
     MkdirFails, Export, ExportFails, Compress, CompressFails, StartCleanup,
     CleanupDaily, CleanupDailyFails, Stop, backupVars
<1>2. CASE CleanupMonthly
  BY <1>2 DEF CleanupMonthly, Candidates, Monthly
<1>. QED
  BY <1>1, <1>2 DEF BackupNext

LEMMA ScheduleStep ==
    ASSUME Chosen, ScheduleInv, [BackupNext]_backupVars
    PROVE  ScheduleInv'
<1>1. CASE \E command \in Commands : Start(command)
  <2>1. Start("auto")
    BY <1>1 DEF Chosen
  <2>2. /\ rotation' = Rotation("auto") /\ stamp' = today
        /\ UNCHANGED <<today, files>>
    BY <2>1 DEF Start
  <2>3. OnSchedule(Rotation("auto"), today)
    <3>1. today.weekday \in 1 .. 7
      BY DEF ScheduleInv, DaysFollow, Stamps, InCalendar, Day
    <3>. QED
      BY <3>1, SettingsAssumption DEF Rotation, OnSchedule, IsSunday
  <2>4. Stamps' \subseteq Stamps
    BY <2>2 DEF Stamps
  <2>5. DaysFollow'
    BY <2>2, <2>4 DEF ScheduleInv, DaysFollow
  <2>6. \A f \in files : f.stamp \in Stamps
    BY DEF Stamps
  <2>7. \A f \in files' : OnSchedule(f.rotation, f.stamp) /\ f.stamp.day <= stamp'.day
    BY <2>2, <2>6 DEF ScheduleInv, DaysFollow
  <2>. QED
    BY <2>2, <2>3, <2>5, <2>7 DEF ScheduleInv, OnSchedule
<1>2. CASE Midnight
  <2>1. today' = NextDay(today) /\ UNCHANGED <<files, stamp, rotation>>
    BY <1>2 DEF Midnight, setting
  <2>2. /\ today \in Stamps /\ Stamps' \subseteq Stamps \cup {today'}
    BY <2>1 DEF Stamps
  <2>3. /\ InCalendar(today) /\ InCalendar(today') /\ today'.day = today.day + 1
        /\ today.day \in Nat
    BY <2>1, <2>2, TomorrowInCalendar DEF ScheduleInv, DaysFollow, NextDay, InCalendar, Day
  <2>4. \A s \in Stamps : InCalendar(s) /\ s.day \in Nat /\ s.day <= today.day
    BY DEF ScheduleInv, DaysFollow, InCalendar, Day
  <2>5. \A s \in Stamps : Follows(s, today')
    BY <2>1, <2>2, <2>3, <2>4, TomorrowFollows DEF ScheduleInv, DaysFollow
  <2>6. Follows(today', today')
    BY <2>3, FollowsItself
  <2>7. DaysFollow'
    <3>1. \A s \in Stamps' : InCalendar(s) /\ s.day <= today'.day
      BY <2>2, <2>3, <2>4
    <3>2. ASSUME NEW s \in Stamps', NEW e \in Stamps', s.day <= e.day
          PROVE  Follows(s, e)
      <4>1. CASE e = today'
        BY <2>2, <2>5, <2>6, <4>1
      <4>2. CASE e # today'
        <5>1. e \in Stamps /\ s # today'
          BY <2>2, <2>3, <2>4, <3>2, <4>2
        <5>. QED
          BY <2>2, <3>2, <5>1 DEF ScheduleInv, DaysFollow
      <4>. QED
        BY <4>1, <4>2
    <3>. QED
      BY <3>1, <3>2 DEF DaysFollow
  <2>. QED
    BY <2>1, <2>7 DEF ScheduleInv, OnSchedule
<1>3. CASE /\ UNCHANGED <<today, setting>>
           /\ \A f \in files' \ files : \E form : f = NewFile(form)
  <2>1. \A f \in files' \ files : f.stamp = stamp /\ f.rotation = rotation
    BY <1>3 DEF NewFile
  <2>2. /\ UNCHANGED <<today, stamp, rotation>> /\ Stamps' \subseteq Stamps
    BY <1>3, <2>1 DEF Stamps, setting
  <2>3. stamp.day <= stamp.day
    BY DEF ScheduleInv, DaysFollow, Stamps, InCalendar, Day
  <2>4. DaysFollow'
    BY <2>2 DEF ScheduleInv, DaysFollow
  <2>. QED
    BY <2>1, <2>2, <2>3, <2>4 DEF ScheduleInv, OnSchedule
<1>. QED
  BY <1>1, <1>2, <1>3, FilesOfSteps

LEMMA ScheduleStarts == ASSUME Chosen, BackupInit PROVE ScheduleInv
<1>1. Stamps = {FirstDay}
  BY DEF BackupInit, Stamps
<1>2. FirstDay.day <= FirstDay.day
  BY DEF Chosen, InCalendar, Day
<1>3. DaysFollow
  BY <1>1, <1>2, FollowsItself DEF DaysFollow, Chosen, BackupInit
<1>. QED
  BY <1>3 DEF BackupInit, ScheduleInv, OnSchedule

(***************************************************************************)
(* The weekly rotation removes no backup that is younger than the weeks    *)
(* that are kept, less one across the end of a year.                       *)
(***************************************************************************)
LEMMA ReplacedWeeklies ==
    ASSUME ScheduleInv, KeepWeeklyNum <= 52, NEW f \in Replaced, f.rotation = "weekly"
    PROVE  stamp.day - f.stamp.day >= 7 * KeptWeeks(f)
<1>. DEFINE s == f.stamp
            K == KeepWeeklyNum
<1>1. f \in files /\ rotation = "weekly" /\ s.week = RemWeek(stamp.week)
  BY DEF Replaced, IsCurrent
<1>2. s.weekday = stamp.weekday
  BY <1>1 DEF ScheduleInv, OnSchedule
<1>3. /\ s \in Stamps /\ stamp \in Stamps /\ s.day <= stamp.day
  BY <1>1 DEF Stamps, ScheduleInv
<1>4. /\ s.day \in Nat /\ s.weekday \in 1 .. 7 /\ s.week \in 1 .. 53
      /\ stamp.day \in Nat /\ stamp.weekday \in 1 .. 7 /\ stamp.week \in 1 .. 53
  BY <1>3 DEF ScheduleInv, DaysFollow, InCalendar, Day
<1>5. WeeksPass(s, stamp)
  BY <1>3 DEF ScheduleInv, DaysFollow, Follows
<1>6. \/ stamp.day - s.day = 7 * (stamp.week - s.week)
      \/ stamp.day - s.day >= 7 * (52 + stamp.week - s.week)
  BY <1>2, <1>4, <1>5 DEF WeeksPass
<1>7. K \in Nat \ {0} /\ K <= 52
  BY SettingsAssumption
<1>8. s.week = IF stamp.week <= K THEN 53 - K + stamp.week ELSE stamp.week - K
  BY <1>1 DEF RemWeek
<1>. HIDE DEF s, K
<1>9. stamp.day - s.day >= 7 * (IF s.week < stamp.week THEN K ELSE K - 1)
  BY <1>3, <1>4, <1>6, <1>7, <1>8
<1>. QED
  BY <1>9 DEF s, K, KeptWeeks

LEMMA WeeklyIsOld ==
    ASSUME ScheduleInv, KeepWeeklyNum <= 52, [BackupNext]_backupVars,
           NEW f \in files \ files', f.rotation = "weekly", f.form = "gz"
    PROVE  f \in Replaced /\ today' = today
<1>1. CASE Rotate
  BY <1>1 DEF Rotate
<1>2. CASE Compress
  BY <1>2 DEF Compress, NewFile
<1>3. CASE CleanupMonthly
  BY <1>3 DEF CleanupMonthly, Monthly
<1>4. CASE CleanupDaily
  BY <1>4 DEF CleanupDaily
<1>5. CASE files \subseteq files'
  BY <1>5
<1>6. CleanupMonthly \/ Rotate \/ Compress \/ CleanupDaily \/ files \subseteq files'
  BY DEF BackupNext, Start, StartFails, ListDatabases, ListFails, TypeDone, RotateFails,
     MkdirFails, Export, ExportFails, CompressFails, StartCleanup, CleanupDailyFails,
     Stop, Midnight, backupVars
<1>. QED
  BY <1>1, <1>2, <1>3, <1>4, <1>5, <1>6

(***************************************************************************)
(* A weekly backup stays for the weeks that are kept, less one across the  *)
(* end of a year, from every first day of the calendar and with all        *)
(* settings that keep at most a year, when the rotation is left to the     *)
(* program.                                                                *)
(***************************************************************************)
THEOREM WeekliesRetained ==
    ASSUME Commands = {"auto"}, InCalendar(FirstDay), KeepWeeklyNum <= 52
    PROVE  BackupSpec => WeekliesLive
<1>1. BackupInit => ScheduleInv
  BY ScheduleStarts DEF Chosen
<1>2. ScheduleInv /\ [BackupNext]_backupVars => ScheduleInv'
  BY ScheduleStep DEF Chosen
<1>3. ScheduleInv /\ [BackupNext]_backupVars =>
          [\A f \in files \ files' :
              f.rotation = "weekly" /\ f.form = "gz"
                 => stamp.day - f.stamp.day >= 7 * KeptWeeks(f)]_backupVars
  BY WeeklyIsOld, ReplacedWeeklies
<1>. QED
  BY <1>1, <1>2, <1>3, PTL DEF BackupSpec, WeekliesLive

-----------------------------------------------------------------------------
(***************************************************************************)
(* A backup always remains.  What cron and the settings have to be for it: *)
(* one run a day that chooses its rotation, lists that name nothing twice, *)
(* weekly and monthly backups that are kept for longer than daily ones,    *)
(* and fewer troubles than daily backups are kept.                         *)
(***************************************************************************)
NoRepeats(s) == \A i, j \in DOMAIN s : s[i] = s[j] => i = j

Cron ==
    /\ Commands = {"auto"} /\ RunsPerDay = 1 /\ InCalendar(FirstDay)
    /\ NoRepeats(Types) /\ \A t \in TypeNames : NoRepeats(Databases[t])

KeptForLonger ==
    /\ KeepWeeklyNum <= 52
    /\ KeepDailyDays < 7 * (KeepWeeklyNum - 1)
    /\ KeepDailyDays < 28 * KeepMonthlyNum

(***************************************************************************)
(* Of a database and a day there are compressed backups only, or none that *)
(* are: a run exports a database once.                                     *)
(***************************************************************************)
ToDo(t, db) ==
    CASE phase = "types" -> InSeq(t, types)
      [] phase \in {"databases", "export"} ->
            InSeq(t, Tail(types)) \/ (t = Head(types) /\ InSeq(db, queue))
      [] phase = "compress" ->
            InSeq(t, Tail(types)) \/ (t = Head(types) /\ InSeq(db, Tail(queue)))
      [] OTHER -> FALSE

ListsInv ==
    /\ NoRepeats(types) /\ NoRepeats(queue)
    /\ phase \in InType => \A db : InSeq(db, queue) => InSeq(db, Databases[Head(types)])

DaysInv ==
    /\ runs \in Nat
    /\ FirstDay.day <= stamp.day /\ stamp.day <= today.day
    /\ runs = 0 => \A f \in files : f.stamp.day < today.day
    /\ runs = 0 /\ phase # "idle" => stamp.day < today.day

OfRun(f) == f.stamp.day = stamp.day

FilesInv ==
    /\ \A f \in files : /\ f.type \in TypeNames /\ InSeq(f.db, Databases[f.type])
                        /\ FirstDay.day <= f.stamp.day
    /\ \A f \in files : OfRun(f) => ~ToDo(f.type, f.db)
    /\ phase = "compress" =>
          \A f \in files : OfRun(f) /\ f.type = Head(types) /\ f.db = Head(queue)
                              => f = NewFile("plain")
    /\ \A f, g \in files :
          f.type = g.type /\ f.db = g.db /\ f.stamp.day = g.stamp.day /\ f.form = "gz"
             => g.form = "gz"

OnceInv == ListsInv /\ DaysInv /\ FilesInv

LEMMA TailRepeatsNothing ==
    ASSUME NEW S, NEW s \in Seq(S), s # <<>>, NoRepeats(s)
    PROVE  NoRepeats(Tail(s)) /\ ~InSeq(Head(s), Tail(s))
<1>1. /\ Len(s) \in Nat \ {0} /\ Head(s) = s[1] /\ 1 \in DOMAIN s
      /\ DOMAIN s = 1 .. Len(s) /\ DOMAIN Tail(s) = 1 .. Len(s) - 1
      /\ \A i \in 1 .. Len(s) - 1 : Tail(s)[i] = s[i + 1]
  OBVIOUS
<1>2. ASSUME NEW i \in DOMAIN Tail(s), NEW j \in DOMAIN Tail(s), Tail(s)[i] = Tail(s)[j]
      PROVE  i = j
  <2>1. i + 1 \in DOMAIN s /\ j + 1 \in DOMAIN s /\ s[i + 1] = s[j + 1]
    BY <1>1, <1>2
  <2>2. i + 1 = j + 1
    BY <2>1 DEF NoRepeats
  <2>. QED
    BY <1>1, <2>2
<1>3. ASSUME NEW i \in DOMAIN Tail(s), Tail(s)[i] = Head(s) PROVE FALSE
  <2>1. i + 1 \in DOMAIN s /\ s[i + 1] = s[1] /\ i + 1 # 1
    BY <1>1, <1>3
  <2>. QED
    BY <1>1, <2>1 DEF NoRepeats
<1>. QED
  BY <1>2, <1>3 DEF NoRepeats, InSeq

(***************************************************************************)
(* The lists.                                                              *)
(***************************************************************************)
LEMMA ListsStep ==
    ASSUME Cron, RunInv, ListsInv, [BackupNext]_backupVars
    PROVE  ListsInv'
<1>1. NoRepeats(<<>>) /\ \A db : ~InSeq(db, <<>>)
  BY NothingInEmpty DEF NoRepeats
<1>2. types # <<>> => NoRepeats(Tail(types)) /\ Head(types) \in TypeNames
  BY TailRepeatsNothing, HeadOrTail DEF RunInv, PlacesAgree, ListsInv
<1>3. queue # <<>> => /\ NoRepeats(Tail(queue))
                      /\ \A db : InSeq(db, Tail(queue)) => InSeq(db, queue)
  BY TailRepeatsNothing, HeadOrTail DEF RunInv, PlacesAgree, ListsInv
<1>4. CASE \E command \in Commands : Start(command)
  BY <1>1, <1>4 DEF Start, Cron, ListsInv, InType
<1>5. CASE StartFails \/ Midnight \/ UNCHANGED backupVars
  BY <1>5 DEF StartFails, Midnight, backupVars, ListsInv
<1>6. CASE ListDatabases
  BY <1>2, <1>6 DEF ListDatabases, ListsInv, Cron
<1>7. CASE ListFails \/ MkdirFails \/ ExportFails \/ CompressFails
  <2>1. SkipType /\ types # <<>>
    BY <1>7 DEF ListFails, MkdirFails, ExportFails, CompressFails, RunInv, PlacesAgree, InType
  <2>. QED
    BY <1>1, <1>2, <2>1 DEF SkipType, ListsInv, InType
<1>8. CASE TypeDone
  <2>1. types # <<>>
    BY <1>8 DEF TypeDone, RunInv, PlacesAgree, InType
  <2>. QED
    BY <1>2, <1>8, <2>1 DEF TypeDone, ListsInv, InType
<1>9. CASE Compress
  <2>1. queue # <<>>
    BY <1>9 DEF Compress, RunInv, PlacesAgree
  <2>. QED
    BY <1>3, <1>9, <2>1 DEF Compress, ListsInv, InType
<1>10. CASE Rotate \/ RotateFails \/ Export
  BY <1>10 DEF Rotate, RotateFails, Export, ListsInv, InType
<1>11. CASE StartCleanup \/ CleanupDaily \/ CleanupDailyFails \/ CleanupMonthly \/ Stop
  BY <1>11 DEF StartCleanup, CleanupDaily, CleanupDailyFails, CleanupMonthly, Stop,
     ListsInv, InType
<1>. QED
  BY <1>4, <1>5, <1>6, <1>7, <1>8, <1>9, <1>10, <1>11 DEF BackupNext

(***************************************************************************)
(* The days.                                                               *)
(***************************************************************************)
LEMMA DaysStep ==
    ASSUME Cron, ScheduleInv, DaysInv, [BackupNext]_backupVars
    PROVE  DaysInv'
<1>1. /\ today.day \in Nat /\ stamp.day \in Nat /\ FirstDay.day \in Nat
      /\ \A f \in files : f.stamp.day \in Nat /\ f.stamp.day <= today.day
  BY DEF Cron, ScheduleInv, DaysFollow, Stamps, InCalendar, Day
<1>2. CASE \E command \in Commands : Start(command)
  <2>1. /\ runs' = runs + 1 /\ stamp' = today /\ UNCHANGED <<today, files>>
    BY <1>2 DEF Start
  <2>. QED
    BY <1>1, <2>1 DEF DaysInv
<1>3. CASE Midnight
  <2>1. /\ runs' = 0 /\ today'.day = today.day + 1 /\ UNCHANGED <<files, stamp>>
    BY <1>3 DEF Midnight, NextDay, setting
  <2>. QED
    BY <1>1, <2>1 DEF DaysInv
<1>4. CASE StartFails
  BY <1>4 DEF StartFails, DaysInv, setting
<1>5. CASE /\ UNCHANGED <<today, setting, runs>> /\ phase # "idle"
           /\ \A f \in files' \ files : \E form : f = NewFile(form)
  <2>1. \A f \in files' \ files : f.stamp = stamp
    BY <1>5 DEF NewFile
  <2>. QED
    BY <1>5, <2>1 DEF DaysInv, setting
<1>6. CASE UNCHANGED backupVars
  BY <1>6 DEF backupVars, setting, DaysInv
<1>7. CASE ~(\E command \in Commands : Start(command)) /\ ~Midnight /\ ~StartFails
           /\ ~(UNCHANGED backupVars)
  <2>1. UNCHANGED runs /\ phase # "idle"
    BY <1>7 DEF BackupNext, ListDatabases, ListFails, TypeDone, Rotate, RotateFails,
       MkdirFails, Export, ExportFails, Compress, CompressFails, StartCleanup,
       CleanupDaily, CleanupDailyFails, CleanupMonthly, Stop
  <2>. QED
    BY <1>5, <1>7, <2>1, FilesOfSteps
<1>. QED
  BY <1>2, <1>3, <1>4, <1>6, <1>7

(***************************************************************************)
(* The files.  Most steps remove files, at most, and leave no more to do.  *)
(***************************************************************************)
LEMMA FewerFiles ==
    ASSUME FilesInv, files' \subseteq files, UNCHANGED stamp, phase' # "compress",
           \A t, db : ToDo(t, db)' => ToDo(t, db)
    PROVE  FilesInv'
  BY DEF FilesInv, OfRun

LEMMA SkipLeavesLess ==
    ASSUME RunInv, ListsInv, SkipType, phase \in InType \cup {"types"}, types # <<>>
    PROVE  /\ \A t, db : ToDo(t, db)' => ToDo(t, db) /\ t # Head(types)
           /\ phase' # "compress"
<1>1. /\ ~InSeq(Head(types), Tail(types))
      /\ \A t : InSeq(t, types) <=> t = Head(types) \/ InSeq(t, Tail(types))
  BY HeadOrTail, TailRepeatsNothing DEF RunInv, PlacesAgree, ListsInv
<1>2. phase' = "types" /\ types' = Tail(types)
  BY DEF SkipType
<1>. QED
  BY <1>1, <1>2 DEF ToDo, InType

(***************************************************************************)
(* The current database has no files of this run before its export.        *)
(***************************************************************************)
LEMMA NothingExported ==
    ASSUME RunInv, FilesInv, phase = "export", NEW f \in files, OfRun(f)
    PROVE  ~(f.type = Head(types) /\ f.db = Head(queue))
<1>1. InSeq(Head(queue), queue)
  BY HeadOrTail DEF RunInv, PlacesAgree
<1>. QED
  BY <1>1 DEF FilesInv, ToDo

LEMMA CurrentIsListed ==
    ASSUME RunInv, ListsInv, DaysInv, phase \in {"export", "compress"}, NEW form
    PROVE  LET f == NewFile(form) IN
           /\ f.type = Head(types) /\ f.db = Head(queue) /\ f.stamp = stamp /\ f.form = form
           /\ f.type \in TypeNames /\ InSeq(f.db, Databases[f.type])
           /\ FirstDay.day <= f.stamp.day
<1>1. /\ Head(types) \in TypeNames /\ InSeq(Head(queue), queue)
  BY HeadOrTail DEF RunInv, PlacesAgree, InType
<1>2. InSeq(Head(queue), Databases[Head(types)])
  BY <1>1 DEF ListsInv, InType
<1>. QED
  BY <1>1, <1>2 DEF NewFile, DaysInv

\* A file of a run that is cut off while it is written.
LEMMA PartialFile ==
    ASSUME RunInv, OnceInv, phase = "export", UNCHANGED setting, phase' # "compress",
           files' = files \cup {NewFile("partial")},
           \A t, db : ToDo(t, db)' => ToDo(t, db) /\ t # Head(types)
    PROVE  FilesInv'
<1>. DEFINE n == NewFile("partial")
<1>1. /\ n.type = Head(types) /\ n.db = Head(queue) /\ n.stamp = stamp /\ n.form = "partial"
      /\ n.type \in TypeNames /\ InSeq(n.db, Databases[n.type])
      /\ FirstDay.day <= n.stamp.day
  BY CurrentIsListed DEF OnceInv
<1>2. \A f \in files : OfRun(f) => ~(f.type = n.type /\ f.db = n.db)
  BY <1>1, NothingExported DEF OnceInv
<1>3. stamp' = stamp
  BY DEF setting
<1>. HIDE DEF n
<1>4. files' = files \cup {n}
  BY DEF n
<1>. QED
  BY <1>1, <1>2, <1>3, <1>4 DEF OnceInv, FilesInv, OfRun

LEMMA ExportFiles ==
    ASSUME RunInv, OnceInv, Export
    PROVE  FilesInv'
<1>. DEFINE n == NewFile("plain")
<1>1. /\ n.type = Head(types) /\ n.db = Head(queue) /\ n.stamp = stamp /\ n.form = "plain"
      /\ n.type \in TypeNames /\ InSeq(n.db, Databases[n.type])
      /\ FirstDay.day <= n.stamp.day
  BY CurrentIsListed DEF OnceInv, Export
<1>2. \A f \in files : OfRun(f) => ~(f.type = n.type /\ f.db = n.db)
  BY <1>1, NothingExported DEF OnceInv, Export
<1>3. /\ phase = "export" /\ phase' = "compress" /\ files' = files \cup {n}
      /\ UNCHANGED <<stamp, types, queue>> /\ n' = n
  BY DEF Export, setting, NewFile
<1>4. /\ queue # <<>> /\ types # <<>>
      /\ ~InSeq(Head(queue), Tail(queue))
      /\ \A db : InSeq(db, queue) <=> db = Head(queue) \/ InSeq(db, Tail(queue))
      /\ ~InSeq(Head(types), Tail(types))
  BY <1>3, HeadOrTail, TailRepeatsNothing
     DEF RunInv, PlacesAgree, OnceInv, ListsInv, InType
<1>5. /\ \A t, db : ToDo(t, db)' => ToDo(t, db)
      /\ ~ToDo(n.type, n.db)'
  BY <1>1, <1>3, <1>4 DEF ToDo
<1>. HIDE DEF n
<1>6. \A f \in files' : /\ f.type \in TypeNames /\ InSeq(f.db, Databases[f.type])
                        /\ FirstDay.day <= f.stamp.day
  BY <1>1, <1>3 DEF OnceInv, FilesInv
<1>7. \A f \in files' : OfRun(f)' => ~ToDo(f.type, f.db)'
  BY <1>3, <1>5 DEF OnceInv, FilesInv, OfRun
<1>8. \A f \in files' : OfRun(f)' /\ f.type = Head(types) /\ f.db = Head(queue) => f = n
  BY <1>1, <1>2, <1>3 DEF OfRun
<1>9. \A f, g \in files' :
         f.type = g.type /\ f.db = g.db /\ f.stamp.day = g.stamp.day /\ f.form = "gz"
            => g.form = "gz"
  BY <1>1, <1>2, <1>3 DEF OnceInv, FilesInv, OfRun
<1>. QED
  BY <1>3, <1>6, <1>7, <1>8, <1>9 DEF FilesInv, n

LEMMA CompressFiles ==
    ASSUME RunInv, OnceInv, Compress
    PROVE  FilesInv'
<1>0. PICK n, p : n = NewFile("gz") /\ p = NewFile("plain")
  OBVIOUS
<1>1. /\ n.type = Head(types) /\ n.db = Head(queue) /\ n.stamp = stamp /\ n.form = "gz"
      /\ n.type \in TypeNames /\ InSeq(n.db, Databases[n.type])
      /\ FirstDay.day <= n.stamp.day
  BY <1>0, CurrentIsListed DEF OnceInv, Compress
<1>2. \A f \in files : OfRun(f) /\ f.type = n.type /\ f.db = n.db => f = p
  BY <1>0, <1>1 DEF OnceInv, FilesInv, Compress
<1>3. /\ phase = "compress" /\ phase' = "databases" /\ files' = (files \ {p}) \cup {n}
      /\ UNCHANGED <<stamp, types>> /\ queue' = Tail(queue)
  BY <1>0 DEF Compress, setting
<1>4. /\ ~InSeq(Head(queue), Tail(queue)) /\ ~InSeq(Head(types), Tail(types))
  BY <1>3, TailRepeatsNothing DEF RunInv, PlacesAgree, OnceInv, ListsInv, InType
<1>5. /\ \A t, db : ToDo(t, db)' => ToDo(t, db)
      /\ ~ToDo(n.type, n.db)'
  BY <1>1, <1>3, <1>4 DEF ToDo
<1>6. \A f \in files' : /\ f.type \in TypeNames /\ InSeq(f.db, Databases[f.type])
                        /\ FirstDay.day <= f.stamp.day
  BY <1>1, <1>3 DEF OnceInv, FilesInv
<1>7. \A f \in files' : OfRun(f)' => ~ToDo(f.type, f.db)'
  BY <1>3, <1>5 DEF OnceInv, FilesInv, OfRun
<1>8. \A f, g \in files' :
         f.type = g.type /\ f.db = g.db /\ f.stamp.day = g.stamp.day /\ f.form = "gz"
            => g.form = "gz"
  BY <1>1, <1>2, <1>3 DEF OnceInv, FilesInv, OfRun
<1>. QED
  BY <1>3, <1>6, <1>7, <1>8 DEF FilesInv

LEMMA FilesStep ==
    ASSUME Cron, RunInv, ScheduleInv, OnceInv, [BackupNext]_backupVars
    PROVE  FilesInv'
<1>. ListsInv /\ DaysInv /\ FilesInv
  BY DEF OnceInv
<1>1. CASE \E command \in Commands : Start(command)
  <2>1. /\ runs = 0 /\ stamp' = today /\ phase' = "types" /\ files' = files
    BY <1>1 DEF Start, Cron, DaysInv
  <2>2. \A f \in files' : ~OfRun(f)'
    <3>1. today.day \in Nat /\ \A f \in files : f.stamp.day \in Nat
      BY DEF ScheduleInv, DaysFollow, Stamps, InCalendar, Day
    <3>. QED
      BY <2>1, <3>1 DEF DaysInv, OfRun
  <2>. QED
    BY <2>1, <2>2 DEF FilesInv
<1>2. CASE StartFails \/ Midnight \/ UNCHANGED backupVars
  <2>1. UNCHANGED <<files, phase, setting, types, queue>>
    BY <1>2 DEF StartFails, Midnight, backupVars
  <2>. QED
    BY <2>1 DEF FilesInv, OfRun, ToDo, NewFile, setting
<1>3. CASE ListDatabases
  <2>1. /\ phase = "types" /\ phase' = "databases" /\ types # <<>>
        /\ UNCHANGED <<files, stamp, types>>
    BY <1>3 DEF ListDatabases, setting
  <2>2. \A t : InSeq(t, types) <=> t = Head(types) \/ InSeq(t, Tail(types))
    BY <2>1, HeadOrTail DEF RunInv, PlacesAgree
  <2>3. \A t, db : ToDo(t, db)' => ToDo(t, db)
    BY <2>1, <2>2 DEF ToDo
  <2>. QED
    BY <2>1, <2>3, FewerFiles
<1>4. CASE ListFails \/ MkdirFails \/ CompressFails
  <2>1. /\ SkipType /\ phase \in InType \cup {"types"} /\ types # <<>>
        /\ UNCHANGED <<files, stamp>>
    BY <1>4 DEF ListFails, MkdirFails, CompressFails, setting, InType, RunInv, PlacesAgree
  <2>. QED
    BY <2>1, SkipLeavesLess, FewerFiles
<1>5. CASE ExportFails
  <2>1. /\ SkipType /\ phase = "export" /\ types # <<>> /\ UNCHANGED setting
        /\ files' = files \/ files' = files \cup {NewFile("partial")}
    BY <1>5 DEF ExportFails, InType, RunInv, PlacesAgree
  <2>2. /\ \A t, db : ToDo(t, db)' => ToDo(t, db) /\ t # Head(types)
        /\ phase' # "compress" /\ stamp' = stamp
    BY <2>1, SkipLeavesLess DEF InType, setting
  <2>3. CASE files' = files
    BY <2>2, <2>3, FewerFiles
  <2>4. CASE files' = files \cup {NewFile("partial")}
    BY <2>1, <2>2, <2>4, PartialFile
  <2>. QED
    BY <2>1, <2>3, <2>4
<1>6. CASE TypeDone
  <2>1. /\ phase = "databases" /\ phase' = "types" /\ types' = Tail(types)
        /\ UNCHANGED <<files, stamp>>
    BY <1>6 DEF TypeDone, setting
  <2>2. \A t, db : ToDo(t, db)' => ToDo(t, db)
    BY <2>1 DEF ToDo
  <2>. QED
    BY <2>1, <2>2, FewerFiles
<1>7. CASE Rotate \/ RotateFails
  <2>1. /\ phase = "databases" /\ phase' = "export" /\ UNCHANGED <<stamp, types, queue>>
        /\ files' \subseteq files
    BY <1>7 DEF Rotate, RotateFails, setting
  <2>2. \A t, db : ToDo(t, db)' => ToDo(t, db)
    BY <2>1 DEF ToDo
  <2>. QED
    BY <2>1, <2>2, FewerFiles
<1>8. CASE StartCleanup \/ CleanupDaily \/ CleanupDailyFails \/ CleanupMonthly
  <2>1. phase' \in {"daily", "monthly", "idle"} /\ stamp' = stamp /\ files' \subseteq files
    BY <1>8 DEF StartCleanup, CleanupDaily, CleanupDailyFails, CleanupMonthly,
       Candidates, Monthly, setting
  <2>2. \A t, db : ~ToDo(t, db)'
    BY <2>1 DEF ToDo
  <2>. QED
    BY <2>1, <2>2, FewerFiles
<1>9. CASE Stop
  <2>1. phase' = "idle" /\ UNCHANGED setting /\ stamp' = stamp
    BY <1>9 DEF Stop, setting
  <2>2. \A t, db : ~ToDo(t, db)'
    BY <2>1 DEF ToDo
  <2>3. CASE files' = files
    BY <2>1, <2>2, <2>3, FewerFiles
  <2>4. CASE phase = "export" /\ files' = files \cup {NewFile("partial")}
    BY <2>1, <2>2, <2>4, PartialFile
  <2>. QED
    BY <1>9, <2>3, <2>4 DEF Stop
<1>. QED
  BY <1>1, <1>2, <1>3, <1>4, <1>5, <1>6, <1>7, <1>8, <1>9, ExportFiles, CompressFiles
     DEF BackupNext

LEMMA OnceStep ==
    ASSUME Cron, RunInv, ScheduleInv, OnceInv, [BackupNext]_backupVars
    PROVE  OnceInv'
  BY ListsStep, DaysStep, FilesStep DEF OnceInv

LEMMA OnceStarts == ASSUME Cron, BackupInit PROVE OnceInv
<1>1. ListsInv
  BY DEF BackupInit, ListsInv, NoRepeats, InType
<1>2. DaysInv
  BY DEF BackupInit, DaysInv, Cron, InCalendar, Day
<1>3. FilesInv
  BY DEF BackupInit, FilesInv
<1>. QED
  BY <1>1, <1>2, <1>3 DEF OnceInv

-----------------------------------------------------------------------------
(***************************************************************************)
(* What has a compressed backup stays backed up, or the backup is older    *)
(* than daily ones are kept.                                               *)
(***************************************************************************)
Holds(t, db, x) ==
    \E f \in files : f.type = t /\ f.db = db /\ f.form = "gz" /\ f.stamp.day = x

Complete(x) ==
    \A t \in TypeNames : \A i \in DOMAIN Databases[t] : Holds(t, Databases[t][i], x)

BeforeCleanup == phase \in InType \cup {"types", "daily"}

\* The day from which the next cleanup counts back, or the last one has.
Since == IF BeforeCleanup THEN stamp.day ELSE today.day

LEMMA MonthlyStays ==
    ASSUME ScheduleInv, FilesInv, KeptForLonger, CleanupMonthly,
           NEW f \in files, f.rotation = "monthly", f.form = "gz",
           today.day - f.stamp.day <= KeepDailyDays
    PROVE  Holds(f.type, f.db, f.stamp.day)'
<1>1. /\ f \in Monthly
      /\ f.stamp \in Stamps /\ today \in Stamps
      /\ \A g \in Monthly : g \in files /\ g.rotation = "monthly" /\ g.stamp \in Stamps
  BY DEF Monthly, Stamps
<1>2. /\ KeepMonthlyNum \in Nat \ {0} /\ KeepDailyDays \in Nat
  BY SettingsAssumption
<1>3. IsRecent(f)
  <2>1. /\ InCalendar(f.stamp) /\ InCalendar(today) /\ Follows(f.stamp, today)
    BY <1>1 DEF ScheduleInv, DaysFollow
  <2>2. f.stamp.day \in Nat /\ today.day \in Nat
    BY <2>1 DEF InCalendar, Day
  <2>3. CASE ~IsAfter(f.stamp, AddMonths(today, -KeepMonthlyNum))
    BY <1>2, <2>1, <2>2, <2>3, OldMonthly DEF KeptForLonger
  <2>. QED
    BY <2>3 DEF IsRecent, Cutoff
<1>4. ASSUME NEW g \in Monthly, SameMonth(f, g)
      PROVE  g.stamp.day = f.stamp.day /\ g.form = "gz"
  <2>1. g.stamp.month = f.stamp.month /\ g.stamp.dom = f.stamp.dom
    BY <1>1, <1>4 DEF SameMonth, ScheduleInv, OnSchedule
  <2>2. /\ f.stamp.day \in Nat /\ f.stamp.month \in Nat /\ f.stamp.dom \in Nat
        /\ g.stamp.day \in Nat
    BY <1>1 DEF ScheduleInv, DaysFollow, InCalendar, Day
  <2>3. MonthsPass(f.stamp, g.stamp) \/ MonthsPass(g.stamp, f.stamp)
    BY <1>1, <2>2 DEF ScheduleInv, DaysFollow, Follows
  <2>4. g.stamp.day = f.stamp.day
    BY <2>1, <2>2, <2>3 DEF MonthsPass
  <2>. QED
    BY <1>1, <1>4, <2>4 DEF FilesInv, SameMonth
<1>5. f \in Candidates
  <2>1. f.stamp.day \in Nat
    BY <1>1 DEF ScheduleInv, DaysFollow, InCalendar, Day
  <2>. QED
    BY <1>1, <1>3, <1>4, <2>1 DEF Candidates
<1>6. PICK kept \in SUBSET Candidates :
             /\ IF IsToday(f) THEN f \in kept
                              ELSE Cardinality({g \in kept : SameMonth(f, g)}) = 1
             /\ files' = (files \ Monthly) \cup kept
  BY <1>5 DEF CleanupMonthly
<1>7. PICK g \in kept : SameMonth(f, g)
  <2>1. CASE IsToday(f)
    BY <1>6, <2>1 DEF SameMonth
  <2>2. CASE ~IsToday(f)
    <3>. DEFINE Same == {g \in kept : SameMonth(f, g)}
    <3>1. Same # {}
      <4>1. Cardinality(Same) = 1
        BY <1>6, <2>2
      <4>. HIDE DEF Same
      <4>. QED
        BY <4>1, FS_EmptySet
    <3>. QED
      BY <3>1
  <2>. QED
    BY <2>1, <2>2
<1>8. g \in Monthly /\ g \in files'
  BY <1>6 DEF Candidates
<1>. QED
  BY <1>4, <1>7, <1>8 DEF Holds, SameMonth

LEMMA BackupStays ==
    ASSUME ScheduleInv, FilesInv, KeptForLonger, [BackupNext]_backupVars,
           NEW f \in files, f.form = "gz"
    PROVE  \/ Holds(f.type, f.db, f.stamp.day)'
           \/ CleanupDaily /\ today.day - f.stamp.day >= KeepDailyDays
           \/ Rotate /\ stamp.day - f.stamp.day > KeepDailyDays
           \/ CleanupMonthly /\ today.day - f.stamp.day > KeepDailyDays
<1>0. f.stamp.day \in Nat /\ stamp.day \in Nat /\ today.day \in Nat
  BY DEF ScheduleInv, DaysFollow, Stamps, InCalendar, Day
<1>1. CASE f \in files'
  BY <1>1 DEF Holds
<1>2. CASE f \notin files' /\ Rotate
  <2>1. f \in Replaced
    BY <1>2 DEF Rotate
  <2>2. f.rotation = "weekly"
    BY <2>1 DEF Replaced, IsCurrent
  <2>3. stamp.day - f.stamp.day >= 7 * KeptWeeks(f)
    BY <2>1, <2>2, ReplacedWeeklies DEF KeptForLonger
  <2>4. KeptWeeks(f) \in {KeepWeeklyNum, KeepWeeklyNum - 1}
    BY DEF KeptWeeks
  <2>. QED
    BY <1>0, <1>2, <2>3, <2>4, SettingsAssumption DEF KeptForLonger
<1>3. CASE f \notin files' /\ CleanupDaily
  BY <1>3 DEF CleanupDaily, IsOld
<1>4. CASE f \notin files' /\ CleanupMonthly
  <2>1. f.rotation = "monthly"
    BY <1>4 DEF CleanupMonthly, Monthly
  <2>. QED
    BY <1>0, <1>4, <2>1, MonthlyStays, SettingsAssumption
<1>5. CASE f \notin files' /\ Compress
  BY <1>5 DEF Compress, NewFile
<1>6. \/ CleanupMonthly \/ Rotate \/ Compress \/ CleanupDaily
      \/ files \subseteq files'
  BY DEF BackupNext, Start, StartFails, ListDatabases, ListFails, TypeDone, RotateFails,
     MkdirFails, Export, ExportFails, CompressFails, StartCleanup, CleanupDailyFails,
     Stop, Midnight, backupVars
<1>. QED
  BY <1>1, <1>2, <1>3, <1>4, <1>5, <1>6

\* A day from which everything is backed up remains one while it counts.
LEMMA CompleteStays ==
    ASSUME ScheduleInv, FilesInv, KeptForLonger, [BackupNext]_backupVars,
           NEW x \in Int, Complete(x), x >= Since - KeepDailyDays,
           CleanupDaily => x > today.day - KeepDailyDays
    PROVE  Complete(x)'
<1>0. /\ stamp.day \in Nat /\ today.day \in Nat /\ KeepDailyDays \in Nat
  BY SettingsAssumption DEF ScheduleInv, DaysFollow, Stamps, InCalendar, Day
<1>1. ASSUME NEW t \in TypeNames, NEW i \in DOMAIN Databases[t]
      PROVE  Holds(t, Databases[t][i], x)'
  <2>1. PICK f \in files : /\ f.type = t /\ f.db = Databases[t][i]
                           /\ f.form = "gz" /\ f.stamp.day = x
    BY DEF Complete, Holds
  <2>2. CASE Holds(f.type, f.db, f.stamp.day)'
    BY <2>1, <2>2
  <2>3. CASE CleanupDaily
    BY <1>0, <2>1, <2>2, <2>3, BackupStays DEF CleanupDaily, Rotate, CleanupMonthly
  <2>4. CASE Rotate
    <3>1. Since = stamp.day /\ ~CleanupDaily /\ ~CleanupMonthly
      BY <2>4 DEF Rotate, CleanupDaily, CleanupMonthly, Since, BeforeCleanup, InType
    <3>. QED
      BY <1>0, <2>1, <2>2, <2>4, <3>1, BackupStays
  <2>5. CASE CleanupMonthly
    <3>1. Since = today.day /\ ~CleanupDaily /\ ~Rotate
      BY <2>5 DEF Rotate, CleanupDaily, CleanupMonthly, Since, BeforeCleanup, InType
    <3>. QED
      BY <1>0, <2>1, <2>2, <2>5, <3>1, BackupStays
  <2>. QED
    BY <2>1, <2>2, <2>3, <2>4, <2>5, BackupStays
<1>. QED
  BY <1>1 DEF Complete

-----------------------------------------------------------------------------
(***************************************************************************)
(* Every day that counts has left a backup of everything, or is one of     *)
(* those on which something went wrong, of which there are at most as many *)
(* as there were troubles.  A failure is that of the day its run has       *)
(* begun; a midnight that passes during a run is one of the next day.      *)
(* Before a cleanup one day more counts, unless there is a backup of the   *)
(* day the run has begun.                                                  *)
(***************************************************************************)
Settled(x, bad) == x \in bad \/ Complete(x)

\* The day whose run has not come to its end.
IsOpen(x) ==
    \/ phase = "idle" /\ runs = 0 /\ x = today.day
    \/ BeforeCleanup /\ x = stamp.day

Accounted(bad) ==
    /\ IsFiniteSet(bad) /\ Cardinality(bad) <= troubles
    /\ \A x \in FirstDay.day .. today.day :
          x > Since - KeepDailyDays /\ ~IsOpen(x) => Settled(x, bad)
    /\ Since - KeepDailyDays >= FirstDay.day
          => Settled(Since - KeepDailyDays, bad) \/ Settled(Since, bad)
    /\ BeforeCleanup => warned = {} \/ stamp.day \in bad

AccountInv == troubles \in Nat /\ \E bad : Accounted(bad)

BackupInv == RunInv /\ ScheduleInv /\ OnceInv

LEMMA DayNumbers ==
    ASSUME BackupInv, Cron
    PROVE  /\ FirstDay.day \in Nat /\ today.day \in Nat /\ stamp.day \in Nat
           /\ Since \in Nat /\ KeepDailyDays \in Nat \ {0}
           /\ FirstDay.day <= stamp.day /\ stamp.day <= today.day
           /\ FirstDay.day <= Since /\ Since <= today.day /\ stamp.day <= Since
           /\ runs \in Nat
<1>1. /\ FirstDay.day \in Nat /\ today.day \in Nat /\ stamp.day \in Nat
      /\ FirstDay.day <= stamp.day /\ stamp.day <= today.day /\ runs \in Nat
  BY DEF BackupInv, ScheduleInv, OnceInv, DaysInv, DaysFollow, Stamps, InCalendar, Day, Cron
<1>. QED
  BY <1>1, SettingsAssumption DEF Since

\* What is settled stays so, and the bad days may become more.
LEMMA SettledStays ==
    ASSUME BackupInv, KeptForLonger, [BackupNext]_backupVars, NEW bad, NEW worse, bad \subseteq worse,
           NEW x \in Int, Settled(x, bad), x >= Since - KeepDailyDays,
           CleanupDaily => x > today.day - KeepDailyDays
    PROVE  Settled(x, worse)'
<1>1. CASE x \in bad
  BY <1>1 DEF Settled
<1>2. CASE Complete(x)
  <2>1. Complete(x)'
    BY <1>2, CompleteStays DEF BackupInv, OnceInv
  <2>. QED
    BY <2>1 DEF Settled
<1>. QED
  BY <1>1, <1>2 DEF Settled

LEMMA OneMoreBad ==
    ASSUME troubles \in Nat, NEW bad, Accounted(bad), Trouble, NEW x
    PROVE  \E worse : /\ bad \subseteq worse /\ x \in worse /\ IsFiniteSet(worse)
                      /\ troubles' \in Nat /\ Cardinality(worse) <= troubles'
<1>1. IsFiniteSet(bad) /\ Cardinality(bad) <= troubles /\ Cardinality(bad) \in Nat
  BY FS_CardinalityType DEF Accounted
<1>2. /\ IsFiniteSet(bad \cup {x})
      /\ \/ Cardinality(bad \cup {x}) = Cardinality(bad)
         \/ Cardinality(bad \cup {x}) = Cardinality(bad) + 1
  BY <1>1, FS_AddElement
<1>. QED
  BY <1>1, <1>2 DEF Trouble

(***************************************************************************)
(* The steps of a run that leave its day to be done.                       *)
(***************************************************************************)
LEMMA RunGoesOn ==
    ASSUME BackupInv, Cron, KeptForLonger, [BackupNext]_backupVars, ~CleanupDaily,
           NEW bad, Accounted(bad), NEW worse, bad \subseteq worse,
           IsFiniteSet(worse), Cardinality(worse) <= troubles',
           BeforeCleanup, BeforeCleanup', UNCHANGED <<today, stamp>>,
           warned' = {} \/ stamp.day \in worse
    PROVE  Accounted(worse)'
<1>0. /\ Since = stamp.day /\ Since' = stamp.day
      /\ \A x : IsOpen(x)' <=> x = stamp.day
      /\ \A x : IsOpen(x) <=> x = stamp.day
  BY DEF Since, IsOpen, BeforeCleanup, InType
<1>1. /\ FirstDay.day \in Nat /\ today.day \in Nat /\ stamp.day \in Nat
      /\ KeepDailyDays \in Nat \ {0}
  BY DayNumbers
<1>2. ASSUME NEW x \in FirstDay.day .. today.day,
             x > stamp.day - KeepDailyDays, x # stamp.day
      PROVE  Settled(x, worse)'
  <2>1. Settled(x, bad)
    BY <1>0, <1>2 DEF Accounted
  <2>2. x \in Int /\ x >= Since - KeepDailyDays
    BY <1>0, <1>1, <1>2
  <2>. QED
    BY <2>1, <2>2, SettledStays
<1>3. ASSUME stamp.day - KeepDailyDays >= FirstDay.day
      PROVE  Settled(stamp.day - KeepDailyDays, worse)' \/ Settled(stamp.day, worse)'
  <2>1. Settled(stamp.day - KeepDailyDays, bad) \/ Settled(stamp.day, bad)
    BY <1>0, <1>3 DEF Accounted
  <2>2. stamp.day - KeepDailyDays \in Int /\ stamp.day >= stamp.day - KeepDailyDays
    BY <1>1
  <2>. QED
    BY <1>0, <1>1, <2>1, <2>2, SettledStays
<1>. QED
  BY <1>0, <1>2, <1>3 DEF Accounted

(***************************************************************************)
(* When a run gets to the cleanup its day is settled.                      *)
(***************************************************************************)
LEMMA RunSettlesDay ==
    ASSUME RunInv, phase = "daily", NEW bad, Accounted(bad)
    PROVE  Settled(stamp.day, bad)
<1>1. CASE stamp.day \in bad
  BY <1>1 DEF Settled
<1>2. CASE warned = {}
  <2>1. ASSUME NEW t \in TypeNames, NEW i \in DOMAIN Databases[t]
        PROVE  Holds(t, Databases[t][i], stamp.day)
    <3>1. HasBackup(t, Databases[t][i]) \/ Pending(t, Databases[t][i])
      BY <1>2 DEF RunInv, NothingForgotten
    <3>2. ~Pending(t, Databases[t][i])
      BY NothingInEmpty DEF RunInv, PlacesAgree, Pending, InType
    <3>. QED
      BY <3>1, <3>2 DEF HasBackup, Holds
  <2>. QED
    BY <2>1 DEF Settled, Complete
<1>. QED
  BY <1>1, <1>2 DEF Accounted, BeforeCleanup

\* All days that count are settled when the run has come to its cleanup.
LEMMA AllSettled ==
    ASSUME RunInv, NEW bad, Accounted(bad), phase \in {"daily", "monthly"},
           NEW x \in FirstDay.day .. today.day, x > Since - KeepDailyDays
    PROVE  Settled(x, bad)
<1>1. CASE IsOpen(x)
  BY <1>1, RunSettlesDay DEF IsOpen, BeforeCleanup, InType
<1>2. CASE ~IsOpen(x)
  BY <1>2 DEF Accounted
<1>. QED
  BY <1>1, <1>2

(***************************************************************************)
(* The account is kept in every step.                                      *)
(***************************************************************************)
InBackups == BackupInv /\ Cron /\ KeptForLonger /\ [BackupNext]_backupVars /\ troubles \in Nat

LEMMA RunKeepsAccount ==
    ASSUME InBackups, NEW bad, Accounted(bad),
           \/ ListDatabases \/ TypeDone \/ Rotate \/ RotateFails \/ Export \/ Compress
           \/ StartCleanup \/ (UNCHANGED backupVars /\ BeforeCleanup)
    PROVE  AccountInv'
<1>1. /\ BeforeCleanup /\ BeforeCleanup' /\ UNCHANGED <<today, stamp, warned>> /\ ~CleanupDaily
      /\ troubles' = troubles \/ troubles' = troubles + 1
  BY DEF BeforeCleanup, InType, setting, backupVars, CleanupDaily, NoTrouble, Trouble,
     ListDatabases, TypeDone, Rotate, RotateFails, Export, Compress, StartCleanup
<1>2. /\ IsFiniteSet(bad) /\ Cardinality(bad) <= troubles' /\ troubles' \in Nat
      /\ warned' = {} \/ stamp.day \in bad
  <2>1. IsFiniteSet(bad) /\ Cardinality(bad) <= troubles /\ (warned = {} \/ stamp.day \in bad)
    BY <1>1 DEF Accounted
  <2>. QED
    BY <1>1, <2>1, FS_CardinalityType DEF InBackups
<1>3. Accounted(bad)'
  BY <1>1, <1>2, RunGoesOn DEF InBackups
<1>. QED
  BY <1>2, <1>3 DEF AccountInv

LEMMA SkipKeepsAccount ==
    ASSUME InBackups, NEW bad, Accounted(bad),
           ListFails \/ MkdirFails \/ ExportFails \/ CompressFails
    PROVE  AccountInv'
<1>1. /\ BeforeCleanup /\ BeforeCleanup' /\ UNCHANGED <<today, stamp>> /\ ~CleanupDaily
      /\ Trouble
  BY DEF BeforeCleanup, InType, setting, CleanupDaily, SkipType,
     ListFails, MkdirFails, ExportFails, CompressFails
<1>2. PICK worse : /\ bad \subseteq worse /\ stamp.day \in worse /\ IsFiniteSet(worse)
                   /\ troubles' \in Nat /\ Cardinality(worse) <= troubles'
  BY <1>1, OneMoreBad DEF InBackups
<1>3. Accounted(worse)'
  BY <1>1, <1>2, RunGoesOn DEF InBackups
<1>. QED
  BY <1>2, <1>3 DEF AccountInv

LEMMA CleanupKeepsAccount ==
    ASSUME InBackups, NEW bad, Accounted(bad), CleanupDaily \/ CleanupDailyFails
    PROVE  AccountInv'
<1>1. /\ phase = "daily" /\ phase' = "monthly" /\ UNCHANGED <<today, stamp>>
      /\ troubles' = troubles \/ troubles' = troubles + 1
  BY DEF CleanupDaily, CleanupDailyFails, setting, NoTrouble, Trouble
<1>2. /\ Since = stamp.day /\ Since' = today.day
      /\ ~BeforeCleanup' /\ \A x : ~IsOpen(x)'
  BY <1>1 DEF Since, IsOpen, BeforeCleanup, InType
<1>3. IsFiniteSet(bad) /\ Cardinality(bad) <= troubles' /\ troubles' \in Nat
  <2>1. IsFiniteSet(bad) /\ Cardinality(bad) <= troubles
    BY DEF Accounted
  <2>. QED
    BY <1>1, <2>1, FS_CardinalityType DEF InBackups
<1>4. /\ FirstDay.day \in Nat /\ today.day \in Nat /\ stamp.day \in Nat
      /\ KeepDailyDays \in Nat \ {0} /\ stamp.day <= today.day /\ FirstDay.day <= today.day
  BY DayNumbers DEF InBackups
<1>5. ASSUME NEW x \in FirstDay.day .. today.day, x > today.day - KeepDailyDays
      PROVE  Settled(x, bad)'
  <2>1. x \in Int /\ x > Since - KeepDailyDays /\ x >= Since - KeepDailyDays
    BY <1>2, <1>4, <1>5
  <2>2. Settled(x, bad)
    BY <1>1, <2>1, AllSettled DEF InBackups, BackupInv
  <2>. QED
    BY <1>5, <2>1, <2>2, SettledStays DEF InBackups
<1>6. Settled(today.day, bad)'
  <2>1. today.day \in FirstDay.day .. today.day /\ today.day > today.day - KeepDailyDays
    BY <1>4
  <2>. QED
    BY <1>1, <1>5, <2>1
<1>7. Accounted(bad)'
  BY <1>1, <1>2, <1>3, <1>5, <1>6 DEF Accounted
<1>. QED
  BY <1>3, <1>7 DEF AccountInv

LEMMA EndKeepsAccount ==
    ASSUME InBackups, NEW bad, Accounted(bad), CleanupMonthly
    PROVE  AccountInv'
<1>1. /\ phase = "monthly" /\ phase' = "idle" /\ UNCHANGED <<today, troubles>> /\ ~CleanupDaily
  BY DEF CleanupMonthly, CleanupDaily, NoTrouble
<1>2. /\ Since = today.day /\ Since' = today.day /\ ~BeforeCleanup'
  BY <1>1 DEF Since, BeforeCleanup, InType
<1>3. /\ FirstDay.day \in Nat /\ today.day \in Nat /\ KeepDailyDays \in Nat \ {0}
  BY DayNumbers DEF InBackups
<1>4. ASSUME NEW x \in FirstDay.day .. today.day, x > today.day - KeepDailyDays
      PROVE  Settled(x, bad)'
  <2>1. x \in Int /\ x > Since - KeepDailyDays /\ x >= Since - KeepDailyDays
    BY <1>2, <1>3, <1>4
  <2>2. Settled(x, bad)
    BY <1>1, <2>1, AllSettled DEF InBackups, BackupInv
  <2>. QED
    BY <1>1, <2>1, <2>2, SettledStays DEF InBackups
<1>5. ASSUME today.day - KeepDailyDays >= FirstDay.day
      PROVE  Settled(today.day - KeepDailyDays, bad)' \/ Settled(today.day, bad)'
  <2>1. Settled(Since - KeepDailyDays, bad) \/ Settled(Since, bad)
    BY <1>2, <1>5 DEF Accounted
  <2>2. /\ Since - KeepDailyDays \in Int /\ Since \in Int /\ Since >= Since - KeepDailyDays
        /\ Since - KeepDailyDays >= Since - KeepDailyDays
    BY <1>2, <1>3
  <2>. QED
    BY <1>1, <1>2, <2>1, <2>2, SettledStays DEF InBackups
<1>6. Accounted(bad)'
  BY <1>1, <1>2, <1>4, <1>5 DEF Accounted
<1>. QED
  BY <1>1, <1>6 DEF AccountInv, InBackups

LEMMA StopKeepsAccount ==
    ASSUME InBackups, NEW bad, Accounted(bad), Stop
    PROVE  AccountInv'
<1>1. /\ phase # "idle" /\ phase' = "idle" /\ UNCHANGED <<today, stamp>> /\ ~CleanupDaily
      /\ Trouble
  <2>1. ~CleanupDaily
    BY DEF Stop, CleanupDaily
  <2>. QED
    BY <2>1 DEF Stop, setting
<1>2. /\ Since' = today.day /\ ~BeforeCleanup'
      /\ \A x : IsOpen(x) => BeforeCleanup /\ x = stamp.day /\ Since = stamp.day
      /\ Since = IF BeforeCleanup THEN stamp.day ELSE today.day
  BY <1>1 DEF Since, BeforeCleanup, InType, IsOpen
<1>3. PICK worse : /\ bad \subseteq worse /\ stamp.day \in worse /\ IsFiniteSet(worse)
                   /\ troubles' \in Nat /\ Cardinality(worse) <= troubles'
  BY <1>1, OneMoreBad DEF InBackups
<1>4. /\ FirstDay.day \in Nat /\ today.day \in Nat /\ stamp.day \in Nat /\ Since \in Nat
      /\ KeepDailyDays \in Nat \ {0} /\ stamp.day <= today.day /\ Since <= today.day
      /\ FirstDay.day <= today.day
  BY DayNumbers DEF InBackups
<1>6. ASSUME NEW x \in FirstDay.day .. today.day, x > Since - KeepDailyDays
      PROVE  Settled(x, worse)'
  <2>1. CASE x = stamp.day
    BY <1>3, <2>1 DEF Settled
  <2>2. CASE x # stamp.day
    <3>1. Settled(x, bad)
      BY <1>2, <1>6, <2>2 DEF Accounted
    <3>2. x \in Int /\ x >= Since - KeepDailyDays
      BY <1>4, <1>6
    <3>. QED
      BY <1>1, <1>3, <3>1, <3>2, SettledStays DEF InBackups
  <2>. QED
    BY <2>1, <2>2
<1>7. ASSUME today.day - KeepDailyDays >= FirstDay.day
      PROVE  Settled(today.day - KeepDailyDays, worse)' \/ Settled(today.day, worse)'
  <2>1. CASE Since = today.day
    <3>1. Settled(Since - KeepDailyDays, bad) \/ Settled(Since, bad)
      BY <1>7, <2>1 DEF Accounted
    <3>2. /\ Since - KeepDailyDays \in Int /\ Since \in Int /\ Since >= Since - KeepDailyDays
          /\ Since - KeepDailyDays >= Since - KeepDailyDays
      BY <1>4
    <3>. QED
      BY <1>1, <1>3, <2>1, <3>1, <3>2, SettledStays DEF InBackups
  <2>2. CASE Since # today.day
    <3>1. /\ today.day - KeepDailyDays \in FirstDay.day .. today.day
          /\ today.day - KeepDailyDays > Since - KeepDailyDays
      BY <1>4, <1>7, <2>2
    <3>. QED
      BY <1>1, <1>6, <3>1
  <2>. QED
    BY <2>1, <2>2
<1>8. \A x \in FirstDay.day .. today.day : x > today.day - KeepDailyDays => Settled(x, worse)'
  <2>1. \A x \in FirstDay.day .. today.day :
           x > today.day - KeepDailyDays => x > Since - KeepDailyDays
    BY <1>4
  <2>. QED
    BY <1>6, <2>1
<1>9. Accounted(worse)'
  BY <1>1, <1>2, <1>3, <1>7, <1>8 DEF Accounted
<1>. QED
  BY <1>3, <1>9 DEF AccountInv

\* The days that count and are done stay settled but for the daily cleanup.
LEMMA DoneStaysSettled ==
    ASSUME InBackups, ~CleanupDaily, NEW bad, Accounted(bad), NEW worse, bad \subseteq worse,
           NEW x \in FirstDay.day .. today.day, x > Since - KeepDailyDays, ~IsOpen(x)
    PROVE  Settled(x, worse)'
<1>1. Settled(x, bad)
  BY DEF Accounted
<1>2. x \in Int /\ x >= Since - KeepDailyDays
  BY DayNumbers DEF InBackups
<1>. QED
  BY <1>1, <1>2, SettledStays DEF InBackups

LEMMA MidnightKeepsAccount ==
    ASSUME InBackups, NEW bad, Accounted(bad), Midnight
    PROVE  AccountInv'
<1>1. /\ today'.day = today.day + 1 /\ runs' = 0 /\ UNCHANGED <<phase, stamp, warned>>
      /\ ~CleanupDaily
      /\ IF phase = "idle" /\ runs > 0 THEN troubles' = troubles ELSE Trouble
  <2>1. ~CleanupDaily
    <3>1. today'.day = today.day + 1 /\ today.day \in Nat
      BY DayNumbers DEF Midnight, NextDay, InBackups
    <3>. QED
      BY <3>1 DEF CleanupDaily
  <2>. QED
    BY <2>1 DEF Midnight, NextDay, setting, NoTrouble
<1>2. /\ FirstDay.day \in Nat /\ today.day \in Nat /\ stamp.day \in Nat /\ runs \in Nat
      /\ KeepDailyDays \in Nat \ {0} /\ stamp.day <= today.day /\ FirstDay.day <= today.day
      /\ troubles \in Nat
  BY DayNumbers DEF InBackups
<1>3. CASE phase = "idle" /\ runs # 0
  <2>1. /\ Since = today.day /\ Since' = today.day + 1 /\ ~BeforeCleanup'
        /\ \A x : IsOpen(x)' <=> x = today.day + 1
        /\ \A x : ~IsOpen(x)
    BY <1>1, <1>3 DEF Since, BeforeCleanup, InType, IsOpen
  <2>2. troubles' = troubles
    BY <1>1, <1>2, <1>3
  <2>3. ASSUME NEW x \in FirstDay.day .. today.day, x > today.day - KeepDailyDays
        PROVE  Settled(x, bad)'
    BY <1>1, <2>1, <2>3, DoneStaysSettled
  <2>4. \A x \in FirstDay.day .. today.day + 1 :
           x > today.day + 1 - KeepDailyDays /\ x # today.day + 1 => Settled(x, bad)'
    <3>1. ASSUME NEW x \in FirstDay.day .. today.day + 1,
                 x > today.day + 1 - KeepDailyDays, x # today.day + 1
          PROVE  x \in FirstDay.day .. today.day /\ x > today.day - KeepDailyDays
      BY <1>2, <3>1
    <3>. QED
      BY <2>3, <3>1
  <2>5. ASSUME today.day + 1 - KeepDailyDays >= FirstDay.day
        PROVE  \E x \in FirstDay.day .. today.day :
                  x = today.day + 1 - KeepDailyDays /\ x > today.day - KeepDailyDays
    BY <1>2, <2>5
  <2>6. ASSUME today.day + 1 - KeepDailyDays >= FirstDay.day
        PROVE  Settled(Since - KeepDailyDays, bad)'
    <3>1. PICK x \in FirstDay.day .. today.day :
                  x = today.day + 1 - KeepDailyDays /\ x > today.day - KeepDailyDays
      BY <2>5, <2>6
    <3>2. Settled(x, bad)'
      BY <2>3, <3>1
    <3>3. x = Since' - KeepDailyDays
      BY <1>2, <2>1, <3>1
    <3>. QED
      BY <3>2, <3>3
  <2>7. Accounted(bad)'
    BY <1>1, <1>2, <2>1, <2>2, <2>4, <2>6 DEF Accounted
  <2>. QED
    BY <1>2, <2>2, <2>7 DEF AccountInv
<1>4. CASE phase = "idle" /\ runs = 0
  <2>1. /\ Since = today.day /\ Since' = today.day + 1 /\ ~BeforeCleanup'
        /\ \A x : IsOpen(x)' <=> x = today.day + 1
        /\ \A x : IsOpen(x) <=> x = today.day
    BY <1>1, <1>4 DEF Since, BeforeCleanup, InType, IsOpen
  <2>2. PICK worse : /\ bad \subseteq worse /\ today.day \in worse /\ IsFiniteSet(worse)
                     /\ troubles' \in Nat /\ Cardinality(worse) <= troubles'
    BY <1>1, <1>2, <1>4, OneMoreBad
  <2>3. ASSUME NEW x \in FirstDay.day .. today.day, x > today.day - KeepDailyDays
        PROVE  Settled(x, worse)'
    <3>1. CASE x = today.day
      BY <2>2, <3>1 DEF Settled
    <3>2. CASE x # today.day
      BY <1>1, <2>1, <2>2, <2>3, <3>2, DoneStaysSettled
    <3>. QED
      BY <3>1, <3>2
  <2>4. \A x \in FirstDay.day .. today.day + 1 :
           x > today.day + 1 - KeepDailyDays /\ x # today.day + 1 => Settled(x, worse)'
    <3>1. ASSUME NEW x \in FirstDay.day .. today.day + 1,
                 x > today.day + 1 - KeepDailyDays, x # today.day + 1
          PROVE  x \in FirstDay.day .. today.day /\ x > today.day - KeepDailyDays
      BY <1>2, <3>1
    <3>. QED
      BY <2>3, <3>1
  <2>5. ASSUME today.day + 1 - KeepDailyDays >= FirstDay.day
        PROVE  \E x \in FirstDay.day .. today.day :
                  x = today.day + 1 - KeepDailyDays /\ x > today.day - KeepDailyDays
    BY <1>2, <2>5
  <2>6. ASSUME today.day + 1 - KeepDailyDays >= FirstDay.day
        PROVE  Settled(Since - KeepDailyDays, worse)'
    <3>1. PICK x \in FirstDay.day .. today.day :
                  x = today.day + 1 - KeepDailyDays /\ x > today.day - KeepDailyDays
      BY <2>5, <2>6
    <3>2. Settled(x, worse)'
      BY <2>3, <3>1
    <3>3. x = Since' - KeepDailyDays
      BY <1>2, <2>1, <3>1
    <3>. QED
      BY <3>2, <3>3
  <2>7. Accounted(worse)'
    BY <1>1, <1>2, <2>1, <2>2, <2>4, <2>6 DEF Accounted
  <2>. QED
    BY <2>2, <2>7 DEF AccountInv
<1>5. CASE phase # "idle"
  <2>1. PICK worse : /\ bad \subseteq worse /\ today.day + 1 \in worse /\ IsFiniteSet(worse)
                     /\ troubles' \in Nat /\ Cardinality(worse) <= troubles'
    BY <1>1, <1>2, <1>5, OneMoreBad
  <2>2. /\ BeforeCleanup' <=> BeforeCleanup
        /\ Since = IF BeforeCleanup THEN stamp.day ELSE today.day
        /\ Since' = IF BeforeCleanup THEN stamp.day ELSE today.day + 1
        /\ \A x : IsOpen(x)' <=> BeforeCleanup /\ x = stamp.day
        /\ \A x : IsOpen(x) <=> BeforeCleanup /\ x = stamp.day
    BY <1>1, <1>5 DEF Since, IsOpen, BeforeCleanup
  <2>3. \A x \in FirstDay.day .. today.day + 1 :
           x > Since' - KeepDailyDays /\ ~IsOpen(x)' => Settled(x, worse)'
    <3>1. ASSUME NEW x \in FirstDay.day .. today.day + 1,
                 x > Since' - KeepDailyDays, ~IsOpen(x)'
          PROVE  Settled(x, worse)'
      <4>1. CASE x = today.day + 1
        BY <2>1, <4>1 DEF Settled
      <4>2. CASE x # today.day + 1
        <5>1. x \in FirstDay.day .. today.day /\ x > Since - KeepDailyDays
          BY <1>2, <2>2, <3>1, <4>2
        <5>. QED
          BY <1>1, <2>1, <2>2, <3>1, <5>1, DoneStaysSettled
      <4>. QED
        BY <4>1, <4>2
    <3>. QED
      BY <3>1
  <2>4. ASSUME BeforeCleanup, stamp.day - KeepDailyDays >= FirstDay.day
        PROVE  Settled(stamp.day - KeepDailyDays, worse)' \/ Settled(stamp.day, worse)'
    <3>1. Settled(Since - KeepDailyDays, bad) \/ Settled(Since, bad)
      BY <2>2, <2>4 DEF Accounted
    <3>2. /\ Since - KeepDailyDays \in Int /\ Since \in Int /\ Since >= Since - KeepDailyDays
          /\ Since - KeepDailyDays >= Since - KeepDailyDays
      BY <1>2, <2>2
    <3>. QED
      BY <1>1, <2>1, <2>2, <2>4, <3>1, <3>2, SettledStays DEF InBackups
  <2>5. ~BeforeCleanup => Settled(Since, worse)'
    BY <2>1, <2>2 DEF Settled
  <2>6. BeforeCleanup => warned = {} \/ stamp.day \in worse
    BY <2>1 DEF Accounted
  <2>7. Accounted(worse)'
    BY <1>1, <2>1, <2>2, <2>3, <2>4, <2>5, <2>6 DEF Accounted
  <2>. QED
    BY <2>1, <2>7 DEF AccountInv
<1>. QED
  BY <1>2, <1>3, <1>4, <1>5

LEMMA StartKeepsAccount ==
    ASSUME InBackups, NEW bad, Accounted(bad), \E command \in Commands : Start(command)
    PROVE  AccountInv'
<1>1. /\ phase = "idle" /\ phase' = "types" /\ runs = 0 /\ stamp' = today /\ warned' = {}
      /\ UNCHANGED <<today, troubles>> /\ ~CleanupDaily
  <2>1. /\ phase = "idle" /\ phase' = "types" /\ runs < 1 /\ stamp' = today /\ warned' = {}
        /\ UNCHANGED <<today, troubles>>
    BY DEF Start, NoTrouble, InBackups, Cron
  <2>2. runs \in Nat
    BY DayNumbers DEF InBackups
  <2>. QED
    BY <2>1, <2>2 DEF CleanupDaily
<1>2. /\ Since = today.day /\ Since' = today.day
      /\ \A x : IsOpen(x)' <=> x = today.day
      /\ \A x : IsOpen(x) <=> x = today.day
  BY <1>1 DEF Since, IsOpen, BeforeCleanup, InType
<1>3. today.day \in Nat /\ KeepDailyDays \in Nat \ {0}
  BY DayNumbers DEF InBackups
<1>4. ASSUME NEW x \in FirstDay.day .. today.day, x > today.day - KeepDailyDays,
             x # today.day
      PROVE  Settled(x, bad)'
  BY <1>1, <1>2, <1>4, DoneStaysSettled
<1>5. ASSUME today.day - KeepDailyDays >= FirstDay.day
      PROVE  Settled(today.day - KeepDailyDays, bad)' \/ Settled(today.day, bad)'
  <2>1. Settled(Since - KeepDailyDays, bad) \/ Settled(Since, bad)
    BY <1>2, <1>5 DEF Accounted
  <2>2. /\ Since - KeepDailyDays \in Int /\ Since \in Int /\ Since >= Since - KeepDailyDays
        /\ Since - KeepDailyDays >= Since - KeepDailyDays
    BY <1>2, <1>3
  <2>. QED
    BY <1>1, <1>2, <2>1, <2>2, SettledStays DEF InBackups
<1>6. Accounted(bad)'
  BY <1>1, <1>2, <1>4, <1>5 DEF Accounted
<1>. QED
  BY <1>1, <1>6 DEF AccountInv, InBackups

LEMMA NoStartKeepsAccount ==
    ASSUME InBackups, NEW bad, Accounted(bad), StartFails
    PROVE  AccountInv'
<1>1. /\ phase = "idle" /\ runs = 0 /\ runs' = 1 /\ UNCHANGED <<phase, stamp, today, warned>>
      /\ ~CleanupDaily /\ Trouble
  <2>1. /\ phase = "idle" /\ runs < 1 /\ runs' = runs + 1 /\ UNCHANGED <<phase, stamp, today, warned>>
        /\ Trouble
    BY DEF StartFails, setting, InBackups, Cron
  <2>2. runs \in Nat
    BY DayNumbers DEF InBackups
  <2>. QED
    BY <2>1, <2>2 DEF CleanupDaily
<1>2. /\ Since = today.day /\ Since' = today.day /\ ~BeforeCleanup'
      /\ \A x : ~IsOpen(x)'
      /\ \A x : IsOpen(x) <=> x = today.day
  BY <1>1 DEF Since, IsOpen, BeforeCleanup, InType
<1>3. PICK worse : /\ bad \subseteq worse /\ today.day \in worse /\ IsFiniteSet(worse)
                   /\ troubles' \in Nat /\ Cardinality(worse) <= troubles'
  BY <1>1, OneMoreBad DEF InBackups
<1>4. ASSUME NEW x \in FirstDay.day .. today.day, x > today.day - KeepDailyDays
      PROVE  Settled(x, worse)'
  <2>1. CASE x = today.day
    BY <1>3, <2>1 DEF Settled
  <2>2. CASE x # today.day
    BY <1>1, <1>2, <1>3, <1>4, <2>2, DoneStaysSettled
  <2>. QED
    BY <2>1, <2>2
<1>5. Settled(today.day, worse)'
  BY <1>1, <1>3 DEF Settled
<1>6. Accounted(worse)'
  BY <1>1, <1>2, <1>3, <1>4, <1>5 DEF Accounted
<1>. QED
  BY <1>3, <1>6 DEF AccountInv

LEMMA AccountStep ==
    ASSUME BackupInv, Cron, KeptForLonger, AccountInv, [BackupNext]_backupVars
    PROVE  AccountInv'
<1>1. InBackups
  BY DEF InBackups, AccountInv
<1>2. PICK bad : Accounted(bad)
  BY DEF AccountInv
<1>3. CASE UNCHANGED backupVars
  BY <1>3 DEF backupVars, setting, AccountInv, Accounted, Settled, Complete, Holds, IsOpen, Since,
     BeforeCleanup
<1>4. CASE \/ ListDatabases \/ TypeDone \/ Rotate \/ RotateFails \/ Export \/ Compress
           \/ StartCleanup
  BY <1>1, <1>2, <1>4, RunKeepsAccount
<1>5. CASE ListFails \/ MkdirFails \/ ExportFails \/ CompressFails
  BY <1>1, <1>2, <1>5, SkipKeepsAccount
<1>6. CASE CleanupDaily \/ CleanupDailyFails
  BY <1>1, <1>2, <1>6, CleanupKeepsAccount
<1>7. CASE CleanupMonthly
  BY <1>1, <1>2, <1>7, EndKeepsAccount
<1>8. CASE Stop
  BY <1>1, <1>2, <1>8, StopKeepsAccount
<1>9. CASE Midnight
  BY <1>1, <1>2, <1>9, MidnightKeepsAccount
<1>10. CASE \E command \in Commands : Start(command)
  BY <1>1, <1>2, <1>10, StartKeepsAccount
<1>11. CASE StartFails
  BY <1>1, <1>2, <1>11, NoStartKeepsAccount
<1>. QED
  BY <1>3, <1>4, <1>5, <1>6, <1>7, <1>8, <1>9, <1>10, <1>11 DEF BackupNext

LEMMA AccountStarts == ASSUME Cron, BackupInit PROVE AccountInv
<1>1. /\ today = FirstDay /\ Since = FirstDay.day /\ troubles = 0 /\ ~BeforeCleanup
      /\ \A x : IsOpen(x) <=> x = FirstDay.day
  BY DEF BackupInit, Since, IsOpen, BeforeCleanup, InType
<1>2. FirstDay.day \in Nat /\ KeepDailyDays \in Nat \ {0}
  BY SettingsAssumption DEF Cron, InCalendar, Day
<1>3. IsFiniteSet({}) /\ Cardinality({}) = 0
  BY FS_EmptySet
<1>4. /\ \A x \in FirstDay.day .. FirstDay.day : x = FirstDay.day
      /\ ~(FirstDay.day - KeepDailyDays >= FirstDay.day)
  BY <1>2
<1>5. Accounted({})
  BY <1>1, <1>3, <1>4 DEF Accounted
<1>. QED
  BY <1>1, <1>5 DEF AccountInv

(***************************************************************************)
(* Of as many days as daily backups are kept one was good, so that a       *)
(* backup that is removed is never the last one.                           *)
(***************************************************************************)
LEMMA OneIsGood ==
    ASSUME NEW bad, IsFiniteSet(bad), NEW n \in Nat, Cardinality(bad) <= n, n < KeepDailyDays,
           NEW a \in Int, \A x \in a .. a + KeepDailyDays - 1 : Settled(x, bad)
    PROVE  \E x \in a .. a + KeepDailyDays - 1 : Complete(x)
<1>. DEFINE days == a .. a + KeepDailyDays - 1
<1>1. KeepDailyDays \in Nat \ {0} /\ a + KeepDailyDays - 1 \in Int
  BY SettingsAssumption
<1>2. Cardinality(days) = KeepDailyDays
  BY <1>1, FS_Interval
<1>3. ~(days \subseteq bad)
  <2>1. SUFFICES ASSUME days \subseteq bad PROVE FALSE
    OBVIOUS
  <2>. HIDE DEF days
  <2>2. Cardinality(days) <= Cardinality(bad)
    BY <2>1, FS_Subset
  <2>3. Cardinality(bad) \in Nat
    BY FS_CardinalityType
  <2>. QED
    BY <1>1, <1>2, <2>2, <2>3
<1>. QED
  BY <1>3 DEF Settled

LEMMA GoodDayStays ==
    ASSUME InBackups, AccountInv, troubles <= MaxTroubles, MaxTroubles < KeepDailyDays,
           \/ Rotate /\ stamp.day - KeepDailyDays >= FirstDay.day
           \/ CleanupDaily /\ today.day - KeepDailyDays >= FirstDay.day
           \/ CleanupMonthly /\ today.day - KeepDailyDays >= FirstDay.day
    PROVE  \E x \in Int : Complete(x)'
<1>1. PICK bad : Accounted(bad)
  BY DEF AccountInv
<1>2. IsFiniteSet(bad) /\ Cardinality(bad) <= troubles /\ troubles < KeepDailyDays
  <2>1. troubles \in Nat /\ MaxTroubles \in Nat /\ KeepDailyDays \in Nat
    BY RunAssumption, SettingsAssumption DEF InBackups
  <2>. QED
    BY <1>1, <2>1 DEF Accounted
<1>3. /\ FirstDay.day \in Nat /\ today.day \in Nat /\ stamp.day \in Nat
      /\ KeepDailyDays \in Nat \ {0} /\ stamp.day <= today.day
  BY DayNumbers DEF InBackups
<1>4. CASE CleanupDaily \/ CleanupMonthly
  <2>1. /\ today.day - KeepDailyDays >= FirstDay.day /\ phase \in {"daily", "monthly"}
        /\ Since <= today.day /\ Since \in Nat
    BY <1>4, DayNumbers DEF CleanupDaily, CleanupMonthly, Rotate, InBackups
  <2>. DEFINE a == today.day - KeepDailyDays + 1
  <2>2. /\ a \in Int /\ a + KeepDailyDays - 1 = today.day
        /\ \A x \in a .. today.day : /\ x \in FirstDay.day .. today.day
                                     /\ x > Since - KeepDailyDays /\ x >= Since - KeepDailyDays
                                     /\ x > today.day - KeepDailyDays
    BY <1>3, <2>1
  <2>3. \A x \in a .. today.day : Settled(x, bad)
    BY <1>1, <2>1, <2>2, AllSettled DEF InBackups, BackupInv
  <2>4. PICK x \in a .. today.day : Complete(x)
    <3>. HIDE DEF a
    <3>. QED
      BY <1>2, <2>2, <2>3, OneIsGood DEF InBackups
  <2>5. Complete(x)'
    <3>1. x \in Int
      BY <1>3, <2>2
    <3>. QED
      BY <2>2, <2>4, <3>1, CompleteStays DEF InBackups, BackupInv, OnceInv
  <2>. QED
    BY <1>3, <2>2, <2>5
<1>5. CASE Rotate
  <2>1. /\ stamp.day - KeepDailyDays >= FirstDay.day /\ Since = stamp.day /\ BeforeCleanup
        /\ \A x : IsOpen(x) => x = stamp.day
        /\ ~CleanupDaily
    BY <1>5 DEF CleanupDaily, CleanupMonthly, Rotate, Since, BeforeCleanup, InType, IsOpen
  <2>2. ASSUME NEW x \in Int, x > stamp.day - KeepDailyDays, x < stamp.day
        PROVE  Settled(x, bad)
    <3>1. x \in FirstDay.day .. today.day /\ x # stamp.day
      BY <1>3, <2>1, <2>2
    <3>. QED
      BY <1>1, <2>1, <2>2, <3>1 DEF Accounted
  <2>3. PICK a \in {stamp.day - KeepDailyDays, stamp.day - KeepDailyDays + 1} :
                \A x \in a .. a + KeepDailyDays - 1 : Settled(x, bad)
    <3>1. CASE Settled(stamp.day - KeepDailyDays, bad)
      <4>. DEFINE b == stamp.day - KeepDailyDays
      <4>1. \A x \in b .. b + KeepDailyDays - 1 :
               x \in Int /\ x < stamp.day /\ (x = b \/ x > b)
        BY <1>3
      <4>2. \A x \in b .. b + KeepDailyDays - 1 : Settled(x, bad)
        BY <2>2, <3>1, <4>1
      <4>. QED
        BY <4>2
    <3>2. CASE Settled(stamp.day, bad)
      <4>. DEFINE b == stamp.day - KeepDailyDays + 1
      <4>1. \A x \in b .. b + KeepDailyDays - 1 :
               /\ x \in Int /\ x > stamp.day - KeepDailyDays
               /\ x = stamp.day \/ x < stamp.day
        BY <1>3
      <4>2. \A x \in b .. b + KeepDailyDays - 1 : Settled(x, bad)
        <5>. HIDE DEF b
        <5>. QED
          BY <2>2, <3>2, <4>1
      <4>. QED
        BY <4>2
    <3>. QED
      BY <1>1, <2>1, <3>1, <3>2 DEF Accounted
  <2>4. a \in Int /\ a >= stamp.day - KeepDailyDays
    BY <1>3
  <2>5. PICK x \in a .. a + KeepDailyDays - 1 : Complete(x)
    BY <1>2, <2>3, <2>4, OneIsGood DEF InBackups
  <2>6. x \in Int /\ x >= Since - KeepDailyDays
    BY <1>3, <2>1, <2>4
  <2>7. Complete(x)'
    BY <2>1, <2>5, <2>6, CompleteStays DEF InBackups, BackupInv, OnceInv
  <2>. QED
    BY <2>6, <2>7
<1>. QED
  BY <1>4, <1>5

LEMMA StaysBackedUp ==
    ASSUME InBackups, AccountInv, troubles <= MaxTroubles, MaxTroubles < KeepDailyDays,
           NEW t, NEW db, IsBackedUp(t, db)
    PROVE  IsBackedUp(t, db)'
<1>1. PICK f \in files : f.type = t /\ f.db = db /\ f.form = "gz"
  BY DEF IsBackedUp
<1>2. ASSUME NEW x, Holds(f.type, f.db, x)' PROVE IsBackedUp(t, db)'
  BY <1>1, <1>2 DEF Holds, IsBackedUp
<1>3. ASSUME \E x \in Int : Complete(x)' PROVE IsBackedUp(t, db)'
  <2>1. f.type \in TypeNames /\ InSeq(f.db, Databases[f.type])
    BY DEF InBackups, BackupInv, OnceInv, FilesInv
  <2>2. \E x \in Int : Holds(f.type, f.db, x)'
    BY <1>3, <2>1 DEF Complete, InSeq
  <2>. QED
    BY <1>2, <2>2
<1>4. /\ FirstDay.day \in Nat /\ today.day \in Nat /\ stamp.day \in Nat
      /\ KeepDailyDays \in Nat /\ f.stamp.day \in Nat /\ FirstDay.day <= f.stamp.day
  <2>1. f.stamp.day \in Nat /\ FirstDay.day <= f.stamp.day
    BY DEF InBackups, BackupInv, OnceInv, FilesInv, ScheduleInv, DaysFollow, Stamps,
       InCalendar, Day
  <2>. QED
    BY <2>1, DayNumbers DEF InBackups
<1>5. CASE CleanupDaily /\ today.day - f.stamp.day >= KeepDailyDays
  BY <1>3, <1>4, <1>5, GoodDayStays
<1>6. CASE Rotate /\ stamp.day - f.stamp.day > KeepDailyDays
  BY <1>3, <1>4, <1>6, GoodDayStays
<1>7. CASE CleanupMonthly /\ today.day - f.stamp.day > KeepDailyDays
  BY <1>3, <1>4, <1>7, GoodDayStays
<1>. QED
  BY <1>1, <1>2, <1>5, <1>6, <1>7, BackupStays DEF InBackups, BackupInv, OnceInv

LEMMA TroublesAreFew ==
    ASSUME troubles \in 0 .. MaxTroubles, [BackupNext]_backupVars
    PROVE  troubles' \in 0 .. MaxTroubles
<1>1. troubles' = troubles \/ Trouble
  BY DEF BackupNext, NoTrouble, Start, StartFails, ListDatabases, ListFails, TypeDone, Rotate,
     RotateFails, MkdirFails, Export, ExportFails, Compress, CompressFails, StartCleanup,
     CleanupDaily, CleanupDailyFails, CleanupMonthly, Stop, Midnight, backupVars
<1>. QED
  BY <1>1, RunAssumption DEF Trouble

(***************************************************************************)
(* A database that has been backed up never is without a compressed        *)
(* backup again, for every calendar, all lists of databases and every      *)
(* order of failures, kills and midnights.                                 *)
(***************************************************************************)
THEOREM BackupsRemain ==
    ASSUME Cron, KeptForLonger, MaxTroubles < KeepDailyDays
    PROVE  BackupSpec => BackupRemains
<1>. DEFINE Inv == BackupInv /\ AccountInv /\ troubles \in 0 .. MaxTroubles
<1>1. BackupInit => Inv
  <2>. SUFFICES ASSUME BackupInit PROVE Inv
    OBVIOUS
  <2>1. RunInv
    BY DEF BackupInit, RunInv, PlacesAgree, NothingForgotten, InType
  <2>2. ScheduleInv /\ OnceInv /\ AccountInv
    BY ScheduleStarts, OnceStarts, AccountStarts DEF Cron, Chosen
  <2>3. troubles \in 0 .. MaxTroubles
    BY RunAssumption DEF BackupInit
  <2>. QED
    BY <2>1, <2>2, <2>3 DEF BackupInv
<1>2. Inv /\ [BackupNext]_backupVars => Inv'
  <2>. SUFFICES ASSUME Inv, [BackupNext]_backupVars PROVE Inv'
    OBVIOUS
  <2>1. RunInv' /\ troubles' \in 0 .. MaxTroubles
    BY RunStep, TroublesAreFew DEF BackupInv
  <2>2. ScheduleInv'
    BY ScheduleStep DEF BackupInv, Cron, Chosen
  <2>3. OnceInv'
    BY OnceStep DEF BackupInv
  <2>4. AccountInv'
    BY AccountStep
  <2>. QED
    BY <2>1, <2>2, <2>3, <2>4 DEF BackupInv
<1>3. Inv /\ [BackupNext]_backupVars =>
          [\A t \in TypeNames, db \in DatabaseNames :
              IsBackedUp(t, db) => IsBackedUp(t, db)']_backupVars
  <2>. SUFFICES ASSUME Inv, [BackupNext]_backupVars, NEW t \in TypeNames, NEW db \in DatabaseNames,
                       IsBackedUp(t, db)
                PROVE  IsBackedUp(t, db)'
    OBVIOUS
  <2>1. InBackups /\ troubles <= MaxTroubles
    BY RunAssumption DEF InBackups
  <2>. QED
    BY <2>1, StaysBackedUp
<1>. QED
  BY <1>1, <1>2, <1>3, PTL DEF BackupSpec, BackupRemains
=============================================================================
