\* Three months of daily backups across the end of a year, during which one thing
\* goes wrong: three databases of two types.  Two syncs of the keys of two users.
SPECIFICATION HostSpec
CONSTANTS
    postgres = postgres
    redis = redis
    blog = blog
    shop = shop
    Types <- TwoTypes
    Databases <- TwoDatabases
    DoWeekly = 0
    DoMonthly = 15
    KeepDailyDays = 2
    KeepWeeklyNum = 3
    KeepMonthlyNum = 2
    Commands = {"auto"}
    FirstDay <- November2024
    LastDay = 95
    RunsPerDay = 1
    MaxTroubles = 1
    Users = {1, 2}
    Data = {k1, k2}
    OnlyKey = k1
    MaxMisnamed = 2
    ManualNames = {m1}
    Syncs = {s1, s2}
    NoEntry = NoEntry
SYMMETRY Symmetry
INVARIANTS FailuresAreLocal SuccessMeansInSync
PROPERTIES DailiesStay WeekliesLive MonthsStay BackupRemains
    OnlyManagedNamesGo FailedFetchIsHarmless NoChurn
