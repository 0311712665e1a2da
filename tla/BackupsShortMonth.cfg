\* The default settings, at the end of May.
SPECIFICATION BackupSpec
CONSTANTS
    postgres = postgres
    redis = redis
    blog = blog
    shop = shop
    Types <- OneType
    Databases <- OneDatabase
    DoWeekly = 0
    DoMonthly = 1
    KeepDailyDays = 7
    KeepWeeklyNum = 6
    KeepMonthlyNum = 3
    Commands = {"auto"}
    FirstDay <- February2025
    LastDay = 110
    RunsPerDay = 1
    MaxTroubles = 0

PROPERTIES MonthsStay
CHECK_DEADLOCK FALSE
