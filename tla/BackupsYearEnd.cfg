\* The default settings, across the end of a year of 52 weeks.
SPECIFICATION BackupSpec
CONSTANTS
    postgres = postgres
    redis = redis
    blog = blog
    shop = shop
    Types <- OneType
    Databases <- OneDatabase
    DoWeekly = 0
    DoMonthly = 1
    KeepDailyDays = 7
    KeepWeeklyNum = 6
    KeepMonthlyNum = 3
    Commands = {"auto"}
    FirstDay <- November2024
    LastDay = 110
    RunsPerDay = 1
    MaxTroubles = 0

PROPERTIES WeekliesStay
CHECK_DEADLOCK FALSE
