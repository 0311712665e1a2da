SPECIFICATION MCSpec
CONSTANTS
    Tasks = {t1, t2, t3}
    Sockets = {s1, s2, s3}
    NoTask = NoTask
    Exports = {e1, e2, e3}
    Names = {n1, n2}
    Apps = {"a", "b"}
    Shapes <- MCShapes
    MaxEvents = 3
    Readers <- MCReaders
    Links <- MCLinks
    PerApp = 2
    Shown = 2
    Newest = 2
    Context = 3
    Page = 3
    Pages = {p1, p2}
    TTL = 2
    MaxTime = 6
    Messages <- MCMessages
    MaxTyped = 3
INVARIANTS OneOwner FileIsOwned AnnouncedIsWhole DumpsAreRemoved AuditIsScoped AuditIsFaithful CommandsAreHandedOn
PROPERTIES
    ClaimedIsRemoved ChecksAreSpaced CacheIsMonotonic RefreshEnds
    LeftStreamsEnd DeadStreamsAreTold
