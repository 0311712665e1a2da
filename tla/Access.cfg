SPECIFICATION MCSpec
CONSTANTS
    Requests = {r1}
    Names = {n1, n2, n3}
    Passwords = {p1, p2}
    Settings = {s1}
    Kinds = {"create", "update", "password", "delete", "backup"}
    Browsers = {b1, b2}
    NoBrowser = NoBrowser
    Tokens <- MCTokens
    Grantees <- MCGrantees
    AppNames <- MCAppNames
    Pages <- MCPages
    ServiceTypes <- MCServiceTypes
    ServiceNames <- MCServiceNames
SYMMETRY Symmetry
INVARIANTS AdminRemains PagesMatchAccess GrantedAppsOnly
PROPERTIES ImplementsUserAdmin OwnUpdateKeepsSession
