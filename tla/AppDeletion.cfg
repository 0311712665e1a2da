SPECIFICATION Spec
CONSTANTS
    Apps <- MCApps
    DefaultName <- MCDefaultName
    Options <- MCOptions
    Forms <- MCForms
    Linked <- MCLinkedTwice
    Requests = {r1}
    MaxFailures = 0
CHECK_DEADLOCK FALSE
INVARIANT LinkedDatabasesGo
