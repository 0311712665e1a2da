SPECIFICATION Spec
CONSTANTS
    Apps <- MCApps
    DefaultName <- MCDefaultName
    Options <- MCOptions
    Forms <- QueueForms
    Linked <- MCLinked
    Requests = {r1, r2}
    MaxFailures = 0
CHECK_DEADLOCK FALSE
INVARIANT LinkedAreListed
