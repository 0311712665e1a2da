SPECIFICATION MCSpec
CONSTANTS
    Savers = {s1}
    UserLists = {l1, l2}
    Schedules = {b1, b2}
    Inodes = {i1, i2, i3}
    NoInode = NoInode
    Empty = Empty
    Garbled = Garbled
    Denied = FALSE
    Requests = {r1, r2}
    Names = {n1, n2}
    Passwords = {p1}
    Settings = {b1}
    Kinds = {"create"}
    Apps <- MCApps
    DefaultName <- MCDefaultName
    Options <- MCOptions
    Forms <- MCForms
    Linked <- MCLinked
    MaxFailures = 2
SYMMETRY Symmetry
INVARIANTS FileIsWhole SavesAreSaved NamesAreUnique SuccessIsComplete
PROPERTIES ImplementsAtomicConfig DataOutlivesApp DeletionCanBeRepeated
CHECK_DEADLOCK FALSE
