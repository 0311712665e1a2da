SPECIFICATION Spec
CONSTANTS
    Savers = {s1, s2}
    UserLists = {l1, l2}
    Schedules = {b1}
    Inodes = {i1, i2, i3}
    NoInode = NoInode
    Empty = Empty
    Garbled = Garbled
    Denied = FALSE
SYMMETRY Symmetry
INVARIANTS FileIsWhole
