SPECIFICATION MCSpec
CONSTANTS
    Requests = {r1, r2}
    Names = {n1, n2}
    Passwords = {p1}
    Settings = {b1}
    Kinds = {"update", "delete"}
SYMMETRY Symmetry
INVARIANTS AdminRemains
