SPECIFICATION MCSpec
CONSTANTS
    Requests = {r1, r2}
    Names = {n1, n2}
    Passwords = {p1, p2}
    Settings = {b1}
    Kinds = {"password"}
SYMMETRY Symmetry
PROPERTIES NoLostUpdate
