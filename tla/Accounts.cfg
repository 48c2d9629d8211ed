SPECIFICATION Spec
CONSTANTS
    Clients = {a, b}
    u = u
    p = p
    q = q
    news = news
    other = other
    Users = {u}
    Passwords = {p, q}
    Names = {news, other}
    Commands <- MCCommands
    Nobody = Nobody
    Absent = Absent
    Blank = Blank
    MAX_GROUPS = 1
    MAX_IN_FLIGHT = 1
SYMMETRY ClientSymmetry
INVARIANTS
    TypeOK
    DirectoryWhole
    DoneWhenTold
    BelievesLogin
