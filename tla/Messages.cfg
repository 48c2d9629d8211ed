SPECIFICATION Spec
CONSTANTS
    Connections = {c1, c2}
    u1 = u1
    u2 = u2
    hello = hello
    bye = bye
    essay = essay
    Users = {u1, u2}
    Texts = {hello, bye, essay}
    LongTexts = {essay}
    Requests <- MCRequests
    Absent = Absent
    Blank = Blank
    Torn = Torn
    Unset = Unset
    MAX_MESSAGES = 2
    MAX_RETRIEVED = 2
SYMMETRY ConnectionSymmetry
INVARIANTS
    TypeOK
    MessagesDense
    PostedIsStored
    RetrievedAsPosted
PROPERTIES
    NothingOverwritten
