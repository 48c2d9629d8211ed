SPECIFICATION Spec
CONSTANTS
    Threads = {t1, t2}
    None = None
    Names = {"a", "b", "c"}
    NoName = ""
    INODE_TABLE_SIZE = 4
    MAX_DIR_ENTRIES = 2
    Requests <- CreateDeleteRequests
    Tables <- EmptyTables
    Ample = FALSE
SYMMETRY WorkerSymmetry
INVARIANTS
    TypeOK
    LocksAndPaths
PROPERTIES
    Linearizable
