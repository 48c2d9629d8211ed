SPECIFICATION Spec
CONSTANTS
    Threads = {t1, t2}
    None = None
    Names = {"a", "b", "c"}
    NoName = ""
    INODE_TABLE_SIZE = 7
    MAX_DIR_ENTRIES = 3
    Requests <- MoveRequests
    Tables <- TwoDirsTables
    Ample = TRUE
SYMMETRY WorkerSymmetry
CHECK_DEADLOCK FALSE
INVARIANTS
    FirstPathHolds
    LocksAndPaths
    TreeShape
PROPERTIES
    ChangesAreLocked
    Linearizable
