SPECIFICATION Spec
CONSTANTS
    Threads = {t1, t2}
    None = None
    Names = {"a", "b", "c", "d"}
    NoName = ""
    INODE_TABLE_SIZE = 6
    MAX_DIR_ENTRIES = 3
    Requests <- DeadlockTest
    Tables <- TwoDirsTables
    Ample = FALSE
SYMMETRY WorkerSymmetry
INVARIANTS
    NoDeadlock
