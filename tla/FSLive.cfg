SPECIFICATION FairSpec
CONSTANTS
    Threads = {t1, t2, t3}
    None = None
    Names = {"a", "b", "c"}
    NoName = ""
    INODE_TABLE_SIZE = 6
    MAX_DIR_ENTRIES = 2
    Requests <- LiveRequests
    Tables <- TwoDirsTables
    Ample = FALSE
INVARIANTS
    NoDeadlock
PROPERTIES
    Progress
    PrintSeesOneTree
