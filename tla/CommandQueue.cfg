SPECIFICATION FairSpec
CONSTANTS
    Threads = {t1, t2, t3}
    Main = Main
    None = None
    MAX_COMMANDS = 2
    Inputs <- MCInputs
    MaxSpurious = 1
INVARIANTS
    TypeOK
    PillIsLast
    WorkerNeverWaitsToInsert
PROPERTIES
    Dispatched
    Termination
