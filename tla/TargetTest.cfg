SPECIFICATION Spec
CONSTANTS
    TARGETS = 2
    REPEATS = 2
    Away = Away
    MISSED = MISSED
    None = None
    MaxExtra = 2
INVARIANTS
    RecordsAreWhole
    CanGoOn
