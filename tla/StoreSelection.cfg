SPECIFICATION Spec
CONSTANTS
    ClientKeys = {c1}
    SupplierKeys = {"S1", "s1"}
    ProductKeys = {"box"}
    None = None
    Fold <- Folding
    Catalogue <- Shop
    Prices = {}
    Quantities = {4}
    Days = {6}
    Deadlines = {0}
    MaxDate = 6
    MaxTransactions = 2
    MaxUnits = 4
    MaxNotifications = 1
INVARIANTS
    SelectionFine
