SPECIFICATION Spec
CONSTANTS
    ClientKeys = {c1}
    SupplierKeys = {"S1", "W2"}
    ProductKeys = {"book", "box"}
    None = None
    Fold <- Folding
    Catalogue <- Shop
    Prices = {0, 300}
    Quantities = {4, 8}
    Days = {8, 11}
    Deadlines = {3}
    MaxDate = 19
    MaxUnits = 8
    MaxTransactions = 2
    MaxNotifications = 1
INVARIANTS
    TypeOK
    StockBalances
    IndexesAgree
    AccountsAgree
    StatusEarned
    BetterStatusPaysLess
PROPERTIES
    PriceNeverFalls
    PaidIsFinal
    EventsAreTold
