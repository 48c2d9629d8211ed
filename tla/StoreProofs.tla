---------------------------- MODULE StoreProofs ----------------------------
(***************************************************************************)
(* Theorems about Store, for every value of its constants.                 *)
(***************************************************************************)
EXTENDS Store, FiniteSetTheorems, WellFoundedInduction, TLAPS

LEMMA DiscountIsNatural ==
    ASSUME NEW st \in Statuses, NEW delay \in Int, NEW period \in Nat \ {0}
    PROVE  Discount(st, delay, period) \in Nat \ {0}
<1>1. NormalDiscount(delay, period) \in Nat \ {0}
  BY DEF NormalDiscount
<1>2. SelectionDiscount(delay, period) \in Nat \ {0}
  BY DEF SelectionDiscount
<1>3. EliteDiscount(delay, period) \in Nat \ {0}
  BY DEF EliteDiscount
<1>4. QED
  BY <1>1, <1>2, <1>3 DEF Discount, Statuses

\* A better status never has the worse discount or the higher fine.
LEMMA BetterStatusBetterDiscount ==
    ASSUME NEW delay \in Int, NEW period \in Nat \ {0}
    PROVE  /\ Discount("ELITE", delay, period)
                  <= Discount("SELECTION", delay, period)
           /\ Discount("SELECTION", delay, period)
                  <= Discount("NORMAL", delay, period)
BY DEF Discount, NormalDiscount, SelectionDiscount, EliteDiscount

\* What is due for a sale only grows with the days, whatever the status.
LEMMA DiscountGrows ==
    ASSUME NEW st \in Statuses, NEW period \in Nat \ {0},
           NEW early \in Int, NEW late \in Int, early <= late
    PROVE  Discount(st, early, period) <= Discount(st, late, period)
<1>1. NormalDiscount(early, period) <= NormalDiscount(late, period)
  BY DEF NormalDiscount
<1>2. SelectionDiscount(early, period) <= SelectionDiscount(late, period)
  BY DEF SelectionDiscount
<1>3. EliteDiscount(early, period) <= EliteDiscount(late, period)
  BY DEF EliteDiscount
<1>4. QED
  BY <1>1, <1>2, <1>3 DEF Discount, Statuses

-----------------------------------------------------------------------------
\* The inductive invariant.

Dense == DOMAIN transactions = 0 .. count - 1

\* While an order is typed in, it is the last transaction, its supplier has it
\* last too, and what it brought is still in stock.
OpenOrder ==
    ordering # None =>
        /\ Fold[ordering] \in DOMAIN suppliers
        /\ suppliers[Fold[ordering]].orders # << >>
        /\ count > 0
        /\ LastOrder = count - 1
        /\ transactions[count - 1] \in Order
        /\ \A p \in DOMAIN products :
               transactions[count - 1].items[p] <= products[p].stock

IInv == TypeOK /\ Dense /\ OpenOrder

LEMMA PutType ==
    ASSUME NEW f, NEW k, NEW v, NEW S, f \in [DOMAIN f -> S], v \in S
    PROVE  /\ DOMAIN Put(f, k, v) = DOMAIN f \cup {k}
           /\ Put(f, k, v) \in [DOMAIN Put(f, k, v) -> S]
BY DEF Put

LEMMA ProductIsNatural ==
    ASSUME NEW a \in Nat, NEW b \in Nat
    PROVE  a * b \in Nat
OBVIOUS

LEMMA InitIsTyped == Init => IInv
<1> SUFFICES ASSUME Init PROVE IInv
  OBVIOUS
<1>1. TypeOK
  BY DEF Init, TypeOK, Empty
<1>2. Dense /\ OpenOrder
  BY DEF Init, Empty, Dense, OpenOrder
<1>3. QED
  BY <1>1, <1>2 DEF IInv

LEMMA AdvanceDateTyped ==
    ASSUME IInv, NEW days \in Days, AdvanceDate(days)
    PROVE  IInv'
<1>1. days \in Int /\ date \in Nat
  BY InputsAssumption DEF IInv, TypeOK
<1>2. date' \in Nat
  BY <1>1 DEF AdvanceDate
<1>3. TypeOK'
  BY <1>2 DEF IInv, TypeOK, AdvanceDate, Sale, Order, Client, Supplier, Shelf
<1>4. QED
  BY <1>3 DEF IInv, AdvanceDate, Dense, OpenOrder, LastOrder

LEMMA RegisterClientTyped ==
    ASSUME IInv, NEW c \in ClientKeys, RegisterClient(c)
    PROVE  IInv'
<1>1. NewClient \in Client
  BY DEF NewClient, Client, Standing, Statuses
<1>2. /\ DOMAIN clients' = DOMAIN clients \cup {c}
      /\ clients' \in [DOMAIN clients' -> Client]
  BY <1>1, PutType DEF IInv, TypeOK, RegisterClient
<1>3. /\ DOMAIN products' = DOMAIN products
      /\ \A p \in DOMAIN products :
             /\ products'[p] \in Shelf(DOMAIN clients')
             /\ products'[p].stock = products[p].stock
  BY <1>2 DEF IInv, TypeOK, RegisterClient, Shelf
<1>4. products' \in [DOMAIN products' -> Shelf(DOMAIN clients')]
  BY <1>3 DEF RegisterClient
<1>5. Sale \subseteq Sale' /\ Order' = Order
  BY <1>2, <1>3 DEF Sale, Order
<1>6. TypeOK'
  BY <1>2, <1>3, <1>4, <1>5 DEF IInv, TypeOK, RegisterClient
<1>7. QED
  BY <1>6, <1>3, <1>5 DEF IInv, RegisterClient, Dense, OpenOrder, Idle

LEMMA RegisterSupplierTyped ==
    ASSUME IInv, NEW key \in SupplierKeys, RegisterSupplier(key)
    PROVE  IInv'
<1>1. [key |-> key, active |-> TRUE, orders |-> << >>] \in Supplier
  BY DEF Supplier
<1>2. /\ DOMAIN suppliers' = DOMAIN suppliers \cup {Fold[key]}
      /\ suppliers' \in [DOMAIN suppliers' -> Supplier]
  BY <1>1, PutType DEF IInv, TypeOK, RegisterSupplier
<1>3. DOMAIN suppliers' \subseteq SupplierKeys
  BY <1>2, KeysAssumption DEF IInv, TypeOK
<1>4. Sale' = Sale /\ Order' = Order
  BY DEF Sale, Order, RegisterSupplier
<1>5. TypeOK'
  BY <1>2, <1>3, <1>4 DEF IInv, TypeOK, RegisterSupplier
<1>6. QED
  BY <1>5 DEF IInv, RegisterSupplier, Dense, OpenOrder, Idle

LEMMA RegisterProductTyped ==
    ASSUME IInv, NEW p \in ProductKeys, RegisterProduct(p)
    PROVE  IInv'
<1>1. [price |-> Catalogue[p].price, stock |-> Catalogue[p].stock,
       observers |-> DOMAIN clients] \in Shelf(DOMAIN clients)
  BY CatalogueAssumption DEF Shelf, Product
<1>2. /\ DOMAIN products' = DOMAIN products \cup {p}
      /\ products' \in [DOMAIN products' -> Shelf(DOMAIN clients)]
  BY <1>1, PutType DEF IInv, TypeOK, RegisterProduct
<1>3. Sale \subseteq Sale' /\ Order' = Order
  BY <1>2 DEF Sale, Order, RegisterProduct
<1>4. TypeOK'
  BY <1>2, <1>3 DEF IInv, TypeOK, RegisterProduct
<1>5. QED
  BY <1>4 DEF IInv, RegisterProduct, Dense, OpenOrder, Idle

\* Telling those who watch a product changes no client but for the list.
LEMMA NotifyTyped ==
    ASSUME IInv, NEW p \in DOMAIN products, NEW event,
           NEW kind \in {"NEW", "BARGAIN"}, NEW amount \in Nat,
           Notify(p, event, kind, amount)
    PROVE  /\ DOMAIN clients' = DOMAIN clients
           /\ clients' \in [DOMAIN clients' -> Client]
           /\ \A c \in DOMAIN clients :
                  clients'[c].standing = clients[c].standing
<1>1. p \in ProductKeys
  BY DEF IInv, TypeOK
<1> DEFINE note == [kind |-> kind, product |-> p, amount |-> amount]
           Told_(c) == [clients[c] EXCEPT !.notifications = Append(@, note)]
<1>2. ASSUME NEW c \in DOMAIN clients
      PROVE  Told_(c) \in Client /\ Told_(c).standing = clients[c].standing
  <2>1. clients[c] \in Client
    BY DEF IInv, TypeOK
  <2>2. note \in [kind : {"NEW", "BARGAIN"}, product : ProductKeys,
                  amount : Nat]
    BY <1>1
  <2>3. Append(clients[c].notifications, note) \in
            Seq([kind : {"NEW", "BARGAIN"}, product : ProductKeys,
                 amount : Nat])
    BY <2>1, <2>2 DEF Client
  <2>4. QED
    BY <2>1, <2>3 DEF Client
<1>3. QED
  BY <1>2 DEF IInv, TypeOK, Notify, Told

LEMMA ChangePriceTyped ==
    ASSUME IInv, NEW p \in ProductKeys, NEW price \in Prices,
           ChangePrice(p, price)
    PROVE  IInv'
<1>1. p \in DOMAIN products /\ price \in Nat \ {0}
  BY InputsAssumption DEF ChangePrice
<1>2. /\ DOMAIN clients' = DOMAIN clients
      /\ clients' \in [DOMAIN clients' -> Client]
  BY <1>1, NotifyTyped DEF ChangePrice
<1>3. /\ DOMAIN products' = DOMAIN products
      /\ products' \in [DOMAIN products' -> Shelf(DOMAIN clients')]
  BY <1>1, <1>2 DEF IInv, TypeOK, ChangePrice, Shelf
<1>4. Sale' = Sale /\ Order' = Order
  BY <1>2, <1>3 DEF Sale, Order
<1>5. TypeOK'
  BY <1>2, <1>3, <1>4 DEF IInv, TypeOK, ChangePrice
<1>6. QED
  BY <1>5 DEF IInv, ChangePrice, Dense, OpenOrder, Idle

LEMMA ToggleNotificationsTyped ==
    ASSUME IInv, NEW c \in ClientKeys, NEW p \in ProductKeys,
           ToggleNotifications(c, p)
    PROVE  IInv'
<1>1. /\ DOMAIN products' = DOMAIN products
      /\ products' \in [DOMAIN products' -> Shelf(DOMAIN clients)]
      /\ \A r \in DOMAIN products : products'[r].stock = products[r].stock
  BY DEF IInv, TypeOK, ToggleNotifications, Shelf
<1>2. Sale' = Sale /\ Order' = Order
  BY <1>1 DEF Sale, Order, ToggleNotifications
<1>3. TypeOK'
  BY <1>1, <1>2 DEF IInv, TypeOK, ToggleNotifications
<1>4. QED
  BY <1>3 DEF IInv, ToggleNotifications, Dense, OpenOrder, Idle

LEMMA ShowClientTyped ==
    ASSUME IInv, NEW c \in ClientKeys, ShowClient(c)
    PROVE  IInv'
<1>1. /\ DOMAIN clients' = DOMAIN clients
      /\ clients' \in [DOMAIN clients' -> Client]
  <2>1. << >> \in Seq([kind : {"NEW", "BARGAIN"}, product : ProductKeys,
                      amount : Nat])
    OBVIOUS
  <2>2. [clients[c] EXCEPT !.notifications = << >>] \in Client
    BY <2>1 DEF IInv, TypeOK, ShowClient, Client
  <2>3. QED
    BY <2>2 DEF IInv, TypeOK, ShowClient
<1>2. Sale' = Sale /\ Order' = Order
  BY <1>1 DEF Sale, Order, ShowClient
<1>3. TypeOK'
  BY <1>1, <1>2 DEF IInv, TypeOK, ShowClient
<1>4. QED
  BY <1>3 DEF IInv, ShowClient, Dense, OpenOrder, Idle

LEMMA ToggleTransactionsTyped ==
    ASSUME IInv, NEW s, ToggleTransactions(s)
    PROVE  IInv'
<1>1. /\ DOMAIN suppliers' = DOMAIN suppliers
      /\ suppliers' \in [DOMAIN suppliers' -> Supplier]
  BY DEF IInv, TypeOK, ToggleTransactions, Supplier
<1>2. Sale' = Sale /\ Order' = Order
  BY DEF Sale, Order, ToggleTransactions
<1>3. TypeOK'
  BY <1>1, <1>2 DEF IInv, TypeOK, ToggleTransactions
<1>4. QED
  BY <1>3 DEF IInv, ToggleTransactions, Dense, OpenOrder, Idle

LEMMA RegisterSaleTyped ==
    ASSUME IInv, NEW c \in ClientKeys, NEW p \in ProductKeys,
           NEW d \in Deadlines, NEW quantity \in Quantities,
           RegisterSale(c, date + d, p, quantity)
    PROVE  IInv'
<1> DEFINE t == NewSale(c, date + d, p, quantity)
<1>1. /\ c \in DOMAIN clients /\ p \in DOMAIN products
      /\ quantity \in Nat \ {0} /\ quantity <= products[p].stock
      /\ date + d \in Int
  BY InputsAssumption DEF RegisterSale, IInv, TypeOK
<1>2. /\ DOMAIN products' = DOMAIN products
      /\ products' \in [DOMAIN products' -> Shelf(DOMAIN clients)]
  <2>1. products[p].stock - quantity \in Nat
    BY <1>1 DEF IInv, TypeOK, Shelf
  <2>2. QED
    BY <1>1, <2>1 DEF IInv, TypeOK, RegisterSale, Shelf
<1>3. /\ DOMAIN clients' = DOMAIN clients
      /\ clients' \in [DOMAIN clients' -> Client]
  <2>1. products[p].price * quantity \in Nat
    BY <1>1, ProductIsNatural DEF IInv, TypeOK, Shelf
  <2>2. clients[c].purchases + products[p].price * quantity \in Nat
    BY <1>1, <2>1 DEF IInv, TypeOK, Client
  <2>3. Append(clients[c].sales, count) \in Seq(Nat)
    BY <1>1 DEF IInv, TypeOK, Client
  <2>4. QED
    BY <1>1, <2>2, <2>3 DEF IInv, TypeOK, RegisterSale, Client
<1>4. Sale' = Sale /\ Order' = Order
  BY <1>2, <1>3 DEF Sale, Order
<1>5. t \in Sale
  BY <1>1 DEF NewSale, Sale
<1>6. /\ DOMAIN transactions' = DOMAIN transactions \cup {count}
      /\ transactions' \in [DOMAIN transactions' -> Sale \cup Order]
  BY <1>5, PutType DEF IInv, TypeOK, RegisterSale
<1>7. count' = count + 1 /\ count \in Nat
  BY DEF IInv, TypeOK, RegisterSale
<1>8. TypeOK'
  BY <1>2, <1>3, <1>4, <1>6, <1>7 DEF IInv, TypeOK, RegisterSale
<1>9. Dense'
  BY <1>6, <1>7 DEF IInv, Dense
<1>10. QED
  BY <1>8, <1>9 DEF IInv, RegisterSale, OpenOrder, Idle

\* A payment leaves points and a status behind.
LEMMA StandingIsTyped ==
    ASSUME NEW standing \in [status : Statuses, points : Nat],
           NEW value \in Nat, NEW delay \in Int
    PROVE  StandingAfter(standing, value, delay)
               \in [status : Statuses, points : Nat]
<1>1. standing.points + 10 * value \in Nat
  OBVIOUS
<1>2. standing.points \div 10 \in Nat /\ standing.points \div 4 \in Nat
  OBVIOUS
<1>3. QED
  BY <1>1, <1>2 DEF StandingAfter, NormalPay, SelectionPay, ElitePay,
                    Standing, Promoted, Statuses

\* What is due for a sale is a natural number.
LEMMA RealPriceTyped ==
    ASSUME TypeOK, NEW sale \in Sale, NEW day \in Int
    PROVE  RealPrice(sale, day) \in Nat
<1>1. /\ sale.product \in DOMAIN products /\ sale.client \in DOMAIN clients
      /\ sale.quantity \in Nat /\ sale.limit \in Int
  BY DEF Sale
<1>2. BaseValue(sale) \in Nat
  BY <1>1, ProductIsNatural DEF TypeOK, BaseValue, Shelf
<1>3. Discount(clients[sale.client].standing.status, day - sale.limit,
               Catalogue[sale.product].period) \in Nat
  <2>1. clients[sale.client].standing.status \in Statuses
    BY <1>1 DEF TypeOK, Client
  <2>2. Catalogue[sale.product].period \in Nat \ {0}
    BY <1>1, CatalogueAssumption DEF TypeOK, Product
  <2>3. day - sale.limit \in Int
    BY <1>1
  <2>4. QED
    BY <2>1, <2>2, <2>3, DiscountIsNatural
<1>4. QED
  BY <1>2, <1>3, ProductIsNatural DEF RealPrice

LEMMA PayTyped ==
    ASSUME IInv, NEW id \in DOMAIN transactions, Pay(id)
    PROVE  IInv'
<1> DEFINE t == transactions[id]
           value == RealPrice(t, date)
<1>1. t \in Sale
  BY DEF IInv, TypeOK, Pay, IsSale, Order
<1>2. value \in Nat
  BY <1>1, RealPriceTyped DEF IInv, TypeOK
<1>3. t.client \in DOMAIN clients /\ date - t.limit \in Int
  BY <1>1 DEF Sale, IInv, TypeOK
<1>4. /\ DOMAIN clients' = DOMAIN clients
      /\ clients' \in [DOMAIN clients' -> Client]
  <2>1. clients[t.client] \in Client
    BY <1>3 DEF IInv, TypeOK
  <2>2. clients[t.client].payed + value \in Nat
    BY <2>1, <1>2 DEF Client
  <2>3. StandingAfter(clients[t.client].standing, value, date - t.limit)
            \in [status : Statuses, points : Nat]
    BY <2>1, <1>2, <1>3, StandingIsTyped DEF Client
  <2>4. QED
    BY <2>1, <2>2, <2>3, <1>3 DEF IInv, TypeOK, Pay, Settle, Client
<1>5. Sale' = Sale /\ Order' = Order
  BY <1>4 DEF Sale, Order, Pay, Settle
<1>6. /\ DOMAIN transactions' = DOMAIN transactions
      /\ transactions' \in [DOMAIN transactions' -> Sale \cup Order]
  <2>1. [t EXCEPT !.payed = TRUE, !.date = date, !.valuePayed = value] \in Sale
    BY <1>1, <1>2 DEF Sale, IInv, TypeOK
  <2>2. QED
    BY <2>1 DEF IInv, TypeOK, Pay, Settle
<1>7. TypeOK'
  BY <1>4, <1>5, <1>6 DEF IInv, TypeOK, Pay, Settle
<1>8. QED
  BY <1>7, <1>6 DEF IInv, Pay, Settle, Dense, OpenOrder, Idle

\* Stock that arrives keeps the types and leaves the rest of the products alone.
LEMMA AddStockTyped ==
    ASSUME IInv, NEW p \in DOMAIN products, NEW amount \in Nat,
           AddStock(p, amount)
    PROVE  /\ DOMAIN clients' = DOMAIN clients
           /\ clients' \in [DOMAIN clients' -> Client]
           /\ DOMAIN products' = DOMAIN products
           /\ products' \in [DOMAIN products' -> Shelf(DOMAIN clients)]
           /\ \A r \in DOMAIN products :
                  products'[r].stock =
                      products[r].stock + (IF r = p THEN amount ELSE 0)
           /\ \A c \in DOMAIN clients :
                  clients'[c].standing = clients[c].standing
<1>1. products[p] \in Shelf(DOMAIN clients)
  BY DEF IInv, TypeOK
<1>2. products[p].stock + amount \in Nat
  BY <1>1 DEF Shelf
<1>3. /\ DOMAIN clients' = DOMAIN clients
      /\ clients' \in [DOMAIN clients' -> Client]
      /\ \A c \in DOMAIN clients :
             clients'[c].standing = clients[c].standing
  BY <1>2, NotifyTyped DEF AddStock
<1>4. /\ DOMAIN products' = DOMAIN products
      /\ products' \in [DOMAIN products' -> Shelf(DOMAIN clients)]
  BY <1>1, <1>2 DEF IInv, TypeOK, AddStock, Shelf
<1>5. \A r \in DOMAIN products :
          products'[r].stock =
              products[r].stock + (IF r = p THEN amount ELSE 0)
  BY <1>1 DEF IInv, TypeOK, AddStock, Shelf
<1>6. QED
  BY <1>3, <1>4, <1>5

LEMMA RegisterOrderTyped ==
    ASSUME IInv, NEW key \in SupplierKeys, NEW p \in ProductKeys,
           NEW quantity \in Quantities, NEW more \in BOOLEAN,
           RegisterOrder(key, p, quantity, more)
    PROVE  IInv'
<1> DEFINE s == Fold[key]
           t == [kind |-> "order", supplier |-> key, date |-> date,
                 items |-> [r \in ProductKeys |->
                               IF r = p THEN quantity ELSE 0],
                 cost |-> quantity * products[p].price]
<1>1. /\ s \in DOMAIN suppliers /\ p \in DOMAIN products
      /\ quantity \in Nat \ {0} /\ count \in Nat
      /\ AddStock(p, quantity) /\ count' = count + 1
  BY InputsAssumption DEF RegisterOrder, IInv, TypeOK
<1>2. /\ DOMAIN clients' = DOMAIN clients
      /\ clients' \in [DOMAIN clients' -> Client]
      /\ DOMAIN products' = DOMAIN products
      /\ products' \in [DOMAIN products' -> Shelf(DOMAIN clients)]
      /\ \A r \in DOMAIN products :
             products'[r].stock =
                 products[r].stock + (IF r = p THEN quantity ELSE 0)
  BY <1>1, AddStockTyped
<1>3. t \in Order
  <2>1. quantity * products[p].price \in Nat
    BY <1>1, ProductIsNatural DEF IInv, TypeOK, Shelf
  <2>2. t.items \in [ProductKeys -> Nat]
    BY <1>1
  <2>3. QED
    BY <2>1, <2>2 DEF Order, IInv, TypeOK
<1>4. Sale' = Sale /\ Order' = Order
  BY <1>2 DEF Sale, Order
<1>5. /\ DOMAIN transactions' = DOMAIN transactions \cup {count}
      /\ transactions' \in [DOMAIN transactions' -> Sale \cup Order]
      /\ transactions'[count] = t
  BY <1>3, PutType DEF IInv, TypeOK, RegisterOrder, Put
<1>6. /\ DOMAIN suppliers' = DOMAIN suppliers
      /\ suppliers' \in [DOMAIN suppliers' -> Supplier]
      /\ suppliers'[s].orders = Append(suppliers[s].orders, count)
  <2>1. suppliers[s] \in Supplier
    BY <1>1 DEF IInv, TypeOK
  <2>2. Append(suppliers[s].orders, count) \in Seq(Nat)
    BY <2>1, <1>1 DEF Supplier
  <2>3. QED
    BY <2>1, <2>2, <1>1 DEF IInv, TypeOK, RegisterOrder, Supplier
<1>7. TypeOK'
  <2>1. ordering' \in SupplierKeys \cup {None} /\ count' \in Nat /\ date' = date
    BY <1>1 DEF RegisterOrder
  <2>2. DOMAIN transactions' \subseteq Nat
    BY <1>1, <1>5 DEF IInv, TypeOK
  <2>3. QED
    BY <1>2, <1>4, <1>5, <1>6, <2>1, <2>2 DEF IInv, TypeOK
<1>8. Dense'
  BY <1>1, <1>5 DEF IInv, Dense
<1>9. OpenOrder'
  <2> SUFFICES ASSUME ordering' # None PROVE OpenOrder'
    BY DEF OpenOrder
  <2>1. ordering' = key
    BY DEF RegisterOrder
  <2>2. suppliers[s].orders \in Seq(Nat)
    BY <1>1 DEF IInv, TypeOK, Supplier
  <2>3. /\ suppliers'[s].orders # << >>
        /\ Last(suppliers'[s].orders) = count
    BY <2>2, <1>6, <1>1 DEF Last
  <2>4. LastOrder' = count' - 1 /\ count' - 1 = count
    BY <2>1, <2>3, <1>1 DEF LastOrder
  <2>5. \A r \in DOMAIN products' :
            transactions'[count].items[r] <= products'[r].stock
    BY <1>1, <1>2, <1>5 DEF IInv, TypeOK, Shelf
  <2>6. Fold[ordering'] \in DOMAIN suppliers'
    BY <1>1, <1>6, <2>1
  <2>7. suppliers'[Fold[ordering']].orders # << >> /\ count' > 0
    BY <1>1, <2>1, <2>3
  <2>8. transactions'[count' - 1] \in Order'
    BY <1>3, <1>4, <1>5, <2>4
  <2>9. \A r \in DOMAIN products' :
            transactions'[count' - 1].items[r] <= products'[r].stock
    BY <2>4, <2>5
  <2>10. QED
    BY <2>4, <2>6, <2>7, <2>8, <2>9 DEF OpenOrder
<1>10. QED
  BY <1>7, <1>8, <1>9 DEF IInv

LEMMA AddToLastOrderTyped ==
    ASSUME IInv, NEW p \in ProductKeys, NEW quantity \in Quantities,
           NEW more \in BOOLEAN, AddToLastOrder(p, quantity, more)
    PROVE  IInv'
<1> DEFINE s == Fold[ordering]
           t == transactions[count - 1]
           held == t.items[p] + quantity
           new == [t EXCEPT !.items[p] = held,
                            !.cost = @ + quantity * products[p].price]
<1>1. /\ ordering # None /\ p \in DOMAIN products
      /\ quantity \in Nat \ {0} /\ count \in Nat
      /\ AddStock(p, quantity)
      /\ UNCHANGED <<date, suppliers, count>>
  BY InputsAssumption DEF AddToLastOrder, Include, IInv, TypeOK
<1>2. /\ LastOrder = count - 1 /\ t \in Order /\ count > 0
      /\ s \in DOMAIN suppliers /\ suppliers[s].orders # << >>
      /\ \A r \in DOMAIN products : t.items[r] <= products[r].stock
  BY <1>1 DEF IInv, OpenOrder
<1>3. /\ DOMAIN clients' = DOMAIN clients
      /\ clients' \in [DOMAIN clients' -> Client]
      /\ DOMAIN products' = DOMAIN products
      /\ products' \in [DOMAIN products' -> Shelf(DOMAIN clients)]
      /\ \A r \in DOMAIN products :
             products'[r].stock =
                 products[r].stock + (IF r = p THEN quantity ELSE 0)
  BY <1>1, AddStockTyped
<1>4. /\ new \in Order
      /\ \A r \in ProductKeys :
             new.items[r] = t.items[r] + (IF r = p THEN quantity ELSE 0)
  <2>1. quantity * products[p].price \in Nat
    BY <1>1, ProductIsNatural DEF IInv, TypeOK, Shelf
  <2>2. t.cost + quantity * products[p].price \in Nat
    BY <2>1, <1>2 DEF Order
  <2>3. held \in Nat
    BY <1>1, <1>2 DEF Order
  <2>4. /\ [t.items EXCEPT ![p] = held] \in [ProductKeys -> Nat]
        /\ \A r \in ProductKeys : [t.items EXCEPT ![p] = held][r] =
                t.items[r] + (IF r = p THEN quantity ELSE 0)
    BY <2>3, <1>1, <1>2 DEF Order
  <2> DEFINE filled == [t.items EXCEPT ![p] = held]
             cost   == t.cost + quantity * products[p].price
  <2>5. [t EXCEPT !.items = filled, !.cost = cost] \in Order
    <3> HIDE DEF filled, cost, t
    <3>1. filled \in [ProductKeys -> Nat] /\ cost \in Nat
      BY <2>2, <2>4 DEF filled, cost
    <3>2. QED
      BY <3>1, <1>2 DEF Order
  <2>6. new = [t EXCEPT !.items = filled, !.cost = cost]
    BY <1>2 DEF Order
  <2>7. new.items = filled
    BY <2>6, <1>2 DEF Order
  <2>8. QED
    BY <2>4, <2>5, <2>6, <2>7
<1>5. Sale' = Sale /\ Order' = Order
  BY <1>3 DEF Sale, Order
<1>6. count - 1 \in DOMAIN transactions
  BY <1>1, <1>2 DEF IInv, Dense
<1>7. transactions' = [transactions EXCEPT ![count - 1] = new]
  BY <1>2 DEF AddToLastOrder, Include
<1>8. /\ DOMAIN transactions' = DOMAIN transactions
      /\ transactions' \in [DOMAIN transactions' -> Sale \cup Order]
      /\ transactions'[count - 1] = new
  BY <1>4, <1>6, <1>7 DEF IInv, TypeOK
<1>9. TypeOK'
  BY <1>1, <1>3, <1>5, <1>8 DEF IInv, TypeOK, AddToLastOrder, Include
<1>10. Dense'
  BY <1>1, <1>8 DEF IInv, Dense
<1>11. OpenOrder'
  <2> SUFFICES ASSUME ordering' # None PROVE OpenOrder'
    BY DEF OpenOrder
  <2>1. ordering' = ordering
    BY DEF AddToLastOrder, Include
  <2>2. LastOrder' = count' - 1
    BY <2>1, <1>1, <1>2 DEF LastOrder
  <2>3. \A r \in DOMAIN products' : new.items[r] <= products'[r].stock
    <3> SUFFICES ASSUME NEW r \in DOMAIN products
                 PROVE  new.items[r] <= products'[r].stock
      BY <1>3
    <3>1. r \in ProductKeys /\ products[r].stock \in Nat /\ t.items[r] \in Nat
      BY <1>2 DEF IInv, TypeOK, Shelf, Order
    <3>2. QED
      BY <3>1, <1>1, <1>2, <1>3, <1>4
  <2>4. QED
    BY <1>1, <1>2, <1>4, <1>5, <1>8, <2>1, <2>2, <2>3 DEF OpenOrder
<1>12. QED
  BY <1>9, <1>10, <1>11 DEF IInv

LEMMA CancelLastOrderTyped ==
    ASSUME IInv, CancelLastOrder
    PROVE  IInv'
<1> DEFINE s == Fold[ordering]
           items == transactions[count - 1].items
<1>1. /\ ordering # None /\ count \in Nat /\ Cancel(s)
      /\ count' = count - 1 /\ ordering' = None
      /\ UNCHANGED <<date, clients>>
  BY DEF CancelLastOrder, IInv, TypeOK
<1>2. /\ LastOrder = count - 1 /\ transactions[count - 1] \in Order
      /\ count > 0 /\ s \in DOMAIN suppliers /\ suppliers[s].orders # << >>
      /\ \A r \in DOMAIN products : items[r] <= products[r].stock
  BY <1>1 DEF IInv, OpenOrder
<1>3. /\ DOMAIN products' = DOMAIN products
      /\ products' \in [DOMAIN products' -> Shelf(DOMAIN clients)]
  <2>1. products' = [p \in DOMAIN products |->
                        [products[p] EXCEPT !.stock = @ - items[p]]]
    BY <1>1, <1>2 DEF Cancel, LastOrder
  <2>2. ASSUME NEW p \in DOMAIN products
        PROVE  [products[p] EXCEPT !.stock = @ - items[p]]
                   \in Shelf(DOMAIN clients)
    <3>1. p \in ProductKeys /\ products[p] \in Shelf(DOMAIN clients)
      BY DEF IInv, TypeOK
    <3>2. items[p] \in Nat /\ products[p].stock \in Nat
      BY <3>1, <1>2 DEF Order, Shelf
    <3>3. products[p].stock - items[p] \in Nat
      BY <3>2, <1>2
    <3>4. QED
      BY <3>1, <3>3 DEF Shelf
  <2>3. QED
    BY <2>1, <2>2
<1>4. /\ DOMAIN suppliers' = DOMAIN suppliers
      /\ suppliers' \in [DOMAIN suppliers' -> Supplier]
  <2>1. suppliers[s] \in Supplier
    BY <1>2 DEF IInv, TypeOK
  <2>2. Front(suppliers[s].orders) \in Seq(Nat)
    BY <2>1, <1>2 DEF Supplier, Front
  <2>3. QED
    BY <2>1, <2>2, <1>1, <1>2 DEF IInv, TypeOK, Cancel, Supplier
<1>5. Max(DOMAIN transactions) = count - 1
  BY <1>1, <1>2 DEF IInv, Dense, Max
<1>6. /\ DOMAIN transactions' = 0 .. count' - 1
      /\ transactions' \in [DOMAIN transactions' -> Sale \cup Order]
  BY <1>1, <1>2, <1>5 DEF IInv, TypeOK, Dense, CancelLastOrder, Restrict
<1>7. Sale' = Sale /\ Order' = Order
  BY <1>1, <1>3 DEF Sale, Order
<1>8. count' \in Nat
  BY <1>1, <1>2
<1>9. TypeOK'
  BY <1>1, <1>3, <1>4, <1>6, <1>7, <1>8 DEF IInv, TypeOK
<1>10. QED
  BY <1>1, <1>6, <1>9 DEF IInv, Dense, OpenOrder

THEOREM Inductive == Spec => []IInv
<1>1. Init => IInv
  BY InitIsTyped
<1>2. IInv /\ [Next]_vars => IInv'
  <2> SUFFICES ASSUME IInv, [Next]_vars PROVE IInv'
    OBVIOUS
  <2>1. CASE UNCHANGED vars
    BY <2>1 DEF vars, IInv, TypeOK, Dense, OpenOrder, LastOrder, Client,
                Supplier, Shelf, Sale, Order
  <2>2. CASE \E days \in Days : AdvanceDate(days)
    BY <2>2, AdvanceDateTyped
  <2>3. CASE \E c \in ClientKeys : RegisterClient(c) \/ ShowClient(c)
    BY <2>3, RegisterClientTyped, ShowClientTyped
  <2>4. CASE \E key \in SupplierKeys : \/ RegisterSupplier(key)
                                       \/ ToggleTransactions(Fold[key])
    BY <2>4, RegisterSupplierTyped, ToggleTransactionsTyped
  <2>5. CASE \E p \in ProductKeys : RegisterProduct(p)
    BY <2>5, RegisterProductTyped
  <2>6. CASE \E p \in ProductKeys, price \in Prices : ChangePrice(p, price)
    BY <2>6, ChangePriceTyped
  <2>7. CASE \E c \in ClientKeys, p \in ProductKeys : ToggleNotifications(c, p)
    BY <2>7, ToggleNotificationsTyped
  <2>8. CASE \E c \in ClientKeys, p \in ProductKeys, d \in Deadlines,
                quantity \in Quantities : RegisterSale(c, date + d, p, quantity)
    BY <2>8, RegisterSaleTyped
  <2>9. CASE \E id \in DOMAIN transactions : Pay(id)
    BY <2>9, PayTyped
  <2>10. CASE \E key \in SupplierKeys, p \in ProductKeys,
                 quantity \in Quantities, more \in BOOLEAN :
                    RegisterOrder(key, p, quantity, more)
    BY <2>10, RegisterOrderTyped
  <2>11. CASE \E p \in ProductKeys, quantity \in Quantities, more \in BOOLEAN :
                    AddToLastOrder(p, quantity, more)
    BY <2>11, AddToLastOrderTyped
  <2>12. CASE CancelLastOrder
    BY <2>12, CancelLastOrderTyped
  <2>13. QED
    BY <2>1, <2>2, <2>3, <2>4, <2>5, <2>6, <2>7, <2>8, <2>9, <2>10, <2>11,
       <2>12 DEF Next
<1>3. QED
  BY <1>1, <1>2, PTL DEF Spec

\* Every variable keeps its type; no stock is ever negative, and a cancelled
\* order takes back no more than is there.
THEOREM TypeCorrect == Spec => []TypeOK
<1>1. IInv => TypeOK
  BY DEF IInv
<1>2. QED
  BY <1>1, Inductive, PTL

\* A better status never costs its holder more, for any product, deadline and
\* day.
THEOREM BetterStatusNeverCostsMore == Spec => []BetterStatusPaysLess
<1>1. TypeOK => BetterStatusPaysLess
  <2> SUFFICES ASSUME TypeOK, NEW id \in Unpaid
               PROVE  LET sale   == transactions[id]
                          Of(st) == Discount(st, date - sale.limit,
                                             Catalogue[sale.product].period)
                      IN  /\ Of("ELITE") <= Of("SELECTION")
                          /\ Of("SELECTION") <= Of("NORMAL")
    BY DEF BetterStatusPaysLess
  <2> DEFINE sale == transactions[id]
  <2>1. sale \in Sale
    BY DEF TypeOK, Unpaid, IsSale, Order
  <2>2. date - sale.limit \in Int
    BY <2>1 DEF TypeOK, Sale
  <2>3. Catalogue[sale.product].period \in Nat \ {0}
    BY <2>1, CatalogueAssumption DEF TypeOK, Sale, Product
  <2>4. QED
    BY <2>2, <2>3, BetterStatusBetterDiscount
<1>2. QED
  BY <1>1, TypeCorrect, PTL

LEMMA DateMoves ==
    [Next]_vars => date' = date \/ \E days \in Days : AdvanceDate(days)
<1> SUFFICES ASSUME [Next]_vars, ~ \E days \in Days : AdvanceDate(days)
             PROVE  date' = date
  OBVIOUS
<1>1. CASE UNCHANGED vars
  BY <1>1 DEF vars
<1>2. CASE \E c \in ClientKeys : RegisterClient(c) \/ ShowClient(c)
  BY <1>2 DEF RegisterClient, ShowClient
<1>3. CASE \E key \in SupplierKeys : \/ RegisterSupplier(key)
                                     \/ ToggleTransactions(Fold[key])
  BY <1>3 DEF RegisterSupplier, ToggleTransactions
<1>4. CASE \E p \in ProductKeys : RegisterProduct(p)
  BY <1>4 DEF RegisterProduct
<1>5. CASE \E p \in ProductKeys, price \in Prices : ChangePrice(p, price)
  BY <1>5 DEF ChangePrice
<1>6. CASE \E c \in ClientKeys, p \in ProductKeys : ToggleNotifications(c, p)
  BY <1>6 DEF ToggleNotifications
<1>7. CASE \E c \in ClientKeys, p \in ProductKeys, d \in Deadlines,
              quantity \in Quantities : RegisterSale(c, date + d, p, quantity)
  BY <1>7 DEF RegisterSale
<1>8. CASE \E id \in DOMAIN transactions : Pay(id)
  BY <1>8 DEF Pay, Settle
<1>9. CASE \E key \in SupplierKeys, p \in ProductKeys,
              quantity \in Quantities, more \in BOOLEAN :
                 RegisterOrder(key, p, quantity, more)
  BY <1>9 DEF RegisterOrder
<1>10. CASE \E p \in ProductKeys, quantity \in Quantities, more \in BOOLEAN :
                 AddToLastOrder(p, quantity, more)
  BY <1>10 DEF AddToLastOrder, Include
<1>11. CASE CancelLastOrder
  BY <1>11 DEF CancelLastOrder
<1>12. QED
  BY <1>1, <1>2, <1>3, <1>4, <1>5, <1>6, <1>7, <1>8, <1>9, <1>10, <1>11
  DEF Next

LEMMA ProductGrows ==
    ASSUME NEW a \in Nat, NEW b \in Nat, NEW c \in Nat, b <= c
    PROVE  a * b <= a * c
OBVIOUS

\* Waiting never makes a sale cheaper, for any product, deadline, status and
\* number of days.
THEOREM WaitingNeverPays == Spec => PriceNeverFalls
<1>1. IInv /\ [Next]_vars =>
          (date' > date => \A id \in Unpaid :
               RealPrice(transactions[id], date)
                   <= RealPrice(transactions[id], date'))
  <2> SUFFICES ASSUME IInv, [Next]_vars, date' > date, NEW id \in Unpaid
               PROVE  RealPrice(transactions[id], date)
                          <= RealPrice(transactions[id], date')
    OBVIOUS
  <2> DEFINE sale == transactions[id]
             st   == clients[sale.client].standing.status
             N    == Catalogue[sale.product].period
  <2>1. sale \in Sale /\ date \in Nat
    BY DEF IInv, TypeOK, Unpaid, IsSale, Order
  <2>2. date' \in Int
    <3>1. PICK days \in Days : AdvanceDate(days)
      BY <2>1, DateMoves
    <3>2. QED
      BY <3>1, <2>1, InputsAssumption DEF AdvanceDate
  <2>3. /\ st \in Statuses /\ N \in Nat \ {0}
        /\ sale.limit \in Int
        /\ BaseValue(sale) \in Nat
    <3>1. /\ sale.product \in DOMAIN products /\ sale.client \in DOMAIN clients
          /\ sale.quantity \in Nat /\ sale.limit \in Int
      BY <2>1 DEF Sale
    <3>2. products[sale.product].price \in Nat
      BY <3>1 DEF IInv, TypeOK, Shelf
    <3>3. st \in Statuses
      BY <3>1 DEF IInv, TypeOK, Client
    <3>4. N \in Nat \ {0}
      BY <3>1, CatalogueAssumption DEF IInv, TypeOK, Product
    <3>5. QED
      BY <3>1, <3>2, <3>3, <3>4, ProductIsNatural DEF BaseValue
  <2>4. date - sale.limit \in Int /\ date' - sale.limit \in Int
        /\ date - sale.limit <= date' - sale.limit
    BY <2>1, <2>2, <2>3
  <2>5. Discount(st, date - sale.limit, N) <= Discount(st, date' - sale.limit, N)
    BY <2>3, <2>4, DiscountGrows
  <2>6. /\ Discount(st, date - sale.limit, N) \in Nat
        /\ Discount(st, date' - sale.limit, N) \in Nat
    BY <2>3, <2>4, DiscountIsNatural
  <2>7. QED
    BY <2>3, <2>5, <2>6, ProductGrows DEF RealPrice
<1>2. QED
  BY <1>1, Inductive, PTL DEF Spec, PriceNeverFalls

-----------------------------------------------------------------------------
\* The statuses.

LEMMA PaymentKeepsStatusEarned ==
    ASSUME NEW standing \in [status : Statuses, points : Nat],
           NEW value \in Nat, NEW delay \in Int,
           standing.status = "SELECTION" => standing.points > Selection,
           standing.status = "ELITE" => standing.points > Elite
    PROVE  LET after == StandingAfter(standing, value, delay)
           IN  /\ after.status = "SELECTION" => after.points > Selection
               /\ after.status = "ELITE" => after.points > Elite
<1> DEFINE earned == standing.points + 10 * value
<1>1. earned \in Nat /\ earned >= standing.points
  OBVIOUS
<1>2. standing.points > Elite => standing.points \div 4 > Selection
  BY DEF Elite, Selection
<1>3. CASE standing.status = "NORMAL"
  BY <1>1, <1>3 DEF StandingAfter, NormalPay, Standing, Promoted
<1>4. CASE standing.status = "SELECTION"
  BY <1>1, <1>4 DEF StandingAfter, SelectionPay, Standing, Selection, Elite
<1>5. CASE standing.status = "ELITE"
  BY <1>1, <1>2, <1>5 DEF StandingAfter, ElitePay, Standing, Selection, Elite
<1>6. QED
  BY <1>3, <1>4, <1>5 DEF Statuses

\* Nobody holds a status with fewer points than it takes, after any sequence of
\* payments on time and late.
THEOREM StatusIsEarned == Spec => []StatusEarned
<1>1. Init => StatusEarned
  BY DEF Init, Empty, StatusEarned
<1>2. IInv /\ StatusEarned /\ [Next]_vars => StatusEarned'
  <2> SUFFICES ASSUME IInv, StatusEarned, [Next]_vars PROVE StatusEarned'
    OBVIOUS
  <2> DEFINE Same == \A c \in DOMAIN clients' :
                         /\ c \in DOMAIN clients
                         /\ clients'[c].standing = clients[c].standing
  <2>1. ASSUME Same PROVE StatusEarned'
    BY <2>1 DEF StatusEarned
  <2>2. CASE UNCHANGED clients
    BY <2>1, <2>2
  <2>3. ASSUME NEW c \in ClientKeys, RegisterClient(c)
        PROVE  StatusEarned'
    <3>1. \A k \in DOMAIN clients' :
              IF k = c THEN clients'[k].standing.status = "NORMAL"
              ELSE k \in DOMAIN clients /\ clients'[k] = clients[k]
      BY <2>3 DEF RegisterClient, Put, NewClient, Standing
    <3>2. QED
      BY <3>1 DEF StatusEarned
  <2>4. ASSUME NEW c \in ClientKeys, ShowClient(c)
        PROVE  StatusEarned'
    <3>1. Same
      BY <2>4 DEF ShowClient, IInv, TypeOK, Client
    <3>2. QED
      BY <2>1, <3>1
  <2>5. ASSUME NEW p \in ProductKeys, NEW price \in Prices,
               ChangePrice(p, price)
        PROVE  StatusEarned'
    <3>1. p \in DOMAIN products /\ price \in Nat
      BY <2>5, InputsAssumption DEF ChangePrice
    <3>2. Same
      BY <2>5, <3>1, NotifyTyped DEF ChangePrice
    <3>3. QED
      BY <2>1, <3>2
  <2>6. ASSUME NEW c \in ClientKeys, NEW p \in ProductKeys,
               NEW d \in Deadlines, NEW quantity \in Quantities,
               RegisterSale(c, date + d, p, quantity)
        PROVE  StatusEarned'
    <3>1. Same
      BY <2>6 DEF RegisterSale, IInv, TypeOK, Client
    <3>2. QED
      BY <2>1, <3>1
  <2>7. ASSUME NEW id \in DOMAIN transactions, Pay(id)
        PROVE  StatusEarned'
    <3> DEFINE sale  == transactions[id]
               value == RealPrice(sale, date)
               delay == date - sale.limit
               old   == clients[sale.client].standing
    <3>1. sale \in Sale /\ value \in Nat /\ delay \in Int
          /\ sale.client \in DOMAIN clients
      <4>1. sale \in Sale /\ date \in Int
        BY <2>7 DEF IInv, TypeOK, Pay, IsSale, Order
      <4>2. sale.limit \in Int /\ sale.client \in DOMAIN clients
        BY <4>1 DEF Sale
      <4>3. QED
        BY <4>1, <4>2, RealPriceTyped DEF IInv
    <3>2. old \in [status : Statuses, points : Nat]
      BY <3>1 DEF IInv, TypeOK, Client
    <3>3. DOMAIN clients' = DOMAIN clients
      BY <2>7 DEF Pay, Settle
    <3>4. \A c \in DOMAIN clients :
              clients'[c].standing = IF c = sale.client
                                     THEN StandingAfter(old, value, delay)
                                     ELSE clients[c].standing
      BY <2>7, <3>1 DEF Pay, Settle, IInv, TypeOK, Client
    <3>5. /\ old.status = "SELECTION" => old.points > Selection
          /\ old.status = "ELITE" => old.points > Elite
      BY <3>1 DEF StatusEarned
    <3>6. LET after == StandingAfter(old, value, delay)
          IN  /\ after.status = "SELECTION" => after.points > Selection
              /\ after.status = "ELITE" => after.points > Elite
      BY <3>1, <3>2, <3>5, PaymentKeepsStatusEarned
    <3>7. QED
      BY <3>3, <3>4, <3>6 DEF StatusEarned
  <2>8. ASSUME NEW p \in DOMAIN products, NEW quantity \in Quantities,
               AddStock(p, quantity)
        PROVE  StatusEarned'
    <3>1. Same
      BY <2>8, AddStockTyped, InputsAssumption
    <3>2. QED
      BY <2>1, <3>1
  <2>9. CASE \E key \in SupplierKeys, p \in ProductKeys,
                quantity \in Quantities, more \in BOOLEAN :
                   RegisterOrder(key, p, quantity, more)
    BY <2>8, <2>9 DEF RegisterOrder
  <2>10. CASE \E p \in ProductKeys, quantity \in Quantities, more \in BOOLEAN :
                   AddToLastOrder(p, quantity, more)
    BY <2>8, <2>10 DEF AddToLastOrder, Include
  <2>11. CASE \/ \E days \in Days : AdvanceDate(days)
              \/ \E key \in SupplierKeys : \/ RegisterSupplier(key)
                                           \/ ToggleTransactions(Fold[key])
              \/ \E p \in ProductKeys : RegisterProduct(p)
              \/ \E c \in ClientKeys, p \in ProductKeys :
                     ToggleNotifications(c, p)
              \/ CancelLastOrder
              \/ UNCHANGED vars
    BY <2>2, <2>11 DEF AdvanceDate, RegisterSupplier, ToggleTransactions,
         RegisterProduct, ToggleNotifications, CancelLastOrder, vars
  <2>12. QED
    BY <2>3, <2>4, <2>5, <2>6, <2>7, <2>9, <2>10, <2>11 DEF Next
<1>3. QED
  BY <1>1, <1>2, Inductive, PTL DEF Spec

-----------------------------------------------------------------------------
\* What is paid is never changed: the sales, and the orders once their command
\* has ended, are those of a state before for ever.
THEOREM PaidStaysFinal == Spec => PaidIsFinal
<1> DEFINE Kept(id) == /\ id \in DOMAIN transactions'
                       /\ transactions'[id] = transactions[id]
<1>1. IInv /\ [Next]_vars =>
          \A id \in DOMAIN transactions \ Unpaid :
              IsSale(transactions[id]) \/ Idle => Kept(id)
  <2> SUFFICES ASSUME IInv, [Next]_vars, NEW id \in DOMAIN transactions \ Unpaid,
                      IsSale(transactions[id]) \/ Idle
               PROVE  Kept(id)
    OBVIOUS
  <2>1. CASE UNCHANGED transactions
    BY <2>1
  <2>2. ASSUME NEW v, transactions' = Put(transactions, count, v)
        PROVE  Kept(id)
    <3>1. id # count
      BY DEF IInv, TypeOK, Dense
    <3>2. QED
      BY <2>2, <3>1 DEF Put
  <2>3. CASE \E k \in DOMAIN transactions : Pay(k)
    <3>1. PICK k \in DOMAIN transactions : Pay(k)
      BY <2>3
    <3>2. id # k
      BY <3>1 DEF Pay, Unpaid
    <3>3. QED
      BY <3>1, <3>2 DEF Pay, Settle
  <2>4. ASSUME ordering # None
        PROVE  /\ LastOrder = count - 1 /\ id # count - 1
               /\ count - 1 \in DOMAIN transactions
    <3>1. transactions[count - 1] \in Order /\ LastOrder = count - 1
          /\ count > 0
      BY <2>4 DEF IInv, OpenOrder
    <3>2. IsSale(transactions[id])
      BY <2>4 DEF Idle
    <3>3. ~IsSale(transactions[count - 1])
      BY <3>1 DEF Order, IsSale
    <3>4. QED
      BY <3>1, <3>2, <3>3 DEF IInv, TypeOK, Dense
  <2>5. CASE \E p \in ProductKeys, quantity \in Quantities, more \in BOOLEAN :
                 AddToLastOrder(p, quantity, more)
    <3>1. ordering # None
      BY <2>5 DEF AddToLastOrder
    <3>2. PICK p \in ProductKeys, quantity \in Quantities :
              transactions' = [transactions EXCEPT
                  ![LastOrder].items[p] = transactions[LastOrder].items[p]
                                              + quantity,
                  ![LastOrder].cost = @ + quantity * products[p].price]
      BY <2>5 DEF AddToLastOrder, Include
    <3>3. id # LastOrder
      BY <2>4, <3>1
    <3>4. QED
      BY <3>2, <3>3
  <2>6. CASE CancelLastOrder
    <3>1. ordering # None
      BY <2>6 DEF CancelLastOrder
    <3>2. Max(DOMAIN transactions) = count - 1
      BY <2>4, <3>1 DEF IInv, TypeOK, Dense, Max
    <3>3. QED
      BY <2>4, <2>6, <3>1, <3>2 DEF CancelLastOrder, Restrict
  <2>7. CASE \E c \in ClientKeys, p \in ProductKeys, d \in Deadlines,
                quantity \in Quantities : RegisterSale(c, date + d, p, quantity)
    BY <2>2, <2>7 DEF RegisterSale
  <2>8. CASE \E key \in SupplierKeys, p \in ProductKeys,
                quantity \in Quantities, more \in BOOLEAN :
                   RegisterOrder(key, p, quantity, more)
    BY <2>2, <2>8 DEF RegisterOrder
  <2>9. CASE \E c \in ClientKeys : RegisterClient(c) \/ ShowClient(c)
    BY <2>1, <2>9 DEF RegisterClient, ShowClient
  <2>10. CASE \E key \in SupplierKeys : \/ RegisterSupplier(key)
                                        \/ ToggleTransactions(Fold[key])
    BY <2>1, <2>10 DEF RegisterSupplier, ToggleTransactions
  <2>11. CASE \/ \E days \in Days : AdvanceDate(days)
              \/ \E p \in ProductKeys : RegisterProduct(p)
              \/ \E p \in ProductKeys, price \in Prices : ChangePrice(p, price)
              \/ \E c \in ClientKeys, p \in ProductKeys :
                     ToggleNotifications(c, p)
              \/ UNCHANGED vars
    BY <2>1, <2>11 DEF AdvanceDate, RegisterProduct, ChangePrice,
         ToggleNotifications, vars
  <2>12. QED
    BY <2>3, <2>5, <2>6, <2>7, <2>8, <2>9, <2>10, <2>11 DEF Next
<1>2. QED
  BY <1>1, Inductive, PTL DEF Spec, PaidIsFinal

-----------------------------------------------------------------------------
\* The notifications.

\* Client c is told, in this step, of an event about p.
ToldIn(c, p, kind, amount) ==
    clients'[c].notifications =
        Append(clients[c].notifications,
               [kind |-> kind, product |-> p, amount |-> amount])

\* One product's stock or price is set, and those who watch it are told of it.
LEMMA NotifyTells ==
    ASSUME IInv, NEW p \in DOMAIN products, NEW c \in products[p].observers,
           NEW kind, NEW amount, NEW event \in BOOLEAN, event,
           Notify(p, event, kind, amount)
    PROVE  ToldIn(c, p, kind, amount)
<1>1. c \in DOMAIN clients
  BY DEF IInv, TypeOK, Shelf
<1>2. clients[c] \in Client
  BY <1>1 DEF IInv, TypeOK
<1>3. clients'[c] = [clients[c] EXCEPT !.notifications =
                        Append(@, [kind |-> kind, product |-> p,
                                   amount |-> amount])]
  BY <1>1 DEF Notify, Told
<1>4. QED
  BY <1>2, <1>3 DEF ToldIn, Client

LEMMA AddStockTells ==
    ASSUME IInv, NEW q \in DOMAIN products, NEW quantity \in Quantities,
           AddStock(q, quantity),
           NEW p \in DOMAIN products, NEW c \in products[p].observers
    PROVE  /\ products'[p].price = products[p].price
           /\ products[p].stock = 0 /\ products'[p].stock > 0 =>
                  ToldIn(c, p, "NEW", products'[p].stock)
<1>1. products[p] \in Shelf(DOMAIN clients) /\ products[q] \in Shelf(DOMAIN clients)
  BY DEF IInv, TypeOK
<1>2. products' = [products EXCEPT ![q].stock = @ + quantity]
  BY DEF AddStock
<1>3. products'[p].price = products[p].price
  BY <1>1, <1>2 DEF Shelf
<1>4. ASSUME products[p].stock = 0, products'[p].stock > 0
      PROVE  ToldIn(c, p, "NEW", products'[p].stock)
  <2>1. p = q
    BY <1>1, <1>2, <1>4 DEF Shelf
  <2>2. products'[p].stock = products[p].stock + quantity
    BY <1>1, <1>2, <2>1 DEF Shelf
  <2>3. quantity > 0
    BY InputsAssumption
  <2>4. Notify(p, products[p].stock = 0 /\ quantity > 0, "NEW",
               products[p].stock + quantity)
    BY <2>1 DEF AddStock
  <2>5. QED
    BY <1>4, <2>2, <2>3, <2>4, NotifyTells
<1>5. QED
  BY <1>3, <1>4

\* No event.
LEMMA NothingToTell ==
    ASSUME NEW p \in DOMAIN products, products[p].stock \in Nat,
           products[p].price \in Nat, products'[p].price = products[p].price,
           products'[p].stock \in Int, products'[p].stock <= products[p].stock
    PROVE  /\ ~(products[p].stock = 0 /\ products'[p].stock > 0)
           /\ ~(products'[p].price < products[p].price)
OBVIOUS

\* Who watches a product is told of each event about it in the step that makes
\* it, with the new stock or price (addStock and setPrice of Product.java).
THEOREM WatchersAreTold == Spec => EventsAreTold
<1> DEFINE Kept(p, c) ==
        /\ products[p].stock = 0 /\ products'[p].stock > 0 =>
               ToldIn(c, p, "NEW", products'[p].stock)
        /\ products'[p].price < products[p].price =>
               ToldIn(c, p, "BARGAIN", products'[p].price)
<1>1. IInv /\ [Next]_vars =>
          \A p \in DOMAIN products : \A c \in products[p].observers : Kept(p, c)
  <2> SUFFICES ASSUME IInv, [Next]_vars, NEW p \in DOMAIN products,
                      NEW c \in products[p].observers
               PROVE  Kept(p, c)
    OBVIOUS
  <2>1. products[p] \in Shelf(DOMAIN clients)
        /\ products[p].stock \in Nat /\ products[p].price \in Nat
    BY DEF IInv, TypeOK, Shelf
  <2>2. CASE UNCHANGED products
    BY <2>1, <2>2, NothingToTell
  <2>3. CASE \E k \in ClientKeys : RegisterClient(k)
    BY <2>1, <2>3, NothingToTell DEF RegisterClient, Shelf
  <2>4. CASE \E k \in ProductKeys : RegisterProduct(k)
    <3>1. products'[p] = products[p]
      BY <2>4 DEF RegisterProduct, Put
    <3>2. QED
      BY <2>1, <3>1, NothingToTell
  <2>5. CASE \E k \in ClientKeys, q \in ProductKeys : ToggleNotifications(k, q)
    <3>1. products'[p].stock = products[p].stock
          /\ products'[p].price = products[p].price
      BY <2>1, <2>5 DEF ToggleNotifications, Shelf
    <3>2. QED
      BY <2>1, <3>1, NothingToTell
  <2>6. CASE \E q \in ProductKeys, price \in Prices : ChangePrice(q, price)
    <3>1. PICK q \in ProductKeys, price \in Prices : ChangePrice(q, price)
      BY <2>6
    <3>2. CASE p # q
      BY <2>1, <3>1, <3>2, NothingToTell DEF ChangePrice
    <3>3. CASE p = q
      <4>1. products'[p].price = price /\ products'[p].stock = products[p].stock
        BY <2>1, <3>1, <3>3 DEF ChangePrice, Shelf
      <4>2. Notify(p, price < products[p].price, "BARGAIN", price)
        BY <3>1, <3>3 DEF ChangePrice
      <4>3. price < products[p].price => ToldIn(c, p, "BARGAIN", price)
        BY <4>2, NotifyTells
      <4>4. QED
        BY <2>1, <4>1, <4>3
    <3>4. QED
      BY <3>2, <3>3
  <2>7. CASE \E k \in ClientKeys, q \in ProductKeys, d \in Deadlines,
                quantity \in Quantities : RegisterSale(k, date + d, q, quantity)
    <3>1. PICK q \in DOMAIN products, quantity \in Quantities :
              products' = [products EXCEPT ![q].stock = @ - quantity]
      BY <2>7 DEF RegisterSale
    <3>2. quantity \in Nat
      BY InputsAssumption
    <3>3. products'[p].price = products[p].price
      BY <2>1, <3>1 DEF Shelf
    <3>4. products'[p].stock \in Int /\ products'[p].stock <= products[p].stock
      BY <2>1, <3>1, <3>2 DEF Shelf
    <3>5. QED
      BY <2>1, <3>3, <3>4, NothingToTell
  <2>8. CASE \E key \in SupplierKeys, q \in ProductKeys,
                quantity \in Quantities, more \in BOOLEAN :
                   RegisterOrder(key, q, quantity, more)
    <3>1. PICK q \in DOMAIN products, quantity \in Quantities :
              AddStock(q, quantity)
      BY <2>8 DEF RegisterOrder
    <3>2. QED
      BY <2>1, <3>1, AddStockTells
  <2>9. CASE \E q \in ProductKeys, quantity \in Quantities, more \in BOOLEAN :
                 AddToLastOrder(q, quantity, more)
    <3>1. PICK q \in DOMAIN products, quantity \in Quantities :
              AddStock(q, quantity)
      BY <2>9 DEF AddToLastOrder, Include
    <3>2. QED
      BY <2>1, <3>1, AddStockTells
  <2>10. CASE CancelLastOrder
    <3>1. /\ LastOrder = count - 1
          /\ transactions[count - 1].items[p] \in Nat
      BY <2>10 DEF CancelLastOrder, IInv, TypeOK, OpenOrder, Order
    <3>2. products'[p] = [products[p] EXCEPT !.stock =
                              @ - transactions[count - 1].items[p]]
      BY <2>10, <3>1 DEF CancelLastOrder, Cancel, LastOrder
    <3>3. QED
      BY <2>1, <3>1, <3>2, NothingToTell DEF Shelf
  <2>11. CASE \/ \E days \in Days : AdvanceDate(days)
              \/ \E k \in ClientKeys : ShowClient(k)
              \/ \E key \in SupplierKeys : \/ RegisterSupplier(key)
                                           \/ ToggleTransactions(Fold[key])
              \/ \E id \in DOMAIN transactions : Pay(id)
              \/ UNCHANGED vars
    <3>1. UNCHANGED products
      BY <2>11 DEF AdvanceDate, ShowClient, RegisterSupplier,
           ToggleTransactions, Pay, Settle, vars
    <3>2. QED
      BY <2>2, <3>1
  <2>12. QED
    BY <2>3, <2>4, <2>5, <2>6, <2>7, <2>8, <2>9, <2>10, <2>11 DEF Next
<1>2. QED
  BY <1>1, Inductive, PTL DEF Spec, EventsAreTold, ToldIn

-----------------------------------------------------------------------------
\* The histories of clients and suppliers.

SalesOf(c) == {id \in DOMAIN transactions : /\ IsSale(transactions[id])
                                            /\ transactions[id].client = c}
OrdersOf(s) == {id \in DOMAIN transactions :
                   /\ IsOrder(transactions[id])
                   /\ Fold[transactions[id].supplier] = s}

SalesListed  == \A c \in DOMAIN clients : Lists(clients[c].sales, SalesOf(c))
OrdersListed == \A s \in DOMAIN suppliers : Lists(suppliers[s].orders, OrdersOf(s))

\* A supplier that is registered later finds no order of its own.
OrdersRegistered ==
    \A id \in DOMAIN transactions : IsOrder(transactions[id]) =>
        Fold[transactions[id].supplier] \in DOMAIN suppliers

XInv == SalesListed /\ OrdersListed /\ OrdersRegistered

LEMMA NothingListed == Lists(<< >>, {})
BY DEF Lists, ToSet

LEMMA AppendListed ==
    ASSUME NEW seq \in Seq(Nat), NEW ids, Lists(seq, ids), NEW n \in Nat,
           \A i \in ids : i < n
    PROVE  Lists(Append(seq, n), ids \cup {n})
<1> DEFINE longer == Append(seq, n)
<1>1. /\ longer \in Seq(Nat) /\ Len(longer) = Len(seq) + 1
      /\ longer[Len(seq) + 1] = n
      /\ \A i \in 1 .. Len(seq) : longer[i] = seq[i]
      /\ DOMAIN longer = 1 .. Len(seq) + 1 /\ DOMAIN seq = 1 .. Len(seq)
      /\ Len(seq) \in Nat
  OBVIOUS
<1> HIDE DEF longer
<1>2. ids = {seq[i] : i \in 1 .. Len(seq)}
  BY <1>1 DEF Lists, ToSet
<1>3. ToSet(longer) = ids \cup {n}
  BY <1>1, <1>2 DEF ToSet
<1>4. \A i, j \in DOMAIN longer : i < j => longer[i] < longer[j]
  BY <1>1, <1>2 DEF Lists
<1>5. QED
  BY <1>3, <1>4 DEF Lists, longer

LEMMA FrontListed ==
    ASSUME NEW seq \in Seq(Nat), NEW ids, Lists(seq, ids), seq # << >>
    PROVE  Lists(Front(seq), ids \ {Last(seq)})
<1> DEFINE shorter == Front(seq)
           n == Len(seq)
<1>1. /\ n \in Nat \ {0} /\ DOMAIN seq = 1 .. n
      /\ shorter \in Seq(Nat) /\ Len(shorter) = n - 1
      /\ DOMAIN shorter = 1 .. n - 1
      /\ \A i \in 1 .. n - 1 : shorter[i] = seq[i]
  <2>1. n \in Nat /\ DOMAIN seq = 1 .. n
    OBVIOUS
  <2>2. n # 0
    OBVIOUS
  <2>3. shorter = SubSeq(seq, 1, n - 1)
    BY DEF Front
  <2> HIDE DEF n, shorter
  <2>4. /\ SubSeq(seq, 1, n - 1) \in Seq(Nat) /\ Len(SubSeq(seq, 1, n - 1)) = n - 1
        /\ \A i \in 1 .. n - 1 : SubSeq(seq, 1, n - 1)[i] = seq[i]
    BY <2>1, <2>2 DEF n
  <2>5. QED
    BY <2>1, <2>2, <2>3, <2>4
<1>2. ids = {seq[i] : i \in 1 .. n} /\ \A i \in 1 .. n : seq[i] \in Nat
  <2>1. \A i \in 1 .. n : seq[i] \in Nat
    BY <1>1
  <2>2. QED
    BY <1>1, <2>1 DEF Lists, ToSet
<1>3. \A i, j \in 1 .. n : i < j => seq[i] < seq[j]
  BY <1>1 DEF Lists
<1>4. Last(seq) = seq[n]
  BY DEF Last
<1> HIDE DEF shorter, n
<1>5. ToSet(shorter) = {seq[i] : i \in 1 .. n - 1}
  BY <1>1 DEF ToSet
<1>6. \A i \in 1 .. n - 1 : seq[i] # seq[n]
  BY <1>1, <1>2, <1>3
<1>7. {seq[i] : i \in 1 .. n - 1} = ids \ {seq[n]}
  BY <1>1, <1>2, <1>6
<1>8. \A i, j \in DOMAIN shorter : i < j => shorter[i] < shorter[j]
  BY <1>1, <1>3
<1>9. QED
  BY <1>4, <1>5, <1>7, <1>8 DEF Lists, shorter

\* Steps after which the same transactions belong to the same.
LEMMA SameTransactions ==
    ASSUME DOMAIN transactions' = DOMAIN transactions,
           \A id \in DOMAIN transactions :
               /\ transactions'[id].kind = transactions[id].kind
               /\ IsSale(transactions[id]) =>
                      transactions'[id].client = transactions[id].client
               /\ IsOrder(transactions[id]) =>
                      transactions'[id].supplier = transactions[id].supplier
    PROVE  /\ \A c : SalesOf(c)' = SalesOf(c)
           /\ \A s : OrdersOf(s)' = OrdersOf(s)
<1>1. ASSUME NEW c PROVE SalesOf(c)' = SalesOf(c)
  BY DEF SalesOf, IsSale
<1>2. ASSUME NEW s PROVE OrdersOf(s)' = OrdersOf(s)
  BY DEF OrdersOf, IsOrder
<1>3. QED
  BY <1>1, <1>2

LEMMA SameHistories ==
    ASSUME XInv, DOMAIN transactions' = DOMAIN transactions,
           \A id \in DOMAIN transactions :
               /\ transactions'[id].kind = transactions[id].kind
               /\ IsSale(transactions[id]) =>
                      transactions'[id].client = transactions[id].client
               /\ IsOrder(transactions[id]) =>
                      transactions'[id].supplier = transactions[id].supplier,
           DOMAIN clients' = DOMAIN clients,
           \A c \in DOMAIN clients : clients'[c].sales = clients[c].sales,
           DOMAIN suppliers' = DOMAIN suppliers,
           \A s \in DOMAIN suppliers : suppliers'[s].orders = suppliers[s].orders
    PROVE  XInv'
<1>1. /\ \A c : SalesOf(c)' = SalesOf(c)
      /\ \A s : OrdersOf(s)' = OrdersOf(s)
  BY SameTransactions
<1>2. SalesListed'
  BY <1>1 DEF XInv, SalesListed
<1>3. OrdersListed'
  BY <1>1 DEF XInv, OrdersListed
<1>4. OrdersRegistered'
  BY DEF XInv, OrdersRegistered, IsOrder
<1>5. QED
  BY <1>2, <1>3, <1>4 DEF XInv

LEMMA NotifyKeepsSales ==
    ASSUME IInv, NEW p, NEW event, NEW kind, NEW amount,
           Notify(p, event, kind, amount)
    PROVE  /\ DOMAIN clients' = DOMAIN clients
           /\ \A c \in DOMAIN clients : clients'[c].sales = clients[c].sales
<1>1. CASE event
  <2>1. clients' = Told(p, kind, amount)
    BY <1>1 DEF Notify
  <2>2. ASSUME NEW c \in DOMAIN clients PROVE clients'[c].sales = clients[c].sales
    BY <2>1 DEF IInv, TypeOK, Client, Told
  <2>3. QED
    BY <2>1, <2>2 DEF Told
<1>2. CASE ~event
  BY <1>2 DEF Notify
<1>3. QED
  BY <1>1, <1>2

LEMMA NewPartyListed ==
    ASSUME IInv, XInv,
           \/ \E c \in ClientKeys : RegisterClient(c)
           \/ \E key \in SupplierKeys : RegisterSupplier(key)
    PROVE  XInv'
<1>1. UNCHANGED transactions
  BY DEF RegisterClient, RegisterSupplier
<1>2. /\ \A c : SalesOf(c)' = SalesOf(c)
      /\ \A s : OrdersOf(s)' = OrdersOf(s)
  BY <1>1, SameTransactions
<1>3. CASE \E c \in ClientKeys : RegisterClient(c)
  <2>1. PICK c \in ClientKeys : RegisterClient(c)
    BY <1>3
  <2>2. clients' = Put(clients, c, NewClient) /\ c \notin DOMAIN clients
        /\ UNCHANGED suppliers
    BY <2>1 DEF RegisterClient
  <2>3. SalesOf(c) = {}
    BY <2>2 DEF SalesOf, IsSale, IInv, TypeOK, Sale, Order
  <2>4. ASSUME NEW d \in DOMAIN clients' PROVE Lists(clients'[d].sales, SalesOf(d))
    BY <2>2, <2>3, NothingListed DEF Put, NewClient, XInv, SalesListed
  <2>5. QED
    BY <1>1, <1>2, <2>2, <2>4 DEF XInv, SalesListed, OrdersListed,
       OrdersRegistered
<1>4. CASE \E key \in SupplierKeys : RegisterSupplier(key)
  <2>1. PICK key \in SupplierKeys : RegisterSupplier(key)
    BY <1>4
  <2> DEFINE s == Fold[key]
             new == [key |-> key, active |-> TRUE, orders |-> << >>]
  <2>2. suppliers' = Put(suppliers, s, new) /\ s \notin DOMAIN suppliers
        /\ UNCHANGED clients
    BY <2>1 DEF RegisterSupplier
  <2>3. OrdersOf(s) = {}
    BY <2>2 DEF OrdersOf, XInv, OrdersRegistered
  <2>4. ASSUME NEW t \in DOMAIN suppliers'
        PROVE  Lists(suppliers'[t].orders, OrdersOf(t))
    BY <2>2, <2>3, NothingListed DEF Put, XInv, OrdersListed
  <2>5. DOMAIN suppliers \subseteq DOMAIN suppliers'
    BY <2>2 DEF Put
  <2>6. QED
    BY <1>1, <1>2, <2>2, <2>4, <2>5 DEF XInv, SalesListed, OrdersListed,
       OrdersRegistered
<1>5. QED
  BY <1>3, <1>4

LEMMA PutHistory ==
    ASSUME IInv, NEW t, transactions' = Put(transactions, count, t)
    PROVE  /\ count \notin DOMAIN transactions /\ count \in Nat
           /\ \A id \in DOMAIN transactions : id \in Nat /\ id < count
           /\ DOMAIN transactions' = DOMAIN transactions \cup {count}
           /\ transactions'[count] = t
           /\ \A id \in DOMAIN transactions : transactions'[id] = transactions[id]
BY DEF IInv, TypeOK, Dense, Put

LEMMA SaleListed ==
    ASSUME IInv, XInv, NEW c \in ClientKeys, NEW limit, NEW p \in ProductKeys,
           NEW quantity \in Quantities, RegisterSale(c, limit, p, quantity)
    PROVE  XInv'
<1>1. /\ transactions' = Put(transactions, count, NewSale(c, limit, p, quantity))
      /\ c \in DOMAIN clients /\ UNCHANGED suppliers
      /\ clients' = [clients EXCEPT
                        ![c].sales = Append(@, count),
                        ![c].purchases = @ + products[p].price * quantity]
  BY DEF RegisterSale
<1> DEFINE sale == NewSale(c, limit, p, quantity)
<1>2. sale.kind = "sale" /\ sale.client = c
  BY DEF NewSale
<1> HIDE DEF sale
<1>3. /\ count \in Nat
      /\ \A id \in DOMAIN transactions : id \in Nat /\ id < count
      /\ DOMAIN transactions' = DOMAIN transactions \cup {count}
      /\ transactions'[count] = sale
      /\ \A id \in DOMAIN transactions : transactions'[id] = transactions[id]
  BY <1>1, PutHistory DEF sale
<1>4. SalesListed'
  <2> SUFFICES ASSUME NEW d \in DOMAIN clients
               PROVE  Lists(clients'[d].sales, SalesOf(d)')
    BY <1>1 DEF SalesListed
  <2>1. clients[d] \in Client /\ clients[d].sales \in Seq(Nat)
    BY DEF IInv, TypeOK, Client
  <2>2. CASE d = c
    <3>1. SalesOf(c)' = SalesOf(c) \cup {count}
      BY <1>2, <1>3 DEF SalesOf, IsSale
    <3>2. clients'[c].sales = Append(clients[c].sales, count)
      BY <1>1, <2>1, <2>2 DEF Client
    <3>3. \A id \in SalesOf(c) : id < count
      BY <1>3 DEF SalesOf
    <3>4. QED
      BY <1>3, <2>1, <2>2, <3>1, <3>2, <3>3, AppendListed DEF XInv, SalesListed
  <2>3. CASE d # c
    <3>1. SalesOf(d)' = SalesOf(d)
      BY <1>2, <1>3, <2>3 DEF SalesOf, IsSale
    <3>2. QED
      BY <1>1, <2>3, <3>1 DEF XInv, SalesListed
  <2>4. QED
    BY <2>2, <2>3
<1>5. \A s : OrdersOf(s)' = OrdersOf(s)
  <2>1. ASSUME NEW s PROVE OrdersOf(s)' = OrdersOf(s)
    BY <1>2, <1>3 DEF OrdersOf, IsOrder
  <2>2. QED
    BY <2>1
<1>6. OrdersListed' /\ OrdersRegistered'
  BY <1>1, <1>2, <1>3, <1>5 DEF XInv, OrdersListed, OrdersRegistered, IsOrder
<1>7. QED
  BY <1>4, <1>6 DEF XInv

LEMMA OrderListed ==
    ASSUME IInv, XInv, NEW key \in SupplierKeys, NEW p \in ProductKeys,
           NEW quantity \in Quantities, NEW more \in BOOLEAN,
           RegisterOrder(key, p, quantity, more)
    PROVE  XInv'
<1> DEFINE s == Fold[key]
           order == [kind |-> "order", supplier |-> key, date |-> date,
                     items |-> [r \in ProductKeys |-> IF r = p THEN quantity
                                                      ELSE 0],
                     cost |-> quantity * products[p].price]
<1>1. /\ transactions' = Put(transactions, count, order)
      /\ s \in DOMAIN suppliers
      /\ suppliers' = [suppliers EXCEPT ![s].orders = Append(@, count)]
      /\ AddStock(p, quantity)
  BY DEF RegisterOrder
<1>2. order.kind = "order" /\ order.supplier = key
  OBVIOUS
<1> HIDE DEF order
<1>3. /\ count \in Nat
      /\ \A id \in DOMAIN transactions : id \in Nat /\ id < count
      /\ DOMAIN transactions' = DOMAIN transactions \cup {count}
      /\ transactions'[count] = order
      /\ \A id \in DOMAIN transactions : transactions'[id] = transactions[id]
  BY <1>1, PutHistory
<1>4. /\ DOMAIN clients' = DOMAIN clients
      /\ \A c \in DOMAIN clients : clients'[c].sales = clients[c].sales
  BY <1>1, NotifyKeepsSales DEF AddStock
<1>5. OrdersListed'
  <2> SUFFICES ASSUME NEW t \in DOMAIN suppliers
               PROVE  Lists(suppliers'[t].orders, OrdersOf(t)')
    BY <1>1 DEF OrdersListed
  <2>1. suppliers[t] \in Supplier /\ suppliers[t].orders \in Seq(Nat)
    BY DEF IInv, TypeOK, Supplier
  <2>2. CASE t = s
    <3>1. OrdersOf(s)' = OrdersOf(s) \cup {count}
      BY <1>2, <1>3 DEF OrdersOf, IsOrder
    <3>2. suppliers'[s].orders = Append(suppliers[s].orders, count)
      BY <1>1, <2>1, <2>2 DEF Supplier
    <3>3. \A id \in OrdersOf(s) : id < count
      BY <1>3 DEF OrdersOf
    <3>4. QED
      BY <1>3, <2>1, <2>2, <3>1, <3>2, <3>3, AppendListed DEF XInv, OrdersListed
  <2>3. CASE t # s
    <3>1. OrdersOf(t)' = OrdersOf(t)
      BY <1>2, <1>3, <2>3 DEF OrdersOf, IsOrder
    <3>2. QED
      BY <1>1, <2>3, <3>1 DEF XInv, OrdersListed
  <2>4. QED
    BY <2>2, <2>3
<1>6. \A c : SalesOf(c)' = SalesOf(c)
  <2>1. ASSUME NEW c PROVE SalesOf(c)' = SalesOf(c)
    BY <1>2, <1>3 DEF SalesOf, IsSale
  <2>2. QED
    BY <2>1
<1>7. SalesListed'
  BY <1>4, <1>6 DEF XInv, SalesListed
<1>8. OrdersRegistered'
  BY <1>1, <1>2, <1>3 DEF XInv, OrdersRegistered, IsOrder
<1>9. QED
  BY <1>5, <1>7, <1>8 DEF XInv

LEMMA AddedKeepsHistories ==
    ASSUME IInv, XInv, NEW p \in ProductKeys, NEW quantity \in Quantities,
           NEW more \in BOOLEAN, AddToLastOrder(p, quantity, more)
    PROVE  XInv'
<1>1. /\ ordering # None /\ UNCHANGED suppliers /\ AddStock(p, quantity)
      /\ \E held : transactions' = [transactions EXCEPT
             ![LastOrder].items[p] = held,
             ![LastOrder].cost = @ + quantity * products[p].price]
  BY DEF AddToLastOrder, Include
<1>2. LastOrder \in DOMAIN transactions /\ transactions[LastOrder] \in Order
  BY <1>1 DEF IInv, TypeOK, Dense, OpenOrder
<1>3. \A id \in DOMAIN transactions :
          /\ transactions'[id].kind = transactions[id].kind
          /\ IsSale(transactions[id]) =>
                 transactions'[id].client = transactions[id].client
          /\ IsOrder(transactions[id]) =>
                 transactions'[id].supplier = transactions[id].supplier
  BY <1>1, <1>2 DEF Order, IsSale, IsOrder
<1>4. DOMAIN transactions' = DOMAIN transactions
  BY <1>1
<1>5. /\ DOMAIN clients' = DOMAIN clients
      /\ \A c \in DOMAIN clients : clients'[c].sales = clients[c].sales
  BY <1>1, NotifyKeepsSales DEF AddStock
<1>6. QED
  BY <1>1, <1>3, <1>4, <1>5, SameHistories

\* The order taken back is the last in its supplier's history, and the last of
\* all: the three places agree on it.
LEMMA CancelListed ==
    ASSUME IInv, XInv, CancelLastOrder
    PROVE  XInv'
<1> DEFINE s == Fold[ordering]
           last == count - 1
<1>1. /\ s \in DOMAIN suppliers /\ suppliers[s].orders # << >>
      /\ Last(suppliers[s].orders) = last
      /\ transactions[last] \in Order /\ last \in DOMAIN transactions
  BY DEF CancelLastOrder, IInv, TypeOK, Dense, OpenOrder, LastOrder
<1>2. Max(DOMAIN transactions) = last
  BY <1>1 DEF IInv, TypeOK, Dense, Max
<1>3. /\ transactions' = Restrict(transactions, DOMAIN transactions \ {last})
      /\ suppliers' = [suppliers EXCEPT ![s].orders = Front(@)]
      /\ UNCHANGED clients
  BY <1>2 DEF CancelLastOrder, Cancel
<1>4. /\ DOMAIN transactions' = DOMAIN transactions \ {last}
      /\ \A id \in DOMAIN transactions' : transactions'[id] = transactions[id]
  BY <1>3 DEF Restrict
<1>5. transactions[last].kind = "order"
  BY <1>1 DEF Order
<1> HIDE DEF last
<1>6. Fold[transactions[last].supplier] = s
  <2>1. suppliers[s].orders \in Seq(Nat)
    BY <1>1 DEF IInv, TypeOK, Supplier
  <2>2. last \in ToSet(suppliers[s].orders)
    BY <1>1, <2>1 DEF Last, ToSet
  <2>3. QED
    BY <1>1, <2>2 DEF XInv, OrdersListed, Lists, OrdersOf
<1>7. OrdersListed'
  <2> SUFFICES ASSUME NEW t \in DOMAIN suppliers
               PROVE  Lists(suppliers'[t].orders, OrdersOf(t)')
    BY <1>3 DEF OrdersListed
  <2>1. suppliers[t] \in Supplier /\ suppliers[t].orders \in Seq(Nat)
    BY DEF IInv, TypeOK, Supplier
  <2>2. CASE t = s
    <3>1. OrdersOf(t)' = OrdersOf(t) \ {last}
      BY <1>4 DEF OrdersOf, IsOrder
    <3>2. suppliers'[t].orders = Front(suppliers[t].orders)
      BY <1>3, <2>1, <2>2 DEF Supplier
    <3>3. QED
      BY <1>1, <2>1, <2>2, <3>1, <3>2, FrontListed DEF XInv, OrdersListed
  <2>3. CASE t # s
    <3>1. OrdersOf(t)' = OrdersOf(t)
      BY <1>4, <1>6, <2>3 DEF OrdersOf, IsOrder
    <3>2. QED
      BY <1>3, <2>3, <3>1 DEF XInv, OrdersListed
  <2>4. QED
    BY <2>2, <2>3
<1>8. \A c : SalesOf(c)' = SalesOf(c)
  <2>1. ASSUME NEW c PROVE SalesOf(c)' = SalesOf(c)
    BY <1>4, <1>5 DEF SalesOf, IsSale
  <2>2. QED
    BY <2>1
<1>9. SalesListed'
  BY <1>3, <1>8 DEF XInv, SalesListed
<1>10. OrdersRegistered'
  BY <1>3, <1>4 DEF XInv, OrdersRegistered
<1>11. QED
  BY <1>7, <1>9, <1>10 DEF XInv

LEMMA HistoriesListed == Spec => []XInv
<1>1. Init => XInv
  BY DEF Init, Empty, XInv, SalesListed, OrdersListed, OrdersRegistered
<1>2. IInv /\ XInv /\ [Next]_vars => XInv'
  <2> SUFFICES ASSUME IInv, XInv, [Next]_vars PROVE XInv'
    OBVIOUS
  <2>1. CASE \/ \E days \in Days : AdvanceDate(days)
             \/ \E p \in ProductKeys : RegisterProduct(p)
             \/ \E c \in ClientKeys, p \in ProductKeys : ToggleNotifications(c, p)
             \/ UNCHANGED vars
    <3>1. UNCHANGED <<clients, suppliers, transactions>>
      BY <2>1 DEF AdvanceDate, RegisterProduct, ToggleNotifications, vars
    <3>2. QED
      BY <3>1, SameHistories
  <2>2. CASE \E c \in ClientKeys : ShowClient(c)
    <3>1. /\ DOMAIN clients' = DOMAIN clients
          /\ \A c \in DOMAIN clients : clients'[c].sales = clients[c].sales
          /\ UNCHANGED <<suppliers, transactions>>
      BY <2>2 DEF ShowClient, IInv, TypeOK, Client
    <3>2. QED
      BY <3>1, SameHistories
  <2>3. CASE \E key \in SupplierKeys : ToggleTransactions(Fold[key])
    <3>1. /\ DOMAIN suppliers' = DOMAIN suppliers
          /\ \A s \in DOMAIN suppliers :
                 suppliers'[s].orders = suppliers[s].orders
          /\ UNCHANGED <<clients, transactions>>
      BY <2>3 DEF ToggleTransactions, IInv, TypeOK, Supplier
    <3>2. QED
      BY <3>1, SameHistories
  <2>4. CASE \E p \in ProductKeys, price \in Prices : ChangePrice(p, price)
    <3>1. /\ DOMAIN clients' = DOMAIN clients
          /\ \A c \in DOMAIN clients : clients'[c].sales = clients[c].sales
          /\ UNCHANGED <<suppliers, transactions>>
      BY <2>4, NotifyKeepsSales DEF ChangePrice
    <3>2. QED
      BY <3>1, SameHistories
  <2>5. CASE \E id \in DOMAIN transactions : Pay(id)
    <3>1. PICK k \in DOMAIN transactions : Pay(k)
      BY <2>5
    <3>2. transactions[k] \in Sale
      BY <3>1 DEF Pay, IsSale, IInv, TypeOK, Order
    <3>3. \A id \in DOMAIN transactions :
              /\ transactions'[id].kind = transactions[id].kind
              /\ IsSale(transactions[id]) =>
                     transactions'[id].client = transactions[id].client
              /\ IsOrder(transactions[id]) =>
                     transactions'[id].supplier = transactions[id].supplier
      BY <3>1, <3>2 DEF Pay, Settle, Sale, IsSale, IsOrder
    <3>4. /\ DOMAIN clients' = DOMAIN clients
          /\ \A c \in DOMAIN clients : clients'[c].sales = clients[c].sales
          /\ UNCHANGED suppliers /\ DOMAIN transactions' = DOMAIN transactions
      BY <3>1 DEF Pay, Settle, IInv, TypeOK, Client
    <3>5. QED
      BY <3>3, <3>4, SameHistories
  <2>6. CASE \/ \E c \in ClientKeys : RegisterClient(c)
             \/ \E key \in SupplierKeys : RegisterSupplier(key)
    BY <2>6, NewPartyListed
  <2>7. CASE \E c \in ClientKeys, p \in ProductKeys, d \in Deadlines,
                quantity \in Quantities : RegisterSale(c, date + d, p, quantity)
    BY <2>7, SaleListed
  <2>8. CASE \E key \in SupplierKeys, p \in ProductKeys,
                quantity \in Quantities, more \in BOOLEAN :
                   RegisterOrder(key, p, quantity, more)
    BY <2>8, OrderListed
  <2>9. CASE \E p \in ProductKeys, quantity \in Quantities, more \in BOOLEAN :
                 AddToLastOrder(p, quantity, more)
    BY <2>9, AddedKeepsHistories
  <2>10. CASE CancelLastOrder
    BY <2>10, CancelListed
  <2>11. QED
    BY <2>1, <2>2, <2>3, <2>4, <2>5, <2>6, <2>7, <2>8, <2>9, <2>10 DEF Next
<1>3. QED
  BY <1>1, <1>2, Inductive, PTL DEF Spec

\* Transactions are numbered from 0 without gaps, and each history names, in
\* order, exactly the transactions that are its own (registerSale,
\* registerOrder and cancelLastOrder of Store.java).
THEOREM HistoriesAgree == Spec => []IndexesAgree
<1>1. IInv /\ XInv => IndexesAgree
  BY DEF IInv, Dense, XInv, SalesListed, OrdersListed, SalesOf, OrdersOf,
     IndexesAgree
<1>2. QED
  BY <1>1, HistoriesListed, Inductive, PTL

-----------------------------------------------------------------------------
\* Sums over finite sets.

\* The recursive function that MapThenSumSet evaluates over the subsets of D:
\* g sums f, taking out of each set the element that CHOOSE takes.
Taken(s) == CHOOSE x \in s : TRUE

Sums(g, f, D) ==
    \A s \in SUBSET D :
        g[s] = IF s = {} THEN 0 ELSE f[Taken(s)] + g[s \ {Taken(s)}]

SumOver(f, D) == (CHOOSE g \in [SUBSET D -> Int] : Sums(g, f, D))[D]

LEMMA SmallestSet ==
    ASSUME NEW D, IsFiniteSet(D), NEW T \in SUBSET (SUBSET D), T # {}
    PROVE  \E s \in T : \A r \in T : r \subseteq s => r = s
<1> DEFINE R == StrictSubsetOrdering(D)
<1>1. IsWellFoundedOn(R, SUBSET D)
  BY FS_StrictSubsetOrderingWellFounded, FS_FiniteSubsetsOfFinite
<1>2. PICK s \in T : \A r \in T : ~ (<<r, s>> \in R)
  <2> HIDE DEF R
  <2>1. QED
    BY <1>1, WFMin
<1>3. QED
  BY <1>2 DEF StrictSubsetOrdering

LEMMA TakenIsIn == ASSUME NEW s, s # {} PROVE Taken(s) \in s
BY DEF Taken

LEMMA SumsUnique ==
    ASSUME NEW D, IsFiniteSet(D), NEW f, NEW g, NEW h,
           Sums(g, f, D), Sums(h, f, D)
    PROVE  \A s \in SUBSET D : g[s] = h[s]
<1> DEFINE Bad == {s \in SUBSET D : g[s] # h[s]}
<1> SUFFICES ASSUME Bad # {} PROVE FALSE
  OBVIOUS
<1>1. PICK s \in Bad : \A r \in Bad : r \subseteq s => r = s
  <2>1. Bad \in SUBSET (SUBSET D)
    OBVIOUS
  <2> HIDE DEF Bad
  <2>2. QED
    BY <2>1, SmallestSet
<1>2. s # {}
  BY <1>1 DEF Sums
<1> DEFINE r == s \ {Taken(s)}
<1>3. r \in SUBSET D /\ r \subseteq s /\ r # s
  BY <1>1, <1>2, TakenIsIn
<1>4. g[r] = h[r]
  BY <1>1, <1>3
<1>5. g[s] = f[Taken(s)] + g[r] /\ h[s] = f[Taken(s)] + h[r]
  BY <1>1, <1>2 DEF Sums
<1>6. QED
  BY <1>1, <1>4, <1>5

LEMMA SumsWithin ==
    ASSUME NEW D, NEW E \in SUBSET D, NEW f, NEW g, Sums(g, f, D)
    PROVE  Sums(g, f, E)
BY DEF Sums

LEMMA SumsExist ==
    ASSUME NEW D, IsFiniteSet(D), NEW f, \A x \in D : f[x] \in Int
    PROVE  \E g \in [SUBSET D -> Int] : Sums(g, f, D)
<1> DEFINE Has(E) == \E g \in [SUBSET E -> Int] : Sums(g, f, E)
           Bad == {E \in SUBSET D : ~Has(E)}
<1> SUFFICES ASSUME Bad # {} PROVE FALSE
  OBVIOUS
<1>1. PICK E \in Bad : \A t \in Bad : t \subseteq E => t = E
  <2>1. Bad \in SUBSET (SUBSET D)
    OBVIOUS
  <2> HIDE DEF Bad
  <2>2. QED
    BY <2>1, SmallestSet
<1> DEFINE G(t) == CHOOSE g \in [SUBSET t -> Int] : Sums(g, f, t)
<1>2. ASSUME NEW t \in SUBSET E, t # E
      PROVE  G(t) \in [SUBSET t -> Int] /\ Sums(G(t), f, t)
  <2>1. Has(t)
    BY <1>1, <1>2
  <2>2. QED
    BY <2>1
<1>3. ~Has(E) /\ E \in SUBSET D /\ IsFiniteSet(E)
  BY <1>1, FS_Subset
<1> HIDE DEF G, Bad
<1> DEFINE h == [s \in SUBSET E |->
                    IF s = {} THEN 0
                    ELSE f[Taken(s)] + G(s \ {Taken(s)})[s \ {Taken(s)}]]
<1>4. ASSUME NEW s \in SUBSET E, s # {}
      PROVE  s \ {Taken(s)} \in SUBSET E /\ s \ {Taken(s)} # E /\ f[Taken(s)] \in Int
  <2>1. Taken(s) \in s
    BY <1>4, TakenIsIn
  <2>2. QED
    BY <2>1, <1>3
<1>5. h \in [SUBSET E -> Int]
  <2>1. ASSUME NEW s \in SUBSET E, s # {}
        PROVE  f[Taken(s)] + G(s \ {Taken(s)})[s \ {Taken(s)}] \in Int
    <3> DEFINE r == s \ {Taken(s)}
    <3>1. G(r)[r] \in Int
      <4>1. r \in SUBSET E /\ r # E
        BY <1>4, <2>1
      <4> HIDE DEF r
      <4>2. QED
        BY <1>2, <4>1
    <3>2. QED
      BY <3>1, <1>4, <2>1
  <2>2. QED
    BY <2>1
<1>6. ASSUME NEW r \in SUBSET E, r # E PROVE h[r] = G(r)[r]
  <2>1. CASE r = {}
    <3>1. G(r)[r] = 0
      BY <1>2, <1>6, <2>1 DEF Sums
    <3>2. QED
      BY <2>1, <3>1
  <2>2. CASE r # {}
    <3> DEFINE q == r \ {Taken(r)}
    <3>1. q \in SUBSET E /\ q # E /\ q \in SUBSET r
      BY <1>4, <2>2
    <3>2. Sums(G(r), f, r) /\ Sums(G(q), f, q)
      BY <1>2, <1>6, <3>1
    <3>3. Sums(G(r), f, q)
      BY <3>1, <3>2, SumsWithin
    <3>4. IsFiniteSet(q)
      BY <1>3, <3>1, FS_Subset
    <3>5. G(r)[q] = G(q)[q]
      BY <3>2, <3>3, <3>4, SumsUnique
    <3>6. G(r)[r] = f[Taken(r)] + G(r)[q]
      BY <2>2, <3>2 DEF Sums
    <3>7. h[r] = f[Taken(r)] + G(q)[q]
      BY <2>2
    <3>8. QED
      BY <3>5, <3>6, <3>7
  <2>3. QED
    BY <2>1, <2>2
<1>7. Sums(h, f, E)
  <2> SUFFICES ASSUME NEW s \in SUBSET E
               PROVE  h[s] = IF s = {} THEN 0 ELSE f[Taken(s)] + h[s \ {Taken(s)}]
    BY DEF Sums
  <2>1. CASE s = {}
    BY <2>1
  <2>2. CASE s # {}
    <3>1. h[s \ {Taken(s)}] = G(s \ {Taken(s)})[s \ {Taken(s)}]
      BY <1>4, <1>6, <2>2
    <3>2. QED
      BY <2>2, <3>1
  <2>3. QED
    BY <2>1, <2>2
<1>8. Has(E)
  <2> HIDE DEF h
  <2>1. QED
    BY <1>5, <1>7
<1>9. QED
  BY <1>3, <1>8

LEMMA SumIs ==
    ASSUME NEW D, IsFiniteSet(D), NEW f, \A x \in D : f[x] \in Int,
           NEW g, Sums(g, f, D)
    PROVE  SumOver(f, D) = g[D]
<1> DEFINE h == CHOOSE h \in [SUBSET D -> Int] : Sums(h, f, D)
<1>1. Sums(h, f, D)
  BY SumsExist
<1>2. SumOver(f, D) = h[D]
  BY DEF SumOver
<1> HIDE DEF h
<1>3. QED
  BY <1>1, <1>2, SumsUnique

LEMMA SumType ==
    ASSUME NEW D, IsFiniteSet(D), NEW f, \A x \in D : f[x] \in Int
    PROVE  SumOver(f, D) \in Int
BY SumsExist DEF SumOver

LEMMA SumEmpty == \A f : SumOver(f, {}) = 0
<1> SUFFICES ASSUME NEW f PROVE SumOver(f, {}) = 0
  OBVIOUS
<1>1. PICK g \in [SUBSET {} -> Int] : Sums(g, f, {})
  BY FS_EmptySet, SumsExist
<1>2. SumOver(f, {}) = g[{}]
  BY <1>1, FS_EmptySet, SumIs
<1>3. QED
  BY <1>1, <1>2 DEF Sums

LEMMA SumTaken ==
    ASSUME NEW D, IsFiniteSet(D), NEW f, \A x \in D : f[x] \in Int, D # {}
    PROVE  SumOver(f, D) = f[Taken(D)] + SumOver(f, D \ {Taken(D)})
<1>1. PICK g \in [SUBSET D -> Int] : Sums(g, f, D)
  BY SumsExist
<1> DEFINE E == D \ {Taken(D)}
<1>2. E \in SUBSET D /\ IsFiniteSet(E) /\ \A x \in E : f[x] \in Int
  BY FS_Subset
<1>3. Sums(g, f, E)
  BY <1>1, <1>2, SumsWithin
<1> HIDE DEF E
<1>4. SumOver(f, E) = g[E]
  BY <1>2, <1>3, SumIs
<1>5. SumOver(f, D) = g[D]
  BY <1>1, SumIs
<1>6. g[D] = f[Taken(D)] + g[E]
  BY <1>1 DEF Sums, E
<1>7. QED
  BY <1>4, <1>5, <1>6 DEF E

\* The order in which the elements are taken makes no difference.
LEMMA SumRemove ==
    ASSUME NEW D, IsFiniteSet(D), NEW f, \A x \in D : f[x] \in Int, NEW x \in D
    PROVE  SumOver(f, D) = f[x] + SumOver(f, D \ {x})
<1> DEFINE Good(E) == \A y \in E : SumOver(f, E) = f[y] + SumOver(f, E \ {y})
           Bad == {E \in SUBSET D : ~Good(E)}
<1> SUFFICES ASSUME Bad # {} PROVE FALSE
  OBVIOUS
<1>1. PICK E \in Bad : \A t \in Bad : t \subseteq E => t = E
  <2>1. Bad \in SUBSET (SUBSET D)
    OBVIOUS
  <2> HIDE DEF Bad
  <2>2. QED
    BY <2>1, SmallestSet
<1>2. \A t \in SUBSET D : IsFiniteSet(t)
  BY FS_Subset
<1>3. PICK y \in E : SumOver(f, E) # f[y] + SumOver(f, E \ {y})
  BY <1>1
<1> DEFINE c == Taken(E)
<1>4. c \in E /\ E \in SUBSET D /\ IsFiniteSet(E)
  BY <1>1, <1>2, <1>3, TakenIsIn
<1>5. SumOver(f, E) = f[c] + SumOver(f, E \ {c})
  BY <1>3, <1>4, SumTaken
<1>6. Good(E \ {c}) /\ Good(E \ {y})
  BY <1>1, <1>3, <1>4
<1> HIDE DEF c, Bad
<1>7. CASE y = c
  BY <1>3, <1>5, <1>7
<1>8. CASE y # c
  <2> DEFINE T == (E \ {c}) \ {y}
  <2>1. T = (E \ {y}) \ {c}
    OBVIOUS
  <2>2. SumOver(f, E \ {c}) = f[y] + SumOver(f, T)
    BY <1>3, <1>6, <1>8
  <2>3. SumOver(f, E \ {y}) = f[c] + SumOver(f, T)
    BY <1>4, <1>6, <1>8, <2>1
  <2>4. IsFiniteSet(T) /\ (\A z \in T : f[z] \in Int)
    BY <1>2, <1>4
  <2>5. SumOver(f, T) \in Int
    <3> HIDE DEF T
    <3>1. QED
      BY <2>4, SumType
  <2>6. f[y] \in Int /\ f[c] \in Int
    BY <1>3, <1>4
  <2> HIDE DEF T
  <2>7. QED
    BY <1>3, <1>5, <2>2, <2>3, <2>5, <2>6
<1>9. QED
  BY <1>7, <1>8

LEMMA SumSame ==
    ASSUME NEW D, IsFiniteSet(D), NEW f, NEW h,
           \A x \in D : f[x] \in Int /\ h[x] = f[x]
    PROVE  SumOver(h, D) = SumOver(f, D)
<1>1. PICK g \in [SUBSET D -> Int] : Sums(g, f, D)
  BY SumsExist
<1>2. Sums(g, h, D)
  <2> SUFFICES ASSUME NEW s \in SUBSET D
               PROVE  g[s] = IF s = {} THEN 0 ELSE h[Taken(s)] + g[s \ {Taken(s)}]
    BY DEF Sums
  <2>1. s # {} => Taken(s) \in D
    BY TakenIsIn
  <2>2. QED
    BY <1>1, <2>1 DEF Sums
<1>3. SumOver(f, D) = g[D] /\ SumOver(h, D) = g[D]
  BY <1>1, <1>2, SumIs
<1>4. QED
  BY <1>3

\* A new element, one less, and one whose value changes.
LEMMA SumInsert ==
    ASSUME NEW D, IsFiniteSet(D), NEW x, x \notin D, NEW f, NEW h,
           \A y \in D : f[y] \in Int /\ h[y] = f[y], h[x] \in Int
    PROVE  SumOver(h, D \cup {x}) = SumOver(f, D) + h[x]
<1> DEFINE E == D \cup {x}
<1>1. IsFiniteSet(E) /\ x \in E /\ E \ {x} = D /\ \A y \in E : h[y] \in Int
  BY FS_AddElement
<1> HIDE DEF E
<1>2. SumOver(h, E) = h[x] + SumOver(h, D)
  BY <1>1, SumRemove
<1>3. SumOver(h, D) = SumOver(f, D) /\ SumOver(f, D) \in Int
  BY SumSame, SumType
<1>4. QED
  BY <1>2, <1>3 DEF E

LEMMA SumDelete ==
    ASSUME NEW D, IsFiniteSet(D), NEW x \in D, NEW f, NEW h,
           \A y \in D : f[y] \in Int, \A y \in D \ {x} : h[y] = f[y]
    PROVE  SumOver(h, D \ {x}) = SumOver(f, D) - f[x]
<1> DEFINE E == D \ {x}
<1>1. IsFiniteSet(E) /\ \A y \in E : f[y] \in Int /\ h[y] = f[y]
  BY FS_RemoveElement
<1>2. SumOver(f, D) = f[x] + SumOver(f, E)
  BY SumRemove
<1> HIDE DEF E
<1>3. SumOver(h, E) = SumOver(f, E) /\ SumOver(f, E) \in Int
  BY <1>1, SumSame, SumType
<1>4. f[x] \in Int
  OBVIOUS
<1>5. QED
  BY <1>2, <1>3, <1>4 DEF E

LEMMA SumChange ==
    ASSUME NEW D, IsFiniteSet(D), NEW x \in D, NEW f, NEW h,
           \A y \in D : f[y] \in Int, \A y \in D \ {x} : h[y] = f[y],
           h[x] \in Int
    PROVE  SumOver(h, D) = SumOver(f, D) + (h[x] - f[x])
<1> DEFINE E == D \ {x}
<1>1. IsFiniteSet(E) /\ \A y \in E : f[y] \in Int /\ h[y] = f[y]
  BY FS_RemoveElement
<1>2. SumOver(h, E) = SumOver(f, D) - f[x]
  BY SumDelete
<1>3. \A y \in D : h[y] \in Int
  BY <1>1
<1>4. SumOver(h, D) = h[x] + SumOver(h, E)
  BY <1>3, SumRemove
<1>5. SumOver(f, D) \in Int /\ f[x] \in Int
  BY SumType
<1> HIDE DEF E
<1>6. QED
  BY <1>2, <1>4, <1>5

LEMMA SumZero ==
    ASSUME NEW D, IsFiniteSet(D), NEW f, \A x \in D : f[x] = 0
    PROVE  SumOver(f, D) = 0
<1> DEFINE g == [s \in SUBSET D |-> 0]
<1>1. Sums(g, f, D)
  <2> SUFFICES ASSUME NEW s \in SUBSET D
               PROVE  g[s] = IF s = {} THEN 0 ELSE f[Taken(s)] + g[s \ {Taken(s)}]
    BY DEF Sums
  <2>1. s # {} => Taken(s) \in D
    BY TakenIsIn
  <2>2. QED
    BY <2>1
<1>2. g[D] = 0
  OBVIOUS
<1> HIDE DEF g
<1>3. QED
  BY <1>1, <1>2, SumIs

-----------------------------------------------------------------------------
\* The sums that the properties write with MapThenSumSet.

LEMMA SumOfQuantities ==
    ASSUME NEW D, IsFiniteSet(D), NEW f,
           \A id \in D : f[id] = transactions[id].quantity /\ f[id] \in Int
    PROVE  MapThenSumSet(LAMBDA id : transactions[id].quantity, D) = SumOver(f, D)
<1> DEFINE e(x) == transactions[x].quantity
           step(g, s) == IF s = {} THEN 0
                         ELSE e(CHOOSE x \in s : TRUE)
                                  + g[s \ {CHOOSE x \in s : TRUE}]
           eq(g) == g = [s \in SUBSET D |-> step(g, s)]
           i == CHOOSE g : eq(g)
<1>1. i[D] = MapThenSumSet(LAMBDA id : transactions[id].quantity, D)
  BY DEF MapThenSumSet, MapThenFoldSet
<1>2. \A x \in D : f[x] = e(x)
  OBVIOUS
<1> HIDE DEF e
<1>3. \A s \in SUBSET D : s # {} => f[Taken(s)] = e(CHOOSE x \in s : TRUE)
  BY <1>2 DEF Taken
<1>4. PICK h \in [SUBSET D -> Int] : Sums(h, f, D)
  BY SumsExist
<1>5. eq(h)
  <2>1. \A s \in SUBSET D : h[s] = step(h, s)
    BY <1>3, <1>4 DEF Sums, Taken
  <2>2. h = [s \in SUBSET D |-> h[s]]
    OBVIOUS
  <2>3. QED
    BY <2>1, <2>2
<1>6. eq(i)
  <2>1. \E g : eq(g)
    BY <1>5
  <2> HIDE DEF eq
  <2>2. QED
    BY <2>1
<1> HIDE DEF i
<1>7. \A s \in SUBSET D : i[s] = step(i, s)
  BY <1>6
<1>8. Sums(i, f, D)
  BY <1>3, <1>7 DEF Sums, Taken
<1>9. \A x \in D : f[x] \in Int
  OBVIOUS
<1>10. SumOver(f, D) = i[D]
  BY <1>8, <1>9, SumIs, Zenon
<1>11. QED
  BY <1>1, <1>10, Zenon

LEMMA SumOfValues ==
    ASSUME NEW D, IsFiniteSet(D), NEW f,
           \A id \in D : f[id] = PayedValue(transactions[id]) /\ f[id] \in Int
    PROVE  MapThenSumSet(LAMBDA id : PayedValue(transactions[id]), D) = SumOver(f, D)
<1> DEFINE e(x) == PayedValue(transactions[x])
           step(g, s) == IF s = {} THEN 0
                         ELSE e(CHOOSE x \in s : TRUE)
                                  + g[s \ {CHOOSE x \in s : TRUE}]
           eq(g) == g = [s \in SUBSET D |-> step(g, s)]
           i == CHOOSE g : eq(g)
<1>1. i[D] = MapThenSumSet(LAMBDA id : PayedValue(transactions[id]), D)
  BY DEF MapThenSumSet, MapThenFoldSet
<1>2. \A x \in D : f[x] = e(x)
  OBVIOUS
<1> HIDE DEF e
<1>3. \A s \in SUBSET D : s # {} => f[Taken(s)] = e(CHOOSE x \in s : TRUE)
  BY <1>2 DEF Taken
<1>4. PICK h \in [SUBSET D -> Int] : Sums(h, f, D)
  BY SumsExist
<1>5. eq(h)
  <2>1. \A s \in SUBSET D : h[s] = step(h, s)
    BY <1>3, <1>4 DEF Sums, Taken
  <2>2. h = [s \in SUBSET D |-> h[s]]
    OBVIOUS
  <2>3. QED
    BY <2>1, <2>2
<1>6. eq(i)
  <2>1. \E g : eq(g)
    BY <1>5
  <2> HIDE DEF eq
  <2>2. QED
    BY <2>1
<1> HIDE DEF i
<1>7. \A s \in SUBSET D : i[s] = step(i, s)
  BY <1>6
<1>8. Sums(i, f, D)
  BY <1>3, <1>7 DEF Sums, Taken
<1>9. \A x \in D : f[x] \in Int
  OBVIOUS
<1>10. SumOver(f, D) = i[D]
  BY <1>8, <1>9, SumIs, Zenon
<1>11. QED
  BY <1>1, <1>10, Zenon

LEMMA SumOfCosts ==
    ASSUME NEW D, IsFiniteSet(D), NEW f,
           \A id \in D : f[id] = 100 * transactions[id].cost /\ f[id] \in Int
    PROVE  MapThenSumSet(LAMBDA id : 100 * transactions[id].cost, D) = SumOver(f, D)
<1> DEFINE e(x) == 100 * transactions[x].cost
           step(g, s) == IF s = {} THEN 0
                         ELSE e(CHOOSE x \in s : TRUE)
                                  + g[s \ {CHOOSE x \in s : TRUE}]
           eq(g) == g = [s \in SUBSET D |-> step(g, s)]
           i == CHOOSE g : eq(g)
<1>1. i[D] = MapThenSumSet(LAMBDA id : 100 * transactions[id].cost, D)
  BY DEF MapThenSumSet, MapThenFoldSet
<1>2. \A x \in D : f[x] = e(x)
  OBVIOUS
<1> HIDE DEF e
<1>3. \A s \in SUBSET D : s # {} => f[Taken(s)] = e(CHOOSE x \in s : TRUE)
  BY <1>2 DEF Taken
<1>4. PICK h \in [SUBSET D -> Int] : Sums(h, f, D)
  BY SumsExist
<1>5. eq(h)
  <2>1. \A s \in SUBSET D : h[s] = step(h, s)
    BY <1>3, <1>4 DEF Sums, Taken
  <2>2. h = [s \in SUBSET D |-> h[s]]
    OBVIOUS
  <2>3. QED
    BY <2>1, <2>2
<1>6. eq(i)
  <2>1. \E g : eq(g)
    BY <1>5
  <2> HIDE DEF eq
  <2>2. QED
    BY <2>1
<1> HIDE DEF i
<1>7. \A s \in SUBSET D : i[s] = step(i, s)
  BY <1>6
<1>8. Sums(i, f, D)
  BY <1>3, <1>7 DEF Sums, Taken
<1>9. \A x \in D : f[x] \in Int
  OBVIOUS
<1>10. SumOver(f, D) = i[D]
  BY <1>8, <1>9, SumIs, Zenon
<1>11. QED
  BY <1>1, <1>10, Zenon

LEMMA SumOfPayments ==
    ASSUME NEW D, IsFiniteSet(D), NEW f,
           \A c \in D : f[c] = clients[c].payed /\ f[c] \in Int
    PROVE  MapThenSumSet(LAMBDA c : clients[c].payed, D) = SumOver(f, D)
<1> DEFINE e(x) == clients[x].payed
           step(g, s) == IF s = {} THEN 0
                         ELSE e(CHOOSE x \in s : TRUE)
                                  + g[s \ {CHOOSE x \in s : TRUE}]
           eq(g) == g = [s \in SUBSET D |-> step(g, s)]
           i == CHOOSE g : eq(g)
<1>1. i[D] = MapThenSumSet(LAMBDA c : clients[c].payed, D)
  BY DEF MapThenSumSet, MapThenFoldSet
<1>2. \A x \in D : f[x] = e(x)
  OBVIOUS
<1> HIDE DEF e
<1>3. \A s \in SUBSET D : s # {} => f[Taken(s)] = e(CHOOSE x \in s : TRUE)
  BY <1>2 DEF Taken
<1>4. PICK h \in [SUBSET D -> Int] : Sums(h, f, D)
  BY SumsExist
<1>5. eq(h)
  <2>1. \A s \in SUBSET D : h[s] = step(h, s)
    BY <1>3, <1>4 DEF Sums, Taken
  <2>2. h = [s \in SUBSET D |-> h[s]]
    OBVIOUS
  <2>3. QED
    BY <2>1, <2>2
<1>6. eq(i)
  <2>1. \E g : eq(g)
    BY <1>5
  <2> HIDE DEF eq
  <2>2. QED
    BY <2>1
<1> HIDE DEF i
<1>7. \A s \in SUBSET D : i[s] = step(i, s)
  BY <1>6
<1>8. Sums(i, f, D)
  BY <1>3, <1>7 DEF Sums, Taken
<1>9. \A x \in D : f[x] \in Int
  OBVIOUS
<1>10. SumOver(f, D) = i[D]
  BY <1>8, <1>9, SumIs, Zenon
<1>11. QED
  BY <1>1, <1>10, Zenon

-----------------------------------------------------------------------------
\* The stock of a product.

OrderIds  == {id \in DOMAIN transactions : IsOrder(transactions[id])}
SoldOf(p) == {id \in DOMAIN transactions : /\ IsSale(transactions[id])
                                           /\ transactions[id].product = p}

Items(p) == [id \in OrderIds |-> transactions[id].items[p]]
Sold(p)  == [id \in SoldOf(p) |-> transactions[id].quantity]

Brought(p) == SumOver(Items(p), OrderIds)
Gone(p)    == SumOver(Sold(p), SoldOf(p))

StockSummed ==
    \A p \in DOMAIN products :
        products[p].stock = Catalogue[p].stock + Brought(p) - Gone(p)

\* A product that is registered later was in no order.
ItemsRegistered ==
    \A id \in OrderIds : \A p \in ProductKeys \ DOMAIN products :
        transactions[id].items[p] = 0

BInv == StockSummed /\ ItemsRegistered

LEMMA HistoriesFinite ==
    ASSUME IInv
    PROVE  /\ IsFiniteSet(DOMAIN transactions) /\ IsFiniteSet(OrderIds)
           /\ \A p : IsFiniteSet(SoldOf(p))
           /\ \A c : IsFiniteSet(SalesOf(c))
<1>1. DOMAIN transactions = 0 .. count - 1 /\ count - 1 \in Int
  BY DEF IInv, TypeOK, Dense
<1>2. IsFiniteSet(DOMAIN transactions)
  BY <1>1, FS_Interval
<1>3. /\ OrderIds \in SUBSET DOMAIN transactions
      /\ \A p : SoldOf(p) \in SUBSET DOMAIN transactions
      /\ \A c : SalesOf(c) \in SUBSET DOMAIN transactions
  BY DEF OrderIds, SoldOf, SalesOf
<1>4. QED
  BY <1>2, <1>3, FS_Subset

LEMMA OrdersAndSales ==
    ASSUME IInv
    PROVE  /\ \A id \in OrderIds : transactions[id] \in Order
           /\ \A id \in DOMAIN transactions \ OrderIds : transactions[id] \in Sale
           /\ \A p : \A id \in SoldOf(p) : transactions[id] \in Sale
BY DEF IInv, TypeOK, OrderIds, SoldOf, IsOrder, IsSale, Sale, Order

LEMMA UnitsTyped ==
    ASSUME IInv
    PROVE  /\ \A p \in ProductKeys : \A id \in OrderIds : Items(p)[id] \in Int
           /\ \A p : \A id \in SoldOf(p) : Sold(p)[id] \in Int
<1>1. ASSUME NEW p \in ProductKeys, NEW id \in OrderIds
      PROVE  Items(p)[id] \in Int
  <2>1. transactions[id] \in Order
    BY OrdersAndSales
  <2>2. QED
    BY <2>1 DEF Items, Order
<1>2. ASSUME NEW p, NEW id \in SoldOf(p) PROVE Sold(p)[id] \in Int
  <2>1. transactions[id] \in Sale
    BY OrdersAndSales
  <2>2. QED
    BY <2>1 DEF Sold, Sale
<1>3. QED
  BY <1>1, <1>2

LEMMA SumsTyped ==
    ASSUME IInv, NEW p \in ProductKeys
    PROVE  Brought(p) \in Int /\ Gone(p) \in Int
BY HistoriesFinite, UnitsTyped, SumType DEF Brought, Gone

\* Orders, or sales, that a step leaves as they are.
LEMMA SameBrought ==
    ASSUME IInv, NEW p \in ProductKeys, OrderIds' = OrderIds,
           \A id \in OrderIds :
               transactions'[id].items[p] = transactions[id].items[p]
    PROVE  Brought(p)' = Brought(p)
<1>1. \A id \in OrderIds : Items(p)[id] \in Int /\ Items(p)'[id] = Items(p)[id]
  BY UnitsTyped DEF Items
<1>2. SumOver(Items(p)', OrderIds) = SumOver(Items(p), OrderIds)
  BY <1>1, HistoriesFinite, SumSame
<1>3. QED
  BY <1>2 DEF Brought

LEMMA SameTaken ==
    ASSUME IInv, NEW p \in ProductKeys, SoldOf(p)' = SoldOf(p),
           \A id \in SoldOf(p) :
               transactions'[id].quantity = transactions[id].quantity
    PROVE  Gone(p)' = Gone(p)
<1>1. \A id \in SoldOf(p) : Sold(p)[id] \in Int /\ Sold(p)'[id] = Sold(p)[id]
  BY UnitsTyped DEF Sold
<1>2. SumOver(Sold(p)', SoldOf(p)) = SumOver(Sold(p), SoldOf(p))
  BY <1>1, HistoriesFinite, SumSame
<1>3. QED
  BY <1>2 DEF Gone

\* Steps that move no unit of any product.
LEMMA NothingMoves ==
    ASSUME IInv, BInv, DOMAIN transactions' = DOMAIN transactions,
           \A id \in DOMAIN transactions :
               /\ transactions'[id].kind = transactions[id].kind
               /\ IsOrder(transactions[id]) =>
                      transactions'[id].items = transactions[id].items
               /\ IsSale(transactions[id]) =>
                      /\ transactions'[id].product = transactions[id].product
                      /\ transactions'[id].quantity = transactions[id].quantity,
           DOMAIN products' = DOMAIN products,
           \A p \in DOMAIN products : products'[p].stock = products[p].stock
    PROVE  BInv'
<1>1. OrderIds' = OrderIds
      /\ \A id \in OrderIds : transactions'[id].items = transactions[id].items
  BY DEF OrderIds, IsOrder
<1>2. ASSUME NEW p
      PROVE  /\ SoldOf(p)' = SoldOf(p)
             /\ \A id \in SoldOf(p) :
                    transactions'[id].quantity = transactions[id].quantity
  BY DEF SoldOf, IsSale
<1>3. ASSUME NEW p \in DOMAIN products
      PROVE  Brought(p)' = Brought(p) /\ Gone(p)' = Gone(p)
  <2>1. p \in ProductKeys
    BY DEF IInv, TypeOK
  <2>2. QED
    BY <1>1, <1>2, <2>1, SameBrought, SameTaken
<1>4. StockSummed'
  BY <1>3 DEF BInv, StockSummed
<1>5. ItemsRegistered'
  BY <1>1 DEF BInv, ItemsRegistered
<1>6. QED
  BY <1>4, <1>5 DEF BInv

LEMMA NewProductBalances ==
    ASSUME IInv, BInv, NEW p \in ProductKeys, RegisterProduct(p)
    PROVE  BInv'
<1>1. /\ p \notin DOMAIN products /\ UNCHANGED transactions
      /\ DOMAIN products' = DOMAIN products \cup {p}
      /\ products'[p].stock = Catalogue[p].stock
      /\ \A r \in DOMAIN products : products'[r] = products[r]
  BY DEF RegisterProduct, Put
<1>2. OrderIds' = OrderIds /\ \A r : SoldOf(r)' = SoldOf(r)
  BY <1>1 DEF OrderIds, SoldOf, IsOrder, IsSale
<1>3. ASSUME NEW r \in ProductKeys
      PROVE  Brought(r)' = Brought(r) /\ Gone(r)' = Gone(r)
  BY <1>1, <1>2, SameBrought, SameTaken
<1>4. Brought(p) = 0
  <2>1. \A id \in OrderIds : Items(p)[id] = 0
    BY <1>1 DEF BInv, ItemsRegistered, Items
  <2>2. QED
    BY <2>1, HistoriesFinite, SumZero DEF Brought
<1>5. Gone(p) = 0
  <2>1. SoldOf(p) = {}
    BY <1>1, OrdersAndSales DEF SoldOf, Sale
  <2>2. QED
    BY <2>1, SumEmpty DEF Gone
<1>6. Catalogue[p].stock \in Nat
  BY CatalogueAssumption DEF Product
<1>7. ASSUME NEW r \in DOMAIN products'
      PROVE  products'[r].stock = Catalogue[r].stock + Brought(r)' - Gone(r)'
  <2>1. CASE r = p
    BY <1>1, <1>3, <1>4, <1>5, <1>6, <2>1
  <2>2. CASE r # p
    <3>1. r \in DOMAIN products /\ r \in ProductKeys
      BY <1>1, <2>2 DEF IInv, TypeOK
    <3>2. QED
      BY <1>1, <1>3, <3>1 DEF BInv, StockSummed
  <2>3. QED
    BY <2>1, <2>2
<1>8. ItemsRegistered'
  BY <1>1, <1>2 DEF BInv, ItemsRegistered
<1>9. QED
  BY <1>7, <1>8 DEF BInv, StockSummed

LEMMA SaleBalances ==
    ASSUME IInv, BInv, NEW c \in ClientKeys, NEW limit, NEW p \in ProductKeys,
           NEW quantity \in Quantities, RegisterSale(c, limit, p, quantity)
    PROVE  BInv'
<1> DEFINE sale == NewSale(c, limit, p, quantity)
<1>1. /\ transactions' = Put(transactions, count, sale)
      /\ p \in DOMAIN products
      /\ products' = [products EXCEPT ![p].stock = @ - quantity]
  BY DEF RegisterSale
<1>2. /\ sale.kind = "sale" /\ sale.product = p /\ sale.quantity = quantity
      /\ quantity \in Nat
  BY InputsAssumption DEF NewSale
<1> HIDE DEF sale
<1>3. /\ count \notin DOMAIN transactions
      /\ DOMAIN transactions' = DOMAIN transactions \cup {count}
      /\ transactions'[count] = sale
      /\ \A id \in DOMAIN transactions : transactions'[id] = transactions[id]
  BY <1>1, PutHistory
<1>4. OrderIds' = OrderIds
      /\ \A id \in OrderIds : transactions'[id] = transactions[id]
  BY <1>2, <1>3 DEF OrderIds, IsOrder
<1>5. \A r \in ProductKeys : Brought(r)' = Brought(r)
  BY <1>4, SameBrought
<1>6. Gone(p)' = Gone(p) + quantity
  <2>1. SoldOf(p)' = SoldOf(p) \cup {count} /\ count \notin SoldOf(p)
    BY <1>2, <1>3 DEF SoldOf, IsSale
  <2>2. \A id \in SoldOf(p) : Sold(p)[id] \in Int /\ Sold(p)'[id] = Sold(p)[id]
    BY <1>3, <2>1, UnitsTyped DEF Sold, SoldOf
  <2>3. Sold(p)'[count] = quantity
    BY <1>2, <1>3, <2>1 DEF Sold
  <2>4. SumOver(Sold(p)', SoldOf(p) \cup {count})
            = SumOver(Sold(p), SoldOf(p)) + Sold(p)'[count]
    BY <1>2, <2>1, <2>2, <2>3, HistoriesFinite, SumInsert
  <2>5. QED
    BY <2>1, <2>3, <2>4 DEF Gone
<1>7. ASSUME NEW r \in ProductKeys, r # p PROVE Gone(r)' = Gone(r)
  <2>1. SoldOf(r)' = SoldOf(r)
        /\ \A id \in SoldOf(r) : transactions'[id] = transactions[id]
    BY <1>2, <1>3, <1>7 DEF SoldOf, IsSale
  <2>2. QED
    BY <2>1, SameTaken
<1>8. ASSUME NEW r \in DOMAIN products
      PROVE  products'[r].stock = Catalogue[r].stock + Brought(r)' - Gone(r)'
  <2>1. /\ r \in ProductKeys /\ products[r].stock \in Nat
        /\ products[r].stock = Catalogue[r].stock + Brought(r) - Gone(r)
        /\ Catalogue[r].stock \in Nat
    BY CatalogueAssumption DEF IInv, TypeOK, Shelf, BInv, StockSummed, Product
  <2>2. Brought(r) \in Int /\ Gone(r) \in Int
    BY <2>1, SumsTyped
  <2>3. products'[r].stock =
            products[r].stock - (IF r = p THEN quantity ELSE 0)
    BY <1>1, <1>2, <2>1 DEF IInv, TypeOK, Shelf
  <2>4. QED
    BY <1>2, <1>5, <1>6, <1>7, <2>1, <2>2, <2>3
<1>9. ItemsRegistered'
  BY <1>1, <1>4 DEF BInv, ItemsRegistered
<1>10. QED
  BY <1>1, <1>8, <1>9 DEF BInv, StockSummed

\* What an order brings is counted when its units enter the stock.
LEMMA UnitsArrive ==
    ASSUME IInv, BInv, NEW p \in DOMAIN products, NEW quantity \in Quantities,
           AddStock(p, quantity),
           \A r \in ProductKeys :
               /\ Brought(r)' = Brought(r) + (IF r = p THEN quantity ELSE 0)
               /\ Gone(r)' = Gone(r)
    PROVE  StockSummed'
<1>1. quantity \in Nat
  BY InputsAssumption
<1>2. /\ DOMAIN products' = DOMAIN products
      /\ \A r \in DOMAIN products :
             products'[r].stock =
                 products[r].stock + (IF r = p THEN quantity ELSE 0)
  BY <1>1, AddStockTyped
<1>3. ASSUME NEW r \in DOMAIN products
      PROVE  products'[r].stock = Catalogue[r].stock + Brought(r)' - Gone(r)'
  <2>1. /\ r \in ProductKeys /\ products[r].stock \in Nat
        /\ products[r].stock = Catalogue[r].stock + Brought(r) - Gone(r)
        /\ Catalogue[r].stock \in Nat
    BY CatalogueAssumption DEF IInv, TypeOK, Shelf, BInv, StockSummed, Product
  <2>2. Brought(r) \in Int /\ Gone(r) \in Int
    BY <2>1, SumsTyped
  <2>3. QED
    BY <1>1, <1>2, <2>1, <2>2
<1>4. QED
  BY <1>2, <1>3 DEF StockSummed

LEMMA OrderBalances ==
    ASSUME IInv, BInv, NEW key \in SupplierKeys, NEW p \in ProductKeys,
           NEW quantity \in Quantities, NEW more \in BOOLEAN,
           RegisterOrder(key, p, quantity, more)
    PROVE  BInv'
<1> DEFINE order == [kind |-> "order", supplier |-> key, date |-> date,
                     items |-> [r \in ProductKeys |-> IF r = p THEN quantity
                                                      ELSE 0],
                     cost |-> quantity * products[p].price]
<1>1. /\ transactions' = Put(transactions, count, order)
      /\ p \in DOMAIN products /\ AddStock(p, quantity)
  BY DEF RegisterOrder
<1>2. /\ order.kind = "order" /\ quantity \in Nat
      /\ \A r \in ProductKeys :
             order.items[r] = IF r = p THEN quantity ELSE 0
  BY InputsAssumption
<1> HIDE DEF order
<1>3. /\ count \notin DOMAIN transactions
      /\ DOMAIN transactions' = DOMAIN transactions \cup {count}
      /\ transactions'[count] = order
      /\ \A id \in DOMAIN transactions : transactions'[id] = transactions[id]
  BY <1>1, PutHistory
<1>4. OrderIds' = OrderIds \cup {count} /\ count \notin OrderIds
      /\ \A id \in OrderIds : transactions'[id] = transactions[id]
  BY <1>2, <1>3 DEF OrderIds, IsOrder
<1>5. ASSUME NEW r \in ProductKeys
      PROVE  Brought(r)' = Brought(r) + (IF r = p THEN quantity ELSE 0)
  <2>1. \A id \in OrderIds : Items(r)[id] \in Int /\ Items(r)'[id] = Items(r)[id]
    BY <1>4, UnitsTyped DEF Items
  <2>2. Items(r)'[count] = IF r = p THEN quantity ELSE 0
    BY <1>2, <1>3, <1>4 DEF Items
  <2>3. Items(r)'[count] \in Int
    BY <1>2, <2>2
  <2>4. SumOver(Items(r)', OrderIds \cup {count})
            = SumOver(Items(r), OrderIds) + Items(r)'[count]
    BY <1>4, <2>1, <2>3, HistoriesFinite, SumInsert
  <2>5. QED
    BY <1>4, <2>2, <2>4 DEF Brought
<1>6. ASSUME NEW r \in ProductKeys PROVE Gone(r)' = Gone(r)
  <2>1. SoldOf(r)' = SoldOf(r)
        /\ \A id \in SoldOf(r) : transactions'[id] = transactions[id]
    BY <1>2, <1>3 DEF SoldOf, IsSale
  <2>2. QED
    BY <2>1, SameTaken
<1>7. StockSummed'
  BY <1>1, <1>5, <1>6, UnitsArrive
<1>8. ItemsRegistered'
  <2>1. DOMAIN products' = DOMAIN products
    BY <1>1 DEF AddStock
  <2>2. QED
    BY <1>1, <1>2, <1>3, <1>4, <2>1 DEF BInv, ItemsRegistered
<1>9. QED
  BY <1>7, <1>8 DEF BInv

\* A product named twice in an order is counted twice, in one entry.
LEMMA AddedBalances ==
    ASSUME IInv, BInv, NEW p \in ProductKeys, NEW quantity \in Quantities,
           NEW more \in BOOLEAN, AddToLastOrder(p, quantity, more)
    PROVE  BInv'
<1> DEFINE last == count - 1
           held == transactions[last].items[p] + quantity
<1>1. /\ ordering # None /\ p \in DOMAIN products /\ AddStock(p, quantity)
      /\ quantity \in Nat
  BY InputsAssumption DEF AddToLastOrder, Include
<1>2. /\ LastOrder = last /\ last \in DOMAIN transactions
      /\ transactions[last] \in Order
  BY <1>1 DEF IInv, TypeOK, Dense, OpenOrder
<1>3. transactions' = [transactions EXCEPT
             ![last].items[p] = held,
             ![last].cost = @ + quantity * products[p].price]
  BY <1>2 DEF AddToLastOrder, Include
<1> HIDE DEF last
<1>4. /\ transactions[last].kind = "order"
      /\ transactions[last].items \in [ProductKeys -> Nat]
      /\ transactions'[last].kind = "order"
      /\ transactions'[last].items = [transactions[last].items EXCEPT ![p] = held]
      /\ DOMAIN transactions' = DOMAIN transactions
      /\ \A id \in DOMAIN transactions \ {last} :
             transactions'[id] = transactions[id]
  BY <1>2, <1>3 DEF Order
<1>5. \A r \in ProductKeys : transactions'[last].items[r] =
          transactions[last].items[r] + (IF r = p THEN quantity ELSE 0)
  BY <1>1, <1>4
<1>6. OrderIds' = OrderIds /\ last \in OrderIds
  BY <1>2, <1>4 DEF OrderIds, IsOrder
<1>7. ASSUME NEW r \in ProductKeys
      PROVE  Brought(r)' = Brought(r) + (IF r = p THEN quantity ELSE 0)
  <2>1. /\ \A id \in OrderIds : Items(r)[id] \in Int
        /\ \A id \in OrderIds \ {last} : Items(r)'[id] = Items(r)[id]
    BY <1>4, <1>6, UnitsTyped DEF Items, OrderIds
  <2>2. Items(r)'[last] = Items(r)[last] + (IF r = p THEN quantity ELSE 0)
    BY <1>5, <1>6 DEF Items
  <2>3. Items(r)'[last] \in Int
    BY <1>1, <1>6, <2>1, <2>2
  <2>4. SumOver(Items(r)', OrderIds)
            = SumOver(Items(r), OrderIds) + (Items(r)'[last] - Items(r)[last])
    BY <1>6, <2>1, <2>3, HistoriesFinite, SumChange
  <2>5. Items(r)'[last] - Items(r)[last] = IF r = p THEN quantity ELSE 0
    BY <1>1, <1>6, <2>1, <2>2
  <2>6. QED
    BY <1>6, <2>4, <2>5 DEF Brought
<1>8. ASSUME NEW r \in ProductKeys PROVE Gone(r)' = Gone(r)
  <2>1. SoldOf(r)' = SoldOf(r)
        /\ \A id \in SoldOf(r) : transactions'[id] = transactions[id]
    BY <1>4 DEF SoldOf, IsSale
  <2>2. QED
    BY <2>1, SameTaken
<1>9. StockSummed'
  BY <1>1, <1>7, <1>8, UnitsArrive
<1>10. ItemsRegistered'
  <2>1. DOMAIN products' = DOMAIN products
    BY <1>1 DEF AddStock
  <2> SUFFICES ASSUME NEW id \in OrderIds,
                      NEW r \in ProductKeys \ DOMAIN products
               PROVE  transactions'[id].items[r] = 0
    BY <1>6, <2>1 DEF ItemsRegistered
  <2>2. transactions[id].items[r] = 0 /\ r # p /\ id \in DOMAIN transactions
    BY <1>1 DEF BInv, ItemsRegistered, OrderIds
  <2>3. CASE id = last
    BY <1>5, <2>2, <2>3
  <2>4. CASE id # last
    BY <1>4, <2>2, <2>4
  <2>5. QED
    BY <2>3, <2>4
<1>11. QED
  BY <1>9, <1>10 DEF BInv

\* An order taken back takes with it what it brought, of every product.
LEMMA CancelBalances ==
    ASSUME IInv, BInv, CancelLastOrder
    PROVE  BInv'
<1> DEFINE last == count - 1
<1>1. /\ LastOrder = last /\ last \in DOMAIN transactions
      /\ transactions[last] \in Order
  BY DEF CancelLastOrder, IInv, TypeOK, Dense, OpenOrder
<1>2. Max(DOMAIN transactions) = last
  BY <1>1 DEF IInv, TypeOK, Dense, Max
<1>3. /\ transactions' = Restrict(transactions, DOMAIN transactions \ {last})
      /\ products' = [p \in DOMAIN products |->
             [products[p] EXCEPT !.stock = @ - transactions[last].items[p]]]
  BY <1>1, <1>2 DEF CancelLastOrder, Cancel, LastOrder
<1>4. /\ DOMAIN transactions' = DOMAIN transactions \ {last}
      /\ \A id \in DOMAIN transactions' : transactions'[id] = transactions[id]
  BY <1>3 DEF Restrict
<1>5. transactions[last].kind = "order"
      /\ transactions[last].items \in [ProductKeys -> Nat]
  BY <1>1 DEF Order
<1> HIDE DEF last
<1>6. OrderIds' = OrderIds \ {last} /\ last \in OrderIds
  BY <1>1, <1>4, <1>5 DEF OrderIds, IsOrder
<1>7. ASSUME NEW r \in ProductKeys
      PROVE  Brought(r)' = Brought(r) - transactions[last].items[r]
  <2>1. /\ \A id \in OrderIds : Items(r)[id] \in Int
        /\ \A id \in OrderIds \ {last} : Items(r)'[id] = Items(r)[id]
    BY <1>4, <1>6, UnitsTyped DEF Items, OrderIds
  <2>2. SumOver(Items(r)', OrderIds \ {last})
            = SumOver(Items(r), OrderIds) - Items(r)[last]
    BY <1>6, <2>1, HistoriesFinite, SumDelete
  <2>3. Items(r)[last] = transactions[last].items[r]
    BY <1>6 DEF Items
  <2>4. QED
    BY <1>6, <2>2, <2>3 DEF Brought
<1>8. ASSUME NEW r \in ProductKeys PROVE Gone(r)' = Gone(r)
  <2>1. SoldOf(r)' = SoldOf(r)
        /\ \A id \in SoldOf(r) : transactions'[id] = transactions[id]
    BY <1>4, <1>5 DEF SoldOf, IsSale
  <2>2. QED
    BY <2>1, SameTaken
<1>9. ASSUME NEW r \in DOMAIN products
      PROVE  products'[r].stock = Catalogue[r].stock + Brought(r)' - Gone(r)'
  <2>1. /\ r \in ProductKeys /\ products[r] \in Shelf(DOMAIN clients)
        /\ products[r].stock = Catalogue[r].stock + Brought(r) - Gone(r)
        /\ Catalogue[r].stock \in Nat
    BY CatalogueAssumption DEF IInv, TypeOK, BInv, StockSummed, Product
  <2>2. Brought(r) \in Int /\ Gone(r) \in Int
    BY <2>1, SumsTyped
  <2>3. transactions[last].items[r] \in Nat
    BY <1>5, <2>1
  <2>4. products'[r].stock = products[r].stock - transactions[last].items[r]
    BY <1>3, <2>1 DEF Shelf
  <2>5. QED
    BY <1>7, <1>8, <2>1, <2>2, <2>3, <2>4
<1>10. ItemsRegistered'
  <2>1. DOMAIN products' = DOMAIN products
    BY <1>3
  <2>2. \A id \in OrderIds' : id \in OrderIds /\ transactions'[id] = transactions[id]
    BY <1>4, <1>6 DEF OrderIds
  <2>3. QED
    BY <2>1, <2>2 DEF BInv, ItemsRegistered
<1>11. QED
  BY <1>3, <1>9, <1>10 DEF BInv, StockSummed

LEMMA StockIsSummed ==
    ASSUME IInv, StockSummed
    PROVE  StockBalances
<1>1. ASSUME NEW p \in DOMAIN products
      PROVE  MapThenSumSet(LAMBDA id : transactions[id].items[p], OrderIds)
                 = Brought(p)
  <2>1. p \in ProductKeys
    BY DEF IInv, TypeOK
  <2> DEFINE f == Items(p)
  <2>2. IsFiniteSet(OrderIds) /\ \A id \in OrderIds :
            f[id] = transactions[id].items[p] /\ f[id] \in Int
    BY <2>1, HistoriesFinite, UnitsTyped DEF Items
  <2> HIDE DEF f
  <2> DEFINE e(x) == transactions[x].items[p]
             step(g, s) == IF s = {} THEN 0
                           ELSE e(CHOOSE x \in s : TRUE)
                                    + g[s \ {CHOOSE x \in s : TRUE}]
             eq(g) == g = [s \in SUBSET OrderIds |-> step(g, s)]
             i == CHOOSE g : eq(g)
  <2>3. i[OrderIds] = MapThenSumSet(LAMBDA id : transactions[id].items[p], OrderIds)
    BY DEF MapThenSumSet, MapThenFoldSet
  <2>4. \A x \in OrderIds : f[x] = e(x)
    BY <2>2
  <2> HIDE DEF e
  <2>5. \A s \in SUBSET OrderIds : s # {} => f[Taken(s)] = e(CHOOSE x \in s : TRUE)
    BY <2>4 DEF Taken
  <2>6. PICK h \in [SUBSET OrderIds -> Int] : Sums(h, f, OrderIds)
    BY <2>2, SumsExist
  <2>7. eq(h)
    <3>1. \A s \in SUBSET OrderIds : h[s] = step(h, s)
      BY <2>5, <2>6 DEF Sums, Taken
    <3>2. h = [s \in SUBSET OrderIds |-> h[s]]
      OBVIOUS
    <3>3. QED
      BY <3>1, <3>2
  <2>8. eq(i)
    <3>1. \E g : eq(g)
      BY <2>7
    <3> HIDE DEF eq
    <3>2. QED
      BY <3>1
  <2> HIDE DEF i
  <2>9. \A s \in SUBSET OrderIds : i[s] = step(i, s)
    BY <2>8
  <2>10. Sums(i, f, OrderIds)
    BY <2>5, <2>9 DEF Sums, Taken
  <2>11. SumOver(f, OrderIds) = i[OrderIds]
    BY <2>2, <2>10, SumIs, Zenon
  <2>12. QED
    BY <2>3, <2>11, Zenon DEF Brought, f
<1>2. ASSUME NEW p \in DOMAIN products
      PROVE  MapThenSumSet(LAMBDA id : transactions[id].quantity, SoldOf(p))
                 = Gone(p)
  <2>1. \A id \in SoldOf(p) :
            Sold(p)[id] = transactions[id].quantity /\ Sold(p)[id] \in Int
    BY UnitsTyped DEF Sold
  <2>2. QED
    BY <2>1, HistoriesFinite, SumOfQuantities DEF Gone
<1>3. QED
  BY <1>1, <1>2 DEF StockSummed, StockBalances, OrderIds, SoldOf

\* What is in stock is what was registered, plus what the orders that stand
\* brought, minus what was sold, whatever was taken back or named twice
\* (registerSale, registerOrder, addToLastOrder and cancelLastOrder).
THEOREM StockIsBalanced == Spec => []StockBalances
<1>1. Init => BInv
  BY DEF Init, Empty, BInv, StockSummed, ItemsRegistered, OrderIds
<1>2. IInv /\ BInv /\ [Next]_vars => BInv'
  <2> SUFFICES ASSUME IInv, BInv, [Next]_vars PROVE BInv'
    OBVIOUS
  <2>1. CASE \/ \E days \in Days : AdvanceDate(days)
             \/ \E c \in ClientKeys : ShowClient(c)
             \/ \E key \in SupplierKeys : \/ RegisterSupplier(key)
                                          \/ ToggleTransactions(Fold[key])
             \/ UNCHANGED vars
    <3>1. UNCHANGED <<products, transactions>>
      BY <2>1 DEF AdvanceDate, ShowClient, RegisterSupplier,
         ToggleTransactions, vars
    <3>2. QED
      BY <3>1, NothingMoves
  <2>2. CASE \/ \E c \in ClientKeys : RegisterClient(c)
             \/ \E p \in ProductKeys, price \in Prices : ChangePrice(p, price)
             \/ \E c \in ClientKeys, p \in ProductKeys : ToggleNotifications(c, p)
    <3>1. /\ DOMAIN products' = DOMAIN products /\ UNCHANGED transactions
          /\ \A p \in DOMAIN products : products'[p].stock = products[p].stock
      <4>1. \A p \in DOMAIN products : products[p] \in Shelf(DOMAIN clients)
        BY DEF IInv, TypeOK
      <4>2. QED
        BY <2>2, <4>1 DEF RegisterClient, ChangePrice, ToggleNotifications, Shelf
    <3>2. QED
      BY <3>1, NothingMoves
  <2>3. CASE \E id \in DOMAIN transactions : Pay(id)
    <3>1. PICK k \in DOMAIN transactions : Pay(k)
      BY <2>3
    <3>2. transactions[k] \in Sale
      BY <3>1 DEF Pay, IsSale, IInv, TypeOK, Order
    <3>3. /\ DOMAIN transactions' = DOMAIN transactions /\ UNCHANGED products
          /\ \A id \in DOMAIN transactions :
                 /\ transactions'[id].kind = transactions[id].kind
                 /\ IsOrder(transactions[id]) =>
                        transactions'[id].items = transactions[id].items
                 /\ IsSale(transactions[id]) =>
                        /\ transactions'[id].product = transactions[id].product
                        /\ transactions'[id].quantity =
                               transactions[id].quantity
      BY <3>1, <3>2 DEF Pay, Settle, Sale, IsSale, IsOrder
    <3>4. QED
      BY <3>3, NothingMoves
  <2>4. CASE \E p \in ProductKeys : RegisterProduct(p)
    BY <2>4, NewProductBalances
  <2>5. CASE \E c \in ClientKeys, p \in ProductKeys, d \in Deadlines,
                quantity \in Quantities : RegisterSale(c, date + d, p, quantity)
    BY <2>5, SaleBalances
  <2>6. CASE \E key \in SupplierKeys, p \in ProductKeys,
                quantity \in Quantities, more \in BOOLEAN :
                   RegisterOrder(key, p, quantity, more)
    BY <2>6, OrderBalances
  <2>7. CASE \E p \in ProductKeys, quantity \in Quantities, more \in BOOLEAN :
                 AddToLastOrder(p, quantity, more)
    BY <2>7, AddedBalances
  <2>8. CASE CancelLastOrder
    BY <2>8, CancelBalances
  <2>9. QED
    BY <2>1, <2>2, <2>3, <2>4, <2>5, <2>6, <2>7, <2>8 DEF Next
<1>3. IInv /\ BInv => StockBalances
  BY StockIsSummed DEF BInv
<1>4. QED
  BY <1>1, <1>2, <1>3, Inductive, PTL DEF Spec

-----------------------------------------------------------------------------
\* What clients paid, what orders cost, and the available balance.

Values   == [id \in DOMAIN transactions |-> PayedValue(transactions[id])]
Costs    == [id \in OrderIds |-> 100 * transactions[id].cost]
Payments == [c \in DOMAIN clients |-> clients[c].payed]

PaidBy(c) == SumOver(Values, SalesOf(c))
Available == SumOver(Values, DOMAIN transactions)
Received  == SumOver(Payments, DOMAIN clients)
Spent     == SumOver(Costs, OrderIds)

\* The clients are finitely many because they come one at a time.
CInv ==
    /\ IsFiniteSet(DOMAIN clients)
    /\ \A c \in DOMAIN clients : clients[c].payed = PaidBy(c)
    /\ Available = Received - Spent

LEMMA ValuesOfOne ==
    /\ \A t : t.kind = "order" => PayedValue(t) = -(100 * t.cost)
    /\ \A t : t.kind = "sale" =>
           PayedValue(t) = IF t.payed THEN t.valuePayed ELSE 0
BY DEF PayedValue, IsOrder

LEMMA AmountsTyped ==
    ASSUME IInv
    PROVE  /\ \A id \in DOMAIN transactions : Values[id] \in Int
           /\ \A id \in OrderIds : Costs[id] \in Int /\ Values[id] = -Costs[id]
           /\ \A c \in DOMAIN clients : Payments[c] \in Int
<1>1. ASSUME NEW id \in OrderIds
      PROVE  Costs[id] \in Int /\ Values[id] = -Costs[id] /\ Values[id] \in Int
  <2>1. transactions[id].cost \in Nat /\ transactions[id].kind = "order"
        /\ id \in DOMAIN transactions
    BY OrdersAndSales DEF Order, OrderIds
  <2>2. PayedValue(transactions[id]) = -(100 * transactions[id].cost)
    BY <2>1, ValuesOfOne
  <2>3. QED
    BY <2>1, <2>2 DEF Values, Costs
<1>2. ASSUME NEW id \in DOMAIN transactions \ OrderIds PROVE Values[id] \in Int
  <2>1. transactions[id] \in Sale
    BY OrdersAndSales
  <2>2. /\ transactions[id].kind = "sale" /\ transactions[id].valuePayed \in Int
        /\ transactions[id].payed \in BOOLEAN
    BY <2>1 DEF Sale
  <2>3. QED
    BY <2>2, ValuesOfOne DEF Values
<1>3. \A c \in DOMAIN clients : Payments[c] \in Int
  BY DEF Payments, IInv, TypeOK, Client
<1>4. QED
  BY <1>1, <1>2, <1>3

LEMMA AccountsTyped ==
    ASSUME IInv, CInv
    PROVE  Available \in Int /\ Received \in Int /\ Spent \in Int
<1>1. Available \in Int /\ Spent \in Int
  BY HistoriesFinite, AmountsTyped, SumType DEF Available, Spent
<1>2. Received \in Int
  BY AmountsTyped, SumType DEF Received, CInv
<1>3. QED
  BY <1>1, <1>2

\* A client whose sales a step leaves as they are.
LEMMA SamePaidBy ==
    ASSUME IInv, NEW c, SalesOf(c)' = SalesOf(c),
           \A id \in SalesOf(c) : /\ id \in DOMAIN transactions'
                                  /\ PayedValue(transactions'[id]) =
                                         PayedValue(transactions[id])
    PROVE  PaidBy(c)' = PaidBy(c)
<1>1. \A id \in SalesOf(c) : id \in DOMAIN transactions
  BY DEF SalesOf
<1>2. \A id \in SalesOf(c) : Values[id] \in Int /\ Values'[id] = Values[id]
  BY <1>1, AmountsTyped DEF Values
<1>3. SumOver(Values', SalesOf(c)) = SumOver(Values, SalesOf(c))
  BY <1>2, HistoriesFinite, SumSame
<1>4. QED
  BY <1>3 DEF PaidBy

LEMMA SameReceived ==
    ASSUME IInv, CInv, DOMAIN clients' = DOMAIN clients,
           \A c \in DOMAIN clients : clients'[c].payed = clients[c].payed
    PROVE  Received' = Received
<1>1. \A c \in DOMAIN clients : Payments[c] \in Int /\ Payments'[c] = Payments[c]
  BY AmountsTyped DEF Payments
<1>2. SumOver(Payments', DOMAIN clients) = SumOver(Payments, DOMAIN clients)
  BY <1>1, SumSame DEF CInv
<1>3. QED
  BY <1>2 DEF Received

LEMMA SameSpent ==
    ASSUME IInv, OrderIds' = OrderIds,
           \A id \in OrderIds : transactions'[id].cost = transactions[id].cost
    PROVE  Spent' = Spent
<1>1. \A id \in OrderIds : Costs[id] \in Int /\ Costs'[id] = Costs[id]
  BY AmountsTyped DEF Costs
<1>2. SumOver(Costs', OrderIds) = SumOver(Costs, OrderIds)
  BY <1>1, HistoriesFinite, SumSame
<1>3. QED
  BY <1>2 DEF Spent

LEMMA NotifyKeepsPayed ==
    ASSUME IInv, NEW p, NEW event, NEW kind, NEW amount,
           Notify(p, event, kind, amount)
    PROVE  /\ DOMAIN clients' = DOMAIN clients
           /\ \A c \in DOMAIN clients : clients'[c].payed = clients[c].payed
<1>1. CASE event
  <2>1. clients' = Told(p, kind, amount)
    BY <1>1 DEF Notify
  <2>2. ASSUME NEW c \in DOMAIN clients PROVE clients'[c].payed = clients[c].payed
    BY <2>1 DEF IInv, TypeOK, Client, Told
  <2>3. QED
    BY <2>1, <2>2 DEF Told
<1>2. CASE ~event
  BY <1>2 DEF Notify
<1>3. QED
  BY <1>1, <1>2

\* Steps that move no money.
LEMMA NoMoneyMoves ==
    ASSUME IInv, CInv, UNCHANGED transactions, DOMAIN clients' = DOMAIN clients,
           \A c \in DOMAIN clients : clients'[c].payed = clients[c].payed
    PROVE  CInv'
<1>1. /\ OrderIds' = OrderIds /\ \A c : SalesOf(c)' = SalesOf(c)
  BY DEF OrderIds, SalesOf, IsOrder, IsSale
<1>2. ASSUME NEW c PROVE PaidBy(c)' = PaidBy(c)
  <2>1. SalesOf(c) \subseteq DOMAIN transactions
    BY DEF SalesOf
  <2>2. QED
    BY <1>1, <2>1, SamePaidBy
<1>3. Received' = Received
  BY SameReceived
<1>4. Spent' = Spent
  BY <1>1, SameSpent
<1>5. Available' = Available
  BY DEF Available, Values
<1>6. QED
  BY <1>2, <1>3, <1>4, <1>5 DEF CInv

LEMMA NewClientOwesNothing ==
    ASSUME IInv, CInv, NEW c \in ClientKeys, RegisterClient(c)
    PROVE  CInv'
<1>1. /\ c \notin DOMAIN clients /\ UNCHANGED transactions
      /\ DOMAIN clients' = DOMAIN clients \cup {c}
      /\ clients'[c].payed = 0
      /\ \A d \in DOMAIN clients : clients'[d] = clients[d]
  BY DEF RegisterClient, Put, NewClient
<1>2. /\ OrderIds' = OrderIds /\ \A d : SalesOf(d)' = SalesOf(d)
  BY <1>1 DEF OrderIds, SalesOf, IsOrder, IsSale
<1>3. ASSUME NEW d PROVE PaidBy(d)' = PaidBy(d)
  <2>1. SalesOf(d) \subseteq DOMAIN transactions
    BY DEF SalesOf
  <2>2. QED
    BY <1>1, <1>2, <2>1, SamePaidBy
<1>4. PaidBy(c) = 0
  <2>1. SalesOf(c) = {}
    BY <1>1, OrdersAndSales DEF SalesOf, OrderIds, Sale, IsSale, IsOrder
  <2>2. QED
    BY <2>1, SumEmpty DEF PaidBy
<1>5. Received' = Received
  <2>1. \A d \in DOMAIN clients : Payments[d] \in Int /\ Payments'[d] = Payments[d]
    BY <1>1, AmountsTyped DEF Payments
  <2>2. Payments'[c] = 0 /\ Payments'[c] \in Int
    BY <1>1 DEF Payments
  <2>3. c \notin DOMAIN clients /\ IsFiniteSet(DOMAIN clients)
    BY <1>1 DEF CInv
  <2>4. SumOver(Payments', DOMAIN clients \cup {c})
            = SumOver(Payments, DOMAIN clients) + Payments'[c]
    BY <2>1, <2>2, <2>3, SumInsert, Zenon
  <2>5. QED
    BY <1>1, <2>2, <2>4, AccountsTyped DEF Received
<1>6. Spent' = Spent
  BY <1>1, <1>2, SameSpent
<1>7. Available' = Available
  BY <1>1 DEF Available, Values
<1>8. IsFiniteSet(DOMAIN clients')
  BY <1>1, FS_AddElement DEF CInv
<1>9. QED
  BY <1>1, <1>3, <1>4, <1>5, <1>6, <1>7, <1>8 DEF CInv

LEMMA SaleOwed ==
    ASSUME IInv, CInv, NEW c \in ClientKeys, NEW limit, NEW p \in ProductKeys,
           NEW quantity \in Quantities, RegisterSale(c, limit, p, quantity)
    PROVE  CInv'
<1> DEFINE sale == NewSale(c, limit, p, quantity)
<1>1. /\ transactions' = Put(transactions, count, sale)
      /\ c \in DOMAIN clients
      /\ clients' = [clients EXCEPT
                        ![c].sales = Append(@, count),
                        ![c].purchases = @ + products[p].price * quantity]
  BY DEF RegisterSale
<1>2. sale.kind = "sale" /\ sale.client = c /\ PayedValue(sale) = 0
  BY DEF NewSale, PayedValue, IsOrder
<1> HIDE DEF sale
<1>3. /\ count \notin DOMAIN transactions
      /\ DOMAIN transactions' = DOMAIN transactions \cup {count}
      /\ transactions'[count] = sale
      /\ \A id \in DOMAIN transactions : transactions'[id] = transactions[id]
  BY <1>1, PutHistory
<1>4. /\ DOMAIN clients' = DOMAIN clients
      /\ \A d \in DOMAIN clients : clients'[d].payed = clients[d].payed
  BY <1>1 DEF IInv, TypeOK, Client
<1>5. Received' = Received
  BY <1>4, SameReceived
<1>6. Spent' = Spent
  <2>1. OrderIds' = OrderIds
        /\ \A id \in OrderIds : transactions'[id] = transactions[id]
    BY <1>2, <1>3 DEF OrderIds, IsOrder
  <2>2. QED
    BY <2>1, SameSpent
<1>7. /\ \A id \in DOMAIN transactions :
             Values[id] \in Int /\ Values'[id] = Values[id]
      /\ Values'[count] = 0 /\ Values'[count] \in Int
  BY <1>2, <1>3, AmountsTyped DEF Values
<1>8. Available' = Available
  <2>1. count \notin DOMAIN transactions /\ IsFiniteSet(DOMAIN transactions)
    BY <1>3, HistoriesFinite
  <2>2. SumOver(Values', DOMAIN transactions \cup {count})
            = SumOver(Values, DOMAIN transactions) + Values'[count]
    BY <1>7, <2>1, SumInsert, Zenon
  <2>3. QED
    BY <1>3, <1>7, <2>2, AccountsTyped DEF Available
<1>9. ASSUME NEW d \in DOMAIN clients PROVE clients'[d].payed = PaidBy(d)'
  <2>1. CASE d = c
    <3>1. SalesOf(c)' = SalesOf(c) \cup {count} /\ count \notin SalesOf(c)
          /\ SalesOf(c) \subseteq DOMAIN transactions
      BY <1>2, <1>3 DEF SalesOf, IsSale
    <3>2. /\ IsFiniteSet(SalesOf(c)) /\ count \notin SalesOf(c)
          /\ Values'[count] \in Int
          /\ \A id \in SalesOf(c) : Values[id] \in Int /\ Values'[id] = Values[id]
      BY <1>7, <3>1, HistoriesFinite
    <3>3. SumOver(Values', SalesOf(c) \cup {count})
              = SumOver(Values, SalesOf(c)) + Values'[count]
      BY <3>2, SumInsert, Zenon
    <3>4. clients[c].payed = PaidBy(c) /\ clients[c].payed \in Nat
      BY <1>1 DEF CInv, IInv, TypeOK, Client
    <3>5. QED
      BY <1>4, <1>7, <2>1, <3>1, <3>3, <3>4 DEF PaidBy
  <2>2. CASE d # c
    <3>1. SalesOf(d)' = SalesOf(d) /\ SalesOf(d) \subseteq DOMAIN transactions
      BY <1>2, <1>3, <2>2 DEF SalesOf, IsSale
    <3>2. PaidBy(d)' = PaidBy(d)
      BY <1>3, <3>1, SamePaidBy
    <3>3. QED
      BY <1>4, <3>2 DEF CInv
  <2>3. QED
    BY <2>1, <2>2
<1>10. QED
  BY <1>4, <1>5, <1>6, <1>8, <1>9 DEF CInv

\* What the client is shown to have paid grows by what the sale keeps.
LEMMA PaymentCounted ==
    ASSUME IInv, CInv, NEW id \in DOMAIN transactions, Pay(id)
    PROVE  CInv'
<1> DEFINE sale == transactions[id]
           c == sale.client
           value == RealPrice(sale, date)
<1>1. sale \in Sale /\ ~sale.payed
  BY DEF Pay, IsSale, IInv, TypeOK, Order
<1>2. value \in Nat /\ c \in DOMAIN clients
  BY <1>1, RealPriceTyped DEF IInv, TypeOK, Sale
<1>3. /\ transactions' = [transactions EXCEPT ![id].payed = TRUE,
                             ![id].date = date, ![id].valuePayed = value]
      /\ clients' = [clients EXCEPT
             ![c].payed = @ + value,
             ![c].standing = StandingAfter(@, value, date - sale.limit)]
  BY DEF Pay, Settle
<1> HIDE DEF value
<1>4. /\ DOMAIN transactions' = DOMAIN transactions
      /\ \A k \in DOMAIN transactions \ {id} : transactions'[k] = transactions[k]
      /\ transactions'[id].kind = "sale" /\ transactions'[id].client = c
      /\ transactions'[id].payed = TRUE /\ transactions'[id].valuePayed = value
      /\ sale.kind = "sale"
  BY <1>1, <1>3 DEF Sale
<1>5. /\ DOMAIN clients' = DOMAIN clients
      /\ clients'[c].payed = clients[c].payed + value
      /\ \A d \in DOMAIN clients \ {c} : clients'[d] = clients[d]
  BY <1>2, <1>3 DEF IInv, TypeOK, Client
<1>6. OrderIds' = OrderIds /\ \A d : SalesOf(d)' = SalesOf(d)
  BY <1>4 DEF OrderIds, SalesOf, IsOrder, IsSale
<1>7. /\ \A k \in DOMAIN transactions : Values[k] \in Int
      /\ \A k \in DOMAIN transactions \ {id} : Values'[k] = Values[k]
      /\ Values[id] = 0 /\ Values'[id] = value /\ value \in Int
  BY <1>1, <1>2, <1>4, AmountsTyped, ValuesOfOne DEF Values
<1>8. Spent' = Spent
  <2>1. \A k \in OrderIds : transactions'[k] = transactions[k]
    BY <1>4 DEF OrderIds, IsOrder
  <2>2. QED
    BY <1>6, <2>1, SameSpent
<1>9. Available' = Available + value
  <2>1. SumOver(Values', DOMAIN transactions)
            = SumOver(Values, DOMAIN transactions) + (Values'[id] - Values[id])
    BY <1>7, HistoriesFinite, SumChange
  <2>2. QED
    BY <1>4, <1>7, <2>1 DEF Available
<1>10. Received' = Received + value
  <2>1. /\ \A d \in DOMAIN clients : Payments[d] \in Int
        /\ \A d \in DOMAIN clients \ {c} : Payments'[d] = Payments[d]
        /\ Payments'[c] = Payments[c] + value /\ Payments'[c] \in Int
    BY <1>2, <1>5, AmountsTyped DEF Payments
  <2>2. SumOver(Payments', DOMAIN clients)
            = SumOver(Payments, DOMAIN clients) + (Payments'[c] - Payments[c])
    BY <1>2, <2>1, SumChange DEF CInv
  <2>3. Payments'[c] - Payments[c] = value
    BY <1>2, <2>1
  <2>4. QED
    BY <1>5, <2>2, <2>3 DEF Received
<1>11. ASSUME NEW d \in DOMAIN clients PROVE clients'[d].payed = PaidBy(d)'
  <2>1. SalesOf(d) \subseteq DOMAIN transactions
    BY DEF SalesOf
  <2>2. CASE d = c
    <3>1. id \in SalesOf(c)
      BY <1>4 DEF SalesOf, IsSale
    <3>2. SumOver(Values', SalesOf(c))
              = SumOver(Values, SalesOf(c)) + (Values'[id] - Values[id])
      BY <1>7, <2>1, <2>2, <3>1, HistoriesFinite, SumChange
    <3>3. clients[c].payed = PaidBy(c)
      BY <1>2 DEF CInv
    <3>4. QED
      BY <1>5, <1>6, <1>7, <2>2, <3>2, <3>3 DEF PaidBy
  <2>3. CASE d # c
    <3>1. id \notin SalesOf(d)
      BY <2>3 DEF SalesOf
    <3>2. PaidBy(d)' = PaidBy(d)
      BY <1>4, <1>6, <2>1, <3>1, SamePaidBy
    <3>3. QED
      BY <1>5, <2>3, <3>2 DEF CInv
  <2>4. QED
    BY <2>2, <2>3
<1>12. QED
  BY <1>2, <1>5, <1>8, <1>9, <1>10, <1>11, AccountsTyped DEF CInv

\* What an order costs leaves the available balance, and is counted among the
\* orders, in the same step.
LEMMA OrderPaidFor ==
    ASSUME IInv, CInv, NEW key \in SupplierKeys, NEW p \in ProductKeys,
           NEW quantity \in Quantities, NEW more \in BOOLEAN,
           RegisterOrder(key, p, quantity, more)
    PROVE  CInv'
<1> DEFINE order == [kind |-> "order", supplier |-> key, date |-> date,
                     items |-> [r \in ProductKeys |-> IF r = p THEN quantity
                                                      ELSE 0],
                     cost |-> quantity * products[p].price]
<1>1. /\ transactions' = Put(transactions, count, order)
      /\ p \in DOMAIN products /\ AddStock(p, quantity)
  BY DEF RegisterOrder
<1>2. order.kind = "order" /\ order.cost \in Nat
  <2>1. quantity \in Nat /\ products[p].price \in Nat
    BY <1>1, InputsAssumption DEF IInv, TypeOK, Shelf
  <2>2. QED
    BY <2>1, ProductIsNatural
<1> HIDE DEF order
<1>3. /\ count \notin DOMAIN transactions
      /\ DOMAIN transactions' = DOMAIN transactions \cup {count}
      /\ transactions'[count] = order
      /\ \A id \in DOMAIN transactions : transactions'[id] = transactions[id]
  BY <1>1, PutHistory
<1>4. /\ OrderIds' = OrderIds \cup {count} /\ count \notin OrderIds
      /\ OrderIds \subseteq DOMAIN transactions
  BY <1>2, <1>3 DEF OrderIds, IsOrder
<1>5. /\ \A id \in OrderIds : Costs[id] \in Int /\ Costs'[id] = Costs[id]
      /\ \A id \in DOMAIN transactions :
             Values[id] \in Int /\ Values'[id] = Values[id]
  BY <1>3, <1>4, AmountsTyped DEF Values, Costs
<1>6. Costs'[count] \in Int /\ Values'[count] = -Costs'[count]
  <2>1. PayedValue(order) = -(100 * order.cost)
    BY <1>2, ValuesOfOne
  <2>2. Costs'[count] = 100 * order.cost /\ Values'[count] = -(100 * order.cost)
    BY <1>3, <1>4, <2>1 DEF Values, Costs
  <2>3. QED
    BY <1>2, <2>2
<1>7. Spent' = Spent + Costs'[count]
  <2>1. /\ IsFiniteSet(OrderIds) /\ count \notin OrderIds
        /\ \A id \in OrderIds : Costs[id] \in Int /\ Costs'[id] = Costs[id]
        /\ Costs'[count] \in Int
    BY <1>4, <1>5, <1>6, HistoriesFinite
  <2>2. SumOver(Costs', OrderIds \cup {count})
            = SumOver(Costs, OrderIds) + Costs'[count]
    BY <2>1, SumInsert, Zenon
  <2>3. QED
    BY <1>4, <2>2 DEF Spent
<1>8. Available' = Available + Values'[count]
  <2>1. /\ IsFiniteSet(DOMAIN transactions) /\ count \notin DOMAIN transactions
        /\ \A id \in DOMAIN transactions :
               Values[id] \in Int /\ Values'[id] = Values[id]
        /\ Values'[count] \in Int
    BY <1>3, <1>5, <1>6, HistoriesFinite
  <2>2. SumOver(Values', DOMAIN transactions \cup {count})
            = SumOver(Values, DOMAIN transactions) + Values'[count]
    BY <2>1, SumInsert, Zenon
  <2>3. QED
    BY <1>3, <2>2 DEF Available
<1>9. /\ DOMAIN clients' = DOMAIN clients
      /\ \A c \in DOMAIN clients : clients'[c].payed = clients[c].payed
  BY <1>1, NotifyKeepsPayed DEF AddStock
<1>10. ASSUME NEW c PROVE PaidBy(c)' = PaidBy(c)
  <2>1. SalesOf(c)' = SalesOf(c) /\ SalesOf(c) \subseteq DOMAIN transactions
    BY <1>2, <1>3 DEF SalesOf, IsSale
  <2>2. QED
    BY <1>3, <2>1, SamePaidBy
<1>11. Received' = Received
  BY <1>9, SameReceived
<1>12. Available' = Received' - Spent'
  <2>1. Available \in Int /\ Received \in Int /\ Spent \in Int
    BY AccountsTyped
  <2>2. Available = Received - Spent
    BY DEF CInv
  <2>3. QED
    BY <1>6, <1>7, <1>8, <1>11, <2>1, <2>2
<1>13. QED
  BY <1>9, <1>10, <1>12 DEF CInv

LEMMA AdditionPaidFor ==
    ASSUME IInv, CInv, NEW p \in ProductKeys, NEW quantity \in Quantities,
           NEW more \in BOOLEAN, AddToLastOrder(p, quantity, more)
    PROVE  CInv'
<1> DEFINE last == count - 1
           held == transactions[last].items[p] + quantity
           more_cost == quantity * products[p].price
<1>1. /\ ordering # None /\ p \in DOMAIN products /\ AddStock(p, quantity)
  BY DEF AddToLastOrder, Include
<1>2. /\ LastOrder = last /\ last \in DOMAIN transactions
      /\ transactions[last] \in Order
  BY <1>1 DEF IInv, TypeOK, Dense, OpenOrder
<1>3. transactions' = [transactions EXCEPT
             ![last].items[p] = held, ![last].cost = @ + more_cost]
  BY <1>2 DEF AddToLastOrder, Include
<1>4. more_cost \in Nat
  <2>1. quantity \in Nat /\ products[p].price \in Nat
    BY <1>1, InputsAssumption DEF IInv, TypeOK, Shelf
  <2>2. QED
    BY <2>1, ProductIsNatural
<1> HIDE DEF last, more_cost
<1>5. /\ transactions[last].kind = "order" /\ transactions[last].cost \in Nat
      /\ transactions'[last].kind = "order"
      /\ transactions'[last].cost = transactions[last].cost + more_cost
      /\ DOMAIN transactions' = DOMAIN transactions
      /\ \A id \in DOMAIN transactions \ {last} :
             transactions'[id] = transactions[id]
  BY <1>2, <1>3 DEF Order
<1>6. /\ OrderIds' = OrderIds /\ last \in OrderIds
      /\ OrderIds \subseteq DOMAIN transactions
  BY <1>2, <1>5 DEF OrderIds, IsOrder
<1>7. /\ \A id \in OrderIds : Costs[id] \in Int
      /\ \A id \in OrderIds \ {last} : Costs'[id] = Costs[id]
      /\ \A id \in DOMAIN transactions : Values[id] \in Int
      /\ \A id \in DOMAIN transactions \ {last} : Values'[id] = Values[id]
  BY <1>5, <1>6, AmountsTyped DEF Values, Costs
<1>8. /\ Costs'[last] \in Int /\ Values'[last] = -Costs'[last]
      /\ Values'[last] \in Int /\ Values[last] = -Costs[last]
  <2>1. transactions'[last].cost \in Nat
    BY <1>4, <1>5
  <2>2. PayedValue(transactions'[last]) = -(100 * transactions'[last].cost)
    BY <1>5, ValuesOfOne
  <2>3. /\ Costs'[last] = 100 * transactions'[last].cost
        /\ Values'[last] = -(100 * transactions'[last].cost)
    BY <1>2, <1>5, <1>6, <2>2 DEF Values, Costs
  <2>4. Values[last] = -Costs[last]
    BY <1>6, AmountsTyped
  <2>5. QED
    BY <2>1, <2>3, <2>4
<1>9. Spent' = Spent + (Costs'[last] - Costs[last])
  <2>1. /\ IsFiniteSet(OrderIds) /\ last \in OrderIds /\ Costs'[last] \in Int
        /\ \A id \in OrderIds : Costs[id] \in Int
        /\ \A id \in OrderIds \ {last} : Costs'[id] = Costs[id]
    BY <1>6, <1>7, <1>8, HistoriesFinite
  <2>2. SumOver(Costs', OrderIds)
            = SumOver(Costs, OrderIds) + (Costs'[last] - Costs[last])
    BY <2>1, SumChange, Zenon
  <2>3. QED
    BY <1>6, <2>2 DEF Spent
<1>10. Available' = Available + (Values'[last] - Values[last])
  <2>1. /\ IsFiniteSet(DOMAIN transactions) /\ last \in DOMAIN transactions
        /\ Values'[last] \in Int
        /\ \A id \in DOMAIN transactions : Values[id] \in Int
        /\ \A id \in DOMAIN transactions \ {last} : Values'[id] = Values[id]
    BY <1>2, <1>7, <1>8, HistoriesFinite
  <2>2. SumOver(Values', DOMAIN transactions)
            = SumOver(Values, DOMAIN transactions)
                  + (Values'[last] - Values[last])
    BY <2>1, SumChange, Zenon
  <2>3. QED
    BY <1>5, <2>2 DEF Available
<1>11. /\ DOMAIN clients' = DOMAIN clients
       /\ \A c \in DOMAIN clients : clients'[c].payed = clients[c].payed
  BY <1>1, NotifyKeepsPayed DEF AddStock
<1>12. ASSUME NEW c PROVE PaidBy(c)' = PaidBy(c)
  <2>1. /\ SalesOf(c)' = SalesOf(c) /\ last \notin SalesOf(c)
        /\ SalesOf(c) \subseteq DOMAIN transactions
    BY <1>5 DEF SalesOf, IsSale
  <2>2. QED
    BY <1>5, <2>1, SamePaidBy
<1>13. Received' = Received
  BY <1>11, SameReceived
<1>14. Available' = Received' - Spent'
  <2>1. Available \in Int /\ Received \in Int /\ Spent \in Int
    BY AccountsTyped
  <2>2. Available = Received - Spent /\ Costs[last] \in Int
    BY <1>6, <1>7 DEF CInv
  <2>3. QED
    BY <1>8, <1>9, <1>10, <1>13, <2>1, <2>2
<1>15. QED
  BY <1>11, <1>12, <1>14 DEF CInv

LEMMA CancelRefunded ==
    ASSUME IInv, CInv, CancelLastOrder
    PROVE  CInv'
<1> DEFINE last == count - 1
<1>1. /\ LastOrder = last /\ last \in DOMAIN transactions
      /\ transactions[last] \in Order
  BY DEF CancelLastOrder, IInv, TypeOK, Dense, OpenOrder
<1>2. Max(DOMAIN transactions) = last
  BY <1>1 DEF IInv, TypeOK, Dense, Max
<1>3. /\ transactions' = Restrict(transactions, DOMAIN transactions \ {last})
      /\ UNCHANGED clients
  BY <1>2 DEF CancelLastOrder
<1>4. /\ DOMAIN transactions' = DOMAIN transactions \ {last}
      /\ \A id \in DOMAIN transactions' : transactions'[id] = transactions[id]
  BY <1>3 DEF Restrict
<1>5. transactions[last].kind = "order"
  BY <1>1 DEF Order
<1> HIDE DEF last
<1>6. /\ OrderIds' = OrderIds \ {last} /\ last \in OrderIds
      /\ OrderIds \subseteq DOMAIN transactions
  BY <1>1, <1>4, <1>5 DEF OrderIds, IsOrder
<1>7. /\ \A id \in OrderIds : Costs[id] \in Int
      /\ \A id \in OrderIds \ {last} : Costs'[id] = Costs[id]
      /\ \A id \in DOMAIN transactions : Values[id] \in Int
      /\ \A id \in DOMAIN transactions \ {last} : Values'[id] = Values[id]
      /\ Values[last] = -Costs[last]
  BY <1>4, <1>6, AmountsTyped DEF Values, Costs
<1>8. Spent' = Spent - Costs[last]
  <2>1. IsFiniteSet(OrderIds)
    BY HistoriesFinite
  <2>2. SumOver(Costs', OrderIds \ {last}) = SumOver(Costs, OrderIds) - Costs[last]
    BY <1>6, <1>7, <2>1, SumDelete, Zenon
  <2>3. QED
    BY <1>6, <2>2 DEF Spent
<1>9. Available' = Available - Values[last]
  <2>1. IsFiniteSet(DOMAIN transactions)
    BY HistoriesFinite
  <2>2. SumOver(Values', DOMAIN transactions \ {last})
            = SumOver(Values, DOMAIN transactions) - Values[last]
    BY <1>1, <1>7, <2>1, SumDelete, Zenon
  <2>3. QED
    BY <1>4, <2>2 DEF Available
<1>10. ASSUME NEW c PROVE PaidBy(c)' = PaidBy(c)
  <2>1. /\ SalesOf(c)' = SalesOf(c)
        /\ SalesOf(c) \subseteq DOMAIN transactions \ {last}
    BY <1>4, <1>5 DEF SalesOf, IsSale
  <2>2. QED
    BY <1>4, <2>1, SamePaidBy
<1>11. Received' = Received
  BY <1>3, SameReceived
<1>12. Available' = Received' - Spent'
  <2>1. Available \in Int /\ Received \in Int /\ Spent \in Int
    BY AccountsTyped
  <2>2. Available = Received - Spent /\ Costs[last] \in Int
    BY <1>6, <1>7 DEF CInv
  <2>3. QED
    BY <1>7, <1>8, <1>9, <1>11, <2>1, <2>2
<1>13. QED
  BY <1>3, <1>10, <1>12 DEF CInv

LEMMA AccountsAreSummed ==
    ASSUME IInv, XInv, CInv
    PROVE  AccountsAgree
<1>1. ASSUME NEW c \in DOMAIN clients
      PROVE  clients[c].payed =
                 MapThenSumSet(LAMBDA id : PayedValue(transactions[id]),
                               ToSet(clients[c].sales))
  <2> DEFINE D == ToSet(clients[c].sales)
  <2>1. D = SalesOf(c)
    BY DEF XInv, SalesListed, Lists
  <2>2. IsFiniteSet(D) /\ \A id \in D :
            Values[id] = PayedValue(transactions[id]) /\ Values[id] \in Int
    BY <2>1, HistoriesFinite, AmountsTyped DEF Values, SalesOf
  <2>3. clients[c].payed = SumOver(Values, D)
    BY <2>1 DEF CInv, PaidBy
  <2> HIDE DEF D
  <2>4. MapThenSumSet(LAMBDA id : PayedValue(transactions[id]), D)
            = SumOver(Values, D)
    BY <2>2, SumOfValues
  <2>5. QED
    BY <2>3, <2>4 DEF D
<1>2. AvailableBalance = Available
  <2>1. IsFiniteSet(DOMAIN transactions) /\ \A id \in DOMAIN transactions :
            Values[id] = PayedValue(transactions[id]) /\ Values[id] \in Int
    BY HistoriesFinite, AmountsTyped DEF Values
  <2>2. QED
    BY <2>1, SumOfValues DEF AvailableBalance, Available
<1>3. MapThenSumSet(LAMBDA c : clients[c].payed, DOMAIN clients) = Received
  <2>1. IsFiniteSet(DOMAIN clients) /\ \A c \in DOMAIN clients :
            Payments[c] = clients[c].payed /\ Payments[c] \in Int
    BY AmountsTyped DEF Payments, CInv
  <2>2. QED
    BY <2>1, SumOfPayments DEF Received
<1> DEFINE listed == UNION {ToSet(suppliers[s].orders) : s \in DOMAIN suppliers}
<1>4. listed = OrderIds
  <2>1. ASSUME NEW s \in DOMAIN suppliers
        PROVE  ToSet(suppliers[s].orders) = OrdersOf(s)
    BY DEF XInv, OrdersListed, Lists
  <2>2. listed = UNION {OrdersOf(s) : s \in DOMAIN suppliers}
    BY <2>1
  <2>3. QED
    BY <2>2 DEF OrdersOf, OrderIds, XInv, OrdersRegistered
<1>5. MapThenSumSet(LAMBDA id : 100 * transactions[id].cost, OrderIds) = Spent
  <2>1. IsFiniteSet(OrderIds) /\ \A id \in OrderIds :
            Costs[id] = 100 * transactions[id].cost /\ Costs[id] \in Int
    BY HistoriesFinite, AmountsTyped DEF Costs
  <2>2. QED
    BY <2>1, SumOfCosts, Zenon DEF Spent
<1> HIDE DEF listed
<1>6. MapThenSumSet(LAMBDA id : 100 * transactions[id].cost, listed) = Spent
  BY <1>4, <1>5, Zenon
<1>7. Available = Received - Spent
  BY DEF CInv
<1>8. QED
  BY <1>1, <1>2, <1>3, <1>6, <1>7, Zenon DEF AccountsAgree, listed

\* What each client is shown to have paid is the sum over its own sales, and
\* the available balance is what came in less what the orders that stand cost
\* (pay, registerOrder, addToLastOrder, cancelLastOrder and the balances of
\* Store.java).
THEOREM AccountsAlwaysAgree == Spec => []AccountsAgree
<1>1. Init => CInv
  <2> SUFFICES ASSUME Init PROVE CInv
    OBVIOUS
  <2>1. /\ DOMAIN clients = {} /\ DOMAIN transactions = {} /\ OrderIds = {}
    BY DEF Init, Empty, OrderIds
  <2>2. Available = 0 /\ Received = 0 /\ Spent = 0
    BY <2>1, SumEmpty DEF Available, Received, Spent
  <2>3. QED
    BY <2>1, <2>2, FS_EmptySet DEF CInv
<1>2. IInv /\ CInv /\ [Next]_vars => CInv'
  <2> SUFFICES ASSUME IInv, CInv, [Next]_vars PROVE CInv'
    OBVIOUS
  <2>1. CASE \/ \E days \in Days : AdvanceDate(days)
             \/ \E key \in SupplierKeys : \/ RegisterSupplier(key)
                                          \/ ToggleTransactions(Fold[key])
             \/ \E p \in ProductKeys : RegisterProduct(p)
             \/ \E c \in ClientKeys, p \in ProductKeys : ToggleNotifications(c, p)
             \/ UNCHANGED vars
    <3>1. UNCHANGED <<clients, transactions>>
      BY <2>1 DEF AdvanceDate, RegisterSupplier, ToggleTransactions,
         RegisterProduct, ToggleNotifications, vars
    <3>2. QED
      BY <3>1, NoMoneyMoves
  <2>2. CASE \E c \in ClientKeys : ShowClient(c)
    <3>1. /\ DOMAIN clients' = DOMAIN clients /\ UNCHANGED transactions
          /\ \A c \in DOMAIN clients : clients'[c].payed = clients[c].payed
      BY <2>2 DEF ShowClient, IInv, TypeOK, Client
    <3>2. QED
      BY <3>1, NoMoneyMoves
  <2>3. CASE \E p \in ProductKeys, price \in Prices : ChangePrice(p, price)
    <3>1. /\ DOMAIN clients' = DOMAIN clients /\ UNCHANGED transactions
          /\ \A c \in DOMAIN clients : clients'[c].payed = clients[c].payed
      BY <2>3, NotifyKeepsPayed DEF ChangePrice
    <3>2. QED
      BY <3>1, NoMoneyMoves
  <2>4. CASE \E c \in ClientKeys : RegisterClient(c)
    BY <2>4, NewClientOwesNothing
  <2>5. CASE \E c \in ClientKeys, p \in ProductKeys, d \in Deadlines,
                quantity \in Quantities : RegisterSale(c, date + d, p, quantity)
    BY <2>5, SaleOwed
  <2>6. CASE \E id \in DOMAIN transactions : Pay(id)
    BY <2>6, PaymentCounted
  <2>7. CASE \E key \in SupplierKeys, p \in ProductKeys,
                quantity \in Quantities, more \in BOOLEAN :
                   RegisterOrder(key, p, quantity, more)
    BY <2>7, OrderPaidFor
  <2>8. CASE \E p \in ProductKeys, quantity \in Quantities, more \in BOOLEAN :
                 AddToLastOrder(p, quantity, more)
    BY <2>8, AdditionPaidFor
  <2>9. CASE CancelLastOrder
    BY <2>9, CancelRefunded
  <2>10. QED
    BY <2>1, <2>2, <2>3, <2>4, <2>5, <2>6, <2>7, <2>8, <2>9 DEF Next
<1>3. IInv /\ XInv /\ CInv => AccountsAgree
  BY AccountsAreSummed
<1>4. QED
  BY <1>1, <1>2, <1>3, HistoriesListed, Inductive, PTL DEF Spec

=============================================================================
