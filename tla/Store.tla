------------------------------- MODULE Store -------------------------------
(***************************************************************************)
(* The core of the store application (PO/Proj/woo-core): clients,          *)
(* suppliers, products with their stock, and the transactions between      *)
(* them.  One user drives it, one command at a time; an order is the only  *)
(* command of several steps.  A command that throws before it changes      *)
(* anything is no step at all, and neither is one that only shows.         *)
(*                                                                         *)
(* Names, addresses, titles, service types and critical levels are left    *)
(* out.  A client or product key stands for all those that differ from it  *)
(* only in case, as in the maps of the code; for suppliers the difference  *)
(* matters.  Amounts of money are in hundredths; so are points, rounded    *)
(* down when a client loses a part of them (the code has doubles).         *)
(***************************************************************************)
EXTENDS Integers, Sequences, FiniteSets, SequencesExt

CONSTANTS
    ClientKeys,
    SupplierKeys,       \* the keys of suppliers as they are typed
    Fold,               \* the key that stands for those that differ in case
    ProductKeys,
    None,
    Catalogue,          \* each product: its supplier, period, price, stock
    Prices,             \* the new prices considered
    Quantities,
    Days,               \* by how much the date is advanced
    Deadlines,          \* days from a sale to its deadline
    MaxDate,            \* bounds of the model
    MaxTransactions,
    MaxUnits,           \* of a product in one order
    MaxNotifications

\* What the user types when a product is registered.  The period (books 3,
\* boxes 5, containers 8) comes with the kind of product.
Product == [supplier : SupplierKeys, period : Nat \ {0}, price : Nat \ {0},
            stock : Nat]

ASSUME KeysAssumption == Fold \in [SupplierKeys -> SupplierKeys]
                         /\ None \notin SupplierKeys
ASSUME CatalogueAssumption == Catalogue \in [ProductKeys -> Product]
\* Amounts are positive: "uma ou mais unidades", "um número inteiro positivo"
\* (PO/Enunciado.pdf, 1.1 and 1.4).  The code leaves that to the user.
ASSUME InputsAssumption ==
    /\ Prices \subseteq Int /\ Days \subseteq Int /\ Deadlines \subseteq Int
    /\ Quantities \subseteq Nat \ {0}
    /\ MaxDate \in Nat /\ MaxTransactions \in Nat /\ MaxUnits \in Nat
    /\ MaxNotifications \in Nat

VARIABLES
    date,          \* _date
    clients,       \* _clients, those registered
    suppliers,     \* _suppliers, by folded key
    products,      \* _products, those registered
    transactions,  \* _transactions
    count,         \* _count
    ordering       \* _skey of the order being typed in, or None

vars == <<date, clients, suppliers, products, transactions, count, ordering>>

Empty == [k \in {} |-> None]

Init ==
    /\ date = 0
    /\ clients = Empty /\ suppliers = Empty /\ products = Empty
    /\ transactions = Empty
    /\ count = 0
    /\ ordering = None

-----------------------------------------------------------------------------
\* Discounts and points.

\* The operators marked "mutant" are faulty variants used to test the
\* properties; nothing in the specification refers to them.

Statuses == {"NORMAL", "SELECTION", "ELITE"}

\* What each status pays, in hundredths of the base value, delay days after
\* the deadline (before it, if negative).
NormalDiscountNoP4(delay, period) ==                                 \* mutant
    IF delay <= -period THEN 90
    ELSE IF 0 < delay /\ delay <= period THEN 100 + 5 * delay
    ELSE 100

NormalDiscount(delay, period) ==
    IF delay <= -period THEN 90
    ELSE IF 0 < delay /\ delay <= period THEN 100 + 5 * delay
    ELSE IF period < delay THEN 100 + 10 * delay
    ELSE 100

SelectionDiscount(delay, period) ==
    IF delay <= -period THEN 90
    ELSE IF delay <= -2 /\ -2 - delay < period THEN 95
    ELSE IF 0 < delay - 1 /\ delay - 1 <= period THEN 100 + 2 * delay
    ELSE IF period < delay THEN 100 + 5 * delay
    ELSE 100

EliteDiscountNoP2(delay, period) ==                                  \* mutant
    IF delay <= -period THEN 90
    ELSE IF 0 < delay /\ delay <= period THEN 95
    ELSE 100

EliteDiscount(delay, period) ==
    IF delay <= -period THEN 90
    ELSE IF delay <= 0 /\ -delay < period THEN 90
    ELSE IF 0 < delay /\ delay <= period THEN 95
    ELSE 100

Discount(status, delay, period) ==
    IF status = "NORMAL" THEN NormalDiscount(delay, period)
    ELSE IF status = "SELECTION" THEN SelectionDiscount(delay, period)
    ELSE EliteDiscount(delay, period)

\* More than 2000 points for Selection, more than 25000 for Elite.
Selection == 200000
Elite     == 2500000

Standing(status, points) == [status |-> status, points |-> points]

PromotedSwapped(points) ==                                           \* mutant
    IF points > Elite THEN "SELECTION"
    ELSE IF points > Selection THEN "ELITE"
    ELSE "NORMAL"

Promoted(points) ==
    IF points > Elite THEN "ELITE"
    ELSE IF points > Selection THEN "SELECTION"
    ELSE "NORMAL"

\* The status and points of a client who pays value with that delay.
NormalPay(points, value, delay) ==
    IF delay > 0 THEN Standing("NORMAL", points)
    ELSE Standing(Promoted(points + 10 * value), points + 10 * value)

SelectionPay(points, value, delay) ==
    IF delay > 2 THEN Standing("NORMAL", points \div 10)
    ELSE IF delay > 0 THEN Standing("SELECTION", points)
    ELSE Standing(IF points + 10 * value > Elite THEN "ELITE" ELSE "SELECTION",
                  points + 10 * value)

ElitePay(points, value, delay) ==
    IF delay > 15 THEN Standing("SELECTION", points \div 4)
    ELSE Standing("ELITE", IF delay > 0 THEN points ELSE points + 10 * value)

StandingAfter(standing, value, delay) ==
    IF standing.status = "NORMAL"
    THEN NormalPay(standing.points, value, delay)
    ELSE IF standing.status = "SELECTION"
    THEN SelectionPay(standing.points, value, delay)
    ELSE ElitePay(standing.points, value, delay)

-----------------------------------------------------------------------------
\* Building blocks.

\* put of a TreeMap.
Put(f, k, v) == [x \in DOMAIN f \cup {k} |-> IF x = k THEN v ELSE f[x]]

SupplierOf(p) == Fold[Catalogue[p].supplier]

IsSale(t)  == t.kind = "sale"
IsOrder(t) == t.kind = "order"

BaseValue(sale) == products[sale.product].price * sale.quantity
RealPrice(sale, day) ==
    BaseValue(sale) * Discount(clients[sale.client].standing.status,
                               day - sale.limit,
                               Catalogue[sale.product].period)

\* What a transaction adds to the two balances, in hundredths.
PayedValue(t) ==
    IF IsOrder(t) THEN -100 * t.cost ELSE IF t.payed THEN t.valuePayed ELSE 0
TodaysValue(t) ==
    IF IsSale(t) /\ ~t.payed THEN RealPrice(t, date) ELSE PayedValue(t)

AvailableBalance ==
    MapThenSumSet(LAMBDA id : PayedValue(transactions[id]),
                  DOMAIN transactions)
ContabilisticBalance ==
    MapThenSumSet(LAMBDA id : TodaysValue(transactions[id]),
                  DOMAIN transactions)

\* clients once those who watch p have been told of an event.
Told(p, kind, amount) ==
    [c \in DOMAIN clients |->
        IF c \in products[p].observers
        THEN [clients[c] EXCEPT !.notifications =
                  Append(@, [kind |-> kind, product |-> p, amount |-> amount])]
        ELSE clients[c]]

\* Those who watch p are told if there is an event.  MaxNotifications bounds
\* the lists.
Notify(p, event, kind, amount) ==
    /\ event => \A c \in products[p].observers :
                    Len(clients[c].notifications) < MaxNotifications
    /\ clients' = IF event THEN Told(p, kind, amount) ELSE clients

\* The test made after the stock has grown.
AddStockFirst(p, amount) ==                                          \* mutant
    /\ products' = [products EXCEPT ![p].stock = @ + amount]
    /\ Notify(p, products[p].stock + amount = 0 /\ amount > 0, "NEW",
              products[p].stock + amount)

AddStock(p, amount) ==
    /\ products' = [products EXCEPT ![p].stock = @ + amount]
    /\ Notify(p, products[p].stock = 0 /\ amount > 0, "NEW",
              products[p].stock + amount)

-----------------------------------------------------------------------------
\* The commands.  Between the products of an order no other command is given.

Idle == ordering = None

AdvanceDate(days) ==
    /\ Idle
    /\ days > 0
    /\ date + days <= MaxDate
    /\ date' = date + days
    /\ UNCHANGED <<clients, suppliers, products, transactions, count, ordering>>

NewClient == [standing |-> Standing("NORMAL", 0), purchases |-> 0,
              payed |-> 0, sales |-> << >>, notifications |-> << >>]

\* A new client watches every product there is.
RegisterClient(c) ==
    /\ Idle
    /\ c \notin DOMAIN clients
    /\ clients' = Put(clients, c, NewClient)
    /\ products' = [p \in DOMAIN products |->
                       [products[p] EXCEPT !.observers = @ \cup {c}]]
    /\ UNCHANGED <<date, suppliers, transactions, count, ordering>>

RegisterSupplier(key) ==
    /\ Idle
    /\ Fold[key] \notin DOMAIN suppliers
    /\ suppliers' = Put(suppliers, Fold[key],
                        [key |-> key, active |-> TRUE, orders |-> << >>])
    /\ UNCHANGED <<date, clients, products, transactions, count, ordering>>

\* Every client watches a new product.
RegisterProduct(p) ==
    /\ Idle
    /\ SupplierOf(p) \in DOMAIN suppliers
    /\ p \notin DOMAIN products
    /\ products' = Put(products, p, [price     |-> Catalogue[p].price,
                                     stock     |-> Catalogue[p].stock,
                                     observers |-> DOMAIN clients])
    /\ UNCHANGED <<date, clients, suppliers, transactions, count, ordering>>

ChangePrice(p, price) ==
    /\ Idle
    /\ p \in DOMAIN products
    /\ price > 0
    /\ products' = [products EXCEPT ![p].price = price]
    /\ Notify(p, price < products[p].price, "BARGAIN", price)
    /\ UNCHANGED <<date, suppliers, transactions, count, ordering>>

ToggleNotifications(c, p) ==
    /\ Idle
    /\ c \in DOMAIN clients /\ p \in DOMAIN products
    /\ products' = [products EXCEPT ![p].observers =
                        IF c \in @ THEN @ \ {c} ELSE @ \cup {c}]
    /\ UNCHANGED <<date, clients, suppliers, transactions, count, ordering>>

\* Showing a client also empties the list of notifications.
ShowClient(c) ==
    /\ Idle
    /\ c \in DOMAIN clients
    /\ clients' = [clients EXCEPT ![c].notifications = << >>]
    /\ UNCHANGED <<date, suppliers, products, transactions, count, ordering>>

ToggleTransactions(s) ==
    /\ Idle
    /\ s \in DOMAIN suppliers
    /\ suppliers' = [suppliers EXCEPT ![s].active = ~@]
    /\ UNCHANGED <<date, clients, products, transactions, count, ordering>>

NewSale(c, limit, p, quantity) ==
    [kind |-> "sale", client |-> c, limit |-> limit, product |-> p,
     quantity |-> quantity, payed |-> FALSE, date |-> 0, valuePayed |-> 0]

RegisterSaleUnchecked(c, limit, p, quantity) ==                      \* mutant
    /\ Idle
    /\ count < MaxTransactions
    /\ c \in DOMAIN clients /\ p \in DOMAIN products
    /\ transactions' = Put(transactions, count, NewSale(c, limit, p, quantity))
    /\ count' = count + 1
    /\ clients' = [clients EXCEPT
                      ![c].sales = Append(@, count),
                      ![c].purchases = @ + products[p].price * quantity]
    /\ products' = [products EXCEPT ![p].stock = @ - quantity]
    /\ UNCHANGED <<date, suppliers, ordering>>

RegisterSale(c, limit, p, quantity) ==
    /\ Idle
    /\ count < MaxTransactions
    /\ c \in DOMAIN clients /\ p \in DOMAIN products
    /\ quantity <= products[p].stock
    /\ transactions' = Put(transactions, count, NewSale(c, limit, p, quantity))
    /\ count' = count + 1
    /\ clients' = [clients EXCEPT
                      ![c].sales = Append(@, count),
                      ![c].purchases = @ + products[p].price * quantity]
    /\ products' = [products EXCEPT ![p].stock = @ - quantity]
    /\ UNCHANGED <<date, suppliers, ordering>>

\* The client pays value with the status the price was made for, which may
\* then change; the sale keeps valuePayed.
Settle(id, value, valuePayed) ==
    LET sale == transactions[id]
    IN  /\ transactions' = [transactions EXCEPT ![id].payed = TRUE,
                               ![id].date = date, ![id].valuePayed = valuePayed]
        /\ clients' = [clients EXCEPT
               ![sale.client].payed = @ + value,
               ![sale.client].standing =
                   StandingAfter(@, value, date - sale.limit)]
        /\ UNCHANGED <<date, suppliers, products, count, ordering>>

PayAgain(id) ==                                                      \* mutant
    /\ Idle
    /\ id \in DOMAIN transactions
    /\ IsSale(transactions[id])
    /\ Settle(id, RealPrice(transactions[id], date),
              RealPrice(transactions[id], date))

PayBaseValue(id) ==                                                  \* mutant
    /\ Idle
    /\ id \in DOMAIN transactions
    /\ IsSale(transactions[id]) /\ ~transactions[id].payed
    /\ Settle(id, RealPrice(transactions[id], date),
              100 * BaseValue(transactions[id]))

\* Neither an order nor a sale already paid is paid.
Pay(id) ==
    /\ Idle
    /\ id \in DOMAIN transactions
    /\ IsSale(transactions[id]) /\ ~transactions[id].payed
    /\ Settle(id, RealPrice(transactions[id], date),
              RealPrice(transactions[id], date))

\* An order and its first product; more says that another one follows.  The
\* key of the supplier has to be typed as it was registered.
RegisterOrder(key, p, quantity, more) ==
    LET s == Fold[key]
    IN  /\ Idle
        /\ count < MaxTransactions
        /\ s \in DOMAIN suppliers /\ p \in DOMAIN products
        /\ suppliers[s].active
        /\ suppliers[SupplierOf(p)].key = key
        /\ transactions' = Put(transactions, count,
               [kind |-> "order", supplier |-> key, date |-> date,
                items |-> [r \in ProductKeys |-> IF r = p THEN quantity ELSE 0],
                cost |-> quantity * products[p].price])
        /\ count' = count + 1
        /\ suppliers' = [suppliers EXCEPT ![s].orders = Append(@, count)]
        /\ AddStock(p, quantity)
        /\ ordering' = IF more THEN key ELSE None
        /\ UNCHANGED date

\* The order being typed in: the last one of its supplier.
LastOrder == Last(suppliers[Fold[ordering]].orders)

\* One more product of it, of which it now has held units.
Include(p, quantity, held, more) ==
    /\ held <= MaxUnits
    /\ transactions' = [transactions EXCEPT
           ![LastOrder].items[p] = held,
           ![LastOrder].cost = @ + quantity * products[p].price]
    /\ AddStock(p, quantity)
    /\ ordering' = IF more THEN ordering ELSE None
    /\ UNCHANGED <<date, suppliers, count>>

AddToLastOrderOver(p, quantity, more) ==                             \* mutant
    /\ ordering # None
    /\ p \in DOMAIN products
    /\ Include(p, quantity, quantity, more)

AddToLastOrder(p, quantity, more) ==
    /\ ordering # None
    /\ p \in DOMAIN products
    /\ Include(p, quantity, transactions[LastOrder].items[p] + quantity, more)

\* The last order of a supplier is taken off its list and off the stock.
CancelKeepsList(s) ==                                                \* mutant
    LET items == transactions[Last(suppliers[s].orders)].items
    IN  /\ products' = [p \in DOMAIN products |->
               [products[p] EXCEPT !.stock = @ - items[p]]]
        /\ suppliers' = suppliers

Cancel(s) ==
    LET items == transactions[Last(suppliers[s].orders)].items
    IN  /\ products' = [p \in DOMAIN products |->
               [products[p] EXCEPT !.stock = @ - items[p]]]
        /\ suppliers' = [suppliers EXCEPT ![s].orders = Front(@)]

\* The next product typed in is not known: the command ends with an error.
CancelLastOrder ==
    /\ ordering # None
    /\ Cancel(Fold[ordering])
    /\ transactions' = Restrict(transactions,
                           DOMAIN transactions \ {Max(DOMAIN transactions)})
    /\ count' = count - 1
    /\ ordering' = None
    /\ UNCHANGED <<date, clients>>

Next ==
    \/ \E days \in Days : AdvanceDate(days)
    \/ \E c \in ClientKeys : RegisterClient(c) \/ ShowClient(c)
    \/ \E key \in SupplierKeys : RegisterSupplier(key)
                                  \/ ToggleTransactions(Fold[key])
    \/ \E p \in ProductKeys : RegisterProduct(p)
    \/ \E p \in ProductKeys, price \in Prices : ChangePrice(p, price)
    \/ \E c \in ClientKeys, p \in ProductKeys : ToggleNotifications(c, p)
    \/ \E c \in ClientKeys, p \in ProductKeys, d \in Deadlines,
          quantity \in Quantities : RegisterSale(c, date + d, p, quantity)
    \/ \E id \in DOMAIN transactions : Pay(id)
    \/ \E key \in SupplierKeys, p \in ProductKeys, quantity \in Quantities,
          more \in BOOLEAN : RegisterOrder(key, p, quantity, more)
    \/ \E p \in ProductKeys, quantity \in Quantities, more \in BOOLEAN :
          AddToLastOrder(p, quantity, more)
    \/ CancelLastOrder

Spec == Init /\ [][Next]_vars

-----------------------------------------------------------------------------
\* Types.

Client ==
    [standing : [status : Statuses, points : Nat], purchases : Nat,
     payed : Nat, sales : Seq(Nat),
     notifications : Seq([kind : {"NEW", "BARGAIN"}, product : ProductKeys,
                          amount : Nat])]
Supplier == [key : SupplierKeys, active : BOOLEAN, orders : Seq(Nat)]
Shelf(watchers) == [price : Nat \ {0}, stock : Nat,
                    observers : SUBSET watchers]
Sale == [kind : {"sale"}, client : DOMAIN clients, limit : Int,
         product : DOMAIN products, quantity : Nat \ {0}, payed : BOOLEAN,
         date : Nat, valuePayed : Nat]
Order == [kind : {"order"}, supplier : SupplierKeys, date : Nat,
          items : [ProductKeys -> Nat], cost : Nat]

\* Every variable has its type; in particular no stock is ever negative
\* (registerSale refuses what is not there, a cancelled order takes back only
\* what it brought), and everybody a product or a sale speaks of is registered.
TypeOK ==
    /\ date \in Nat
    /\ DOMAIN clients \subseteq ClientKeys
    /\ clients \in [DOMAIN clients -> Client]
    /\ DOMAIN suppliers \subseteq SupplierKeys
    /\ suppliers \in [DOMAIN suppliers -> Supplier]
    /\ DOMAIN products \subseteq ProductKeys
    /\ products \in [DOMAIN products -> Shelf(DOMAIN clients)]
    /\ DOMAIN transactions \subseteq Nat
    /\ transactions \in [DOMAIN transactions -> Sale \cup Order]
    /\ count \in Nat
    /\ ordering \in SupplierKeys \cup {None}

-----------------------------------------------------------------------------
\* Properties.

\* The stock of a product is what it was registered with, plus what was
\* ordered, minus what was sold: orders taken back included, and orders that
\* name a product twice.
StockBalances ==
    \A p \in DOMAIN products :
        products[p].stock = Catalogue[p].stock
            + MapThenSumSet(LAMBDA id : transactions[id].items[p],
                            {id \in DOMAIN transactions :
                                IsOrder(transactions[id])})
            - MapThenSumSet(LAMBDA id : transactions[id].quantity,
                            {id \in DOMAIN transactions :
                                /\ IsSale(transactions[id])
                                /\ transactions[id].product = p})

Lists(seq, ids) ==
    /\ ToSet(seq) = ids
    /\ \A i, j \in DOMAIN seq : i < j => seq[i] < seq[j]

\* Transactions are numbered from 0 without gaps, and the history of a client
\* or a supplier names, in order, exactly the transactions that are theirs,
\* also after an order was taken back from three places.
IndexesAgree ==
    /\ DOMAIN transactions = 0 .. count - 1
    /\ \A c \in DOMAIN clients :
           Lists(clients[c].sales, {id \in DOMAIN transactions :
                                       /\ IsSale(transactions[id])
                                       /\ transactions[id].client = c})
    /\ \A s \in DOMAIN suppliers :
           Lists(suppliers[s].orders, {id \in DOMAIN transactions :
                                       /\ IsOrder(transactions[id])
                                       /\ Fold[transactions[id].supplier] = s})

\* What a client is shown to have paid is the sum of what each sale keeps as
\* paid, and the available balance is what clients paid less what the orders
\* in the suppliers' histories cost.
AccountsAgree ==
    /\ \A c \in DOMAIN clients :
           clients[c].payed =
               MapThenSumSet(LAMBDA id : PayedValue(transactions[id]),
                             ToSet(clients[c].sales))
    /\ AvailableBalance =
           MapThenSumSet(LAMBDA c : clients[c].payed, DOMAIN clients)
         - MapThenSumSet(LAMBDA id : 100 * transactions[id].cost,
                         UNION {ToSet(suppliers[s].orders) :
                                   s \in DOMAIN suppliers})

\* A status is never held with fewer points than it takes to reach it, across
\* promotions, demotions and the points lost with them.
StatusEarned ==
    \A c \in DOMAIN clients :
        /\ clients[c].standing.status = "SELECTION" =>
               clients[c].standing.points > Selection
        /\ clients[c].standing.status = "ELITE" =>
               clients[c].standing.points > Elite

Unpaid == {id \in DOMAIN transactions :
              IsSale(transactions[id]) /\ ~transactions[id].payed}

\* A better status never costs its holder more, whatever the day and the
\* period of the product.
BetterStatusPaysLess ==
    \A id \in Unpaid :
        LET sale   == transactions[id]
            Of(st) == Discount(st, date - sale.limit,
                               Catalogue[sale.product].period)
        IN  Of("ELITE") <= Of("SELECTION") /\ Of("SELECTION") <= Of("NORMAL")

\* Waiting never makes a sale cheaper: no boundary between two periods lowers
\* what a client pays.
PriceNeverFalls ==
    [][date' > date =>
         \A id \in Unpaid :
             RealPrice(transactions[id], date)
                 <= RealPrice(transactions[id], date')]_vars

\* A sale that was paid is never changed or paid again, nor is an order once
\* its command has ended, whatever happens to prices and to other orders.
PaidIsFinal ==
    [][\A id \in DOMAIN transactions \ Unpaid :
           IsSale(transactions[id]) \/ Idle =>
               /\ id \in DOMAIN transactions'
               /\ transactions'[id] = transactions[id]]_vars

\* Everybody who watches a product is told when it is available again or
\* cheaper, with the new stock or price, in the same step.
EventsAreTold ==
    [][\A p \in DOMAIN products : \A c \in products[p].observers :
           LET ToldOf(kind, amount) ==
                   clients'[c].notifications =
                       Append(clients[c].notifications,
                              [kind |-> kind, product |-> p,
                               amount |-> amount])
           IN  /\ products[p].stock = 0 /\ products'[p].stock > 0 =>
                      ToldOf("NEW", products'[p].stock)
               /\ products'[p].price < products[p].price =>
                      ToldOf("BARGAIN", products'[p].price)]_vars

\* PO/Enunciado.pdf, the table of "Contabilização de Pontos (Clientes)": more
\* than N days after the deadline (P4), N being the period of the product, a
\* Selection client pays 5% more for each day ("5% diários").
SelectionFine ==
    \A id \in Unpaid :
        LET sale  == transactions[id]
            delay == date - sale.limit
        IN  /\ clients[sale.client].standing.status = "SELECTION"
            /\ delay > Catalogue[sale.product].period
            => RealPrice(sale, date) = BaseValue(sale) * (100 + 5 * delay)
=============================================================================
