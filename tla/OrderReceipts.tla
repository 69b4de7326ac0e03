---------------------------- MODULE OrderReceipts ----------------------------
(***************************************************************************)
(* Goods receipt beside the forms that edit orders, order items and stock  *)
(* (apps/orders/views.py, apps/inventory).  A receipt is a transaction of  *)
(* several statements under READ COMMITTED: it locks the order item, then  *)
(* finds or inserts the stock row and locks it, adds the stock, and reads  *)
(* the other items of the order without a lock to decide whether the order *)
(* is complete.  The forms save one row in one statement, which waits for  *)
(* the lock on that row.                                                   *)
(***************************************************************************)
EXTENDS Integers, Sequences, FiniteSets, FiniteSetsExt

CONSTANTS
    Requests,                               \* requests in flight
    Items, Stocks, Keys, NoStock, NoItem,   \* as in StockLedger
    ItemForms, StockForms,
    Orders,     \* primary keys of Order
    OrderOf,    \* the order an item belongs to
    Located,    \* the keys with a location: only there the unique constraint
                \* on stock rows binds, NULL locations never collide
    Outstanding,\* no quantity is posted: everything that is still open
    Asked,      \* what a request may ask for (bounds the model)
    Opening     \* rows the database may hold at the start (bounds the model)

OrderStatuses == {"draft", "ordered", "shipped", "received", "cancelled"}

VARIABLES
    items, stock, ledger,   \* the committed rows, as in StockLedger
    status,     \* the status of each order
    ask,        \* what each request asks for
    pc,         \* where it stands
    held,       \* the item and stock rows it has locked
    target,     \* the stock row a receipt has found or inserted
    readItem,   \* the order item as a receipt has read it under its lock
    readStock,  \* the stock row as a receipt has read it under its lock
    complete    \* whether a receipt has found its order complete

rows == <<items, stock, ledger, status>>
session == <<held, target, readItem, readStock, complete>>
vars == <<rows, ask, pc, session>>

\* The committed rows are the rows of the ledger, the sessions are hidden.
Ledger == INSTANCE StockLedger WITH items <- items, stock <- stock, ledger <- ledger

Ends == {"done", "refused", "failed"}
Stages == {"asked", "item", "insert", "stock", "checked"} \cup Ends

Asks == [kind: {"receive"}, item: Items, amount: Nat \cup {Outstanding}]
          \cup [kind: {"item"}, item: Items, form: ItemForms]
          \cup [kind: {"stock"}, stock: Stocks \cup {NoStock}, form: StockForms]
          \cup [kind: {"order"}, order: Orders, status: OrderStatuses]

ASSUME RowsAssumption ==
    /\ Items \cap Stocks = {} /\ IsFiniteSet(Stocks)
    /\ NoStock \notin Stocks /\ NoItem \notin Items /\ Outstanding \notin Nat
    /\ OrderOf \in [Items -> Orders] /\ Located \subseteq Keys
    /\ ItemForms \subseteq Ledger!ItemRow /\ StockForms \subseteq Ledger!StockRow
    /\ \A form \in ItemForms \cup StockForms : form.exists
    /\ Asked \subseteq Asks

-----------------------------------------------------------------------------
\* Seeded fault: the statement does not wait for the row.
AlwaysFree(r, row) == TRUE

Free(r, row) == \A q \in Requests \ {r} : row \notin held[q]

\* COMMIT or ROLLBACK.
End(r, outcome) ==
    /\ pc' = [pc EXCEPT ![r] = outcome]
    /\ held' = [held EXCEPT ![r] = {}]
    /\ target' = [target EXCEPT ![r] = NoStock]
    /\ readItem' = [readItem EXCEPT ![r] = NoItem]
    /\ readStock' = [readStock EXCEPT ![r] = NoStock]
    /\ complete' = [complete EXCEPT ![r] = FALSE]
    /\ UNCHANGED ask

-----------------------------------------------------------------------------
(***************************************************************************)
(* receive_item                                                            *)
(***************************************************************************)

Receives(r, stage) == ask[r].kind = "receive" /\ pc[r] = stage
Item(r) == ask[r].item

\* What a receipt knows of its item, from the read under the lock.
Open(item) == item.quantity - item.received
Amount(r) == IF ask[r].amount = Outstanding THEN Open(readItem[r]) ELSE ask[r].amount

\* SELECT ... FOR UPDATE of the order item.
LockItem(r) ==
    /\ Receives(r, "asked") /\ items[Item(r)].exists /\ Free(r, Item(r))
    /\ pc' = [pc EXCEPT ![r] = "item"]
    /\ held' = [held EXCEPT ![r] = {Item(r)}]
    /\ readItem' = [readItem EXCEPT ![r] = items[Item(r)]]
    /\ UNCHANGED <<ask, target, readStock, complete>> /\ UNCHANGED rows

\* 400: nothing is open, or the amount is above what is open.  404: no item.
RefuseReceipt(r) ==
    /\ \/ Receives(r, "asked") /\ ~items[Item(r)].exists
       \/ Receives(r, "item") /\ (Amount(r) < 1 \/ Amount(r) > Open(readItem[r]))
    /\ End(r, "refused")
    /\ UNCHANGED rows

\* Seeded fault: the upper bound is not checked.
AcceptedUnbounded(r) == Receives(r, "item") /\ Amount(r) >= 1

Accepted(r) ==
    Receives(r, "item") /\ Amount(r) >= 1 /\ Amount(r) <= Open(readItem[r])

Key(r) == readItem[r].key

RowsOfKey(key) == {s \in Stocks : stock[s].exists /\ stock[s].key = key}

\* Receipts that have inserted a row of a key and not committed it.
Inserting(key) ==
    {q \in Requests : /\ target[q] # NoStock /\ ~stock[target[q]].exists
                      /\ Key(q) = key}

\* The receipt holds stock row s, as it is committed or as it was inserted.
HoldStock(r, s, row) ==
    /\ pc' = [pc EXCEPT ![r] = "stock"]
    /\ held' = [held EXCEPT ![r] = @ \cup {s}]
    /\ target' = [target EXCEPT ![r] = s]
    /\ readStock' = [readStock EXCEPT ![r] = row]
    /\ UNCHANGED <<ask, readItem, complete>> /\ UNCHANGED rows

GoTo(r, stage) ==
    /\ pc' = [pc EXCEPT ![r] = stage]
    /\ UNCHANGED <<ask, session>> /\ UNCHANGED rows

\* The item names its stock row, which is locked ...
LockNamedStock(r) ==
    LET s == readItem[r].stock
    IN  Accepted(r) /\ s # NoStock /\ Free(r, s) /\ HoldStock(r, s, stock[s])

\* ... or get_or_create looks for the rows of its key, waiting for those that
\* are locked or not committed yet.  One is locked ...
Searches(r) == /\ Accepted(r) /\ readItem[r].stock = NoStock
               /\ Inserting(Key(r)) = {} /\ \A s \in RowsOfKey(Key(r)) : Free(r, s)

LockStockOfKey(r) ==
    /\ Searches(r)
    /\ \E s \in Stocks : RowsOfKey(Key(r)) = {s} /\ HoldStock(r, s, stock[s])

\* Seeded fault: a search with several results is repeated.
AmbiguousRetry(r) ==
    /\ Searches(r) /\ Cardinality(RowsOfKey(Key(r))) > 1
    /\ GoTo(r, "item")

\* ... several are MultipleObjectsReturned ...
AmbiguousStock(r) ==
    /\ Searches(r) /\ Cardinality(RowsOfKey(Key(r))) > 1
    /\ End(r, "failed")
    /\ UNCHANGED rows

\* ... and none locks nothing, so another receipt may find none as well.
FindNoStock(r) == Searches(r) /\ RowsOfKey(Key(r)) = {} /\ GoTo(r, "insert")

\* INSERT: a key with a location waits for an uncommitted row of that key,
\* and finds a committed one (IntegrityError, then get).
Collides(r) == Key(r) \in Located /\ RowsOfKey(Key(r)) # {}

InsertStock(r) ==
    /\ Receives(r, "insert") /\ ~Collides(r)
    /\ Key(r) \in Located => Inserting(Key(r)) = {}
    /\ \E s \in Stocks :
         /\ ~stock[s].exists /\ \A q \in Requests : s \notin held[q]
         /\ HoldStock(r, s, [exists |-> TRUE, key |-> Key(r), quantity |-> 0, reserved |-> 0])

DuplicateKey(r) == Receives(r, "insert") /\ Collides(r) /\ GoTo(r, "item")

ItemsOf(o) == {i \in Items : OrderOf[i] = o /\ items[i].exists}

\* Seeded fault: the other items of the order are forgotten.
CompletesItem(r) == Amount(r) = Open(readItem[r])

\* order.items.exclude(received_quantity__gte=F("quantity")): the item as
\* this receipt leaves it, the others as they are committed.
CompletesOrder(r) ==
    /\ Amount(r) = Open(readItem[r])
    /\ \A i \in ItemsOf(OrderOf[Item(r)]) \ {Item(r)} : Open(items[i]) = 0

CheckOrder(r) ==
    /\ Receives(r, "stock")
    /\ pc' = [pc EXCEPT ![r] = "checked"]
    /\ complete' = [complete EXCEPT ![r] = CompletesOrder(r)]
    /\ UNCHANGED <<ask, held, target, readItem, readStock>> /\ UNCHANGED rows

\* change_inventory
StockAfter(r) == [readStock[r] EXCEPT !.quantity = @ + Amount(r)]

\* Seeded fault: the order item does not learn its stock row.
ItemsAfterForgotten(r) ==
    [items EXCEPT ![Item(r)].received = readItem[r].received + Amount(r)]

\* item.save(update_fields=["received_quantity", "inventory_item"])
ItemsAfter(r) ==
    [items EXCEPT ![Item(r)].received = readItem[r].received + Amount(r),
                  ![Item(r)].stock = target[r]]

\* The movement, the stock, the item and the order become visible.
CommitReceipt(r) ==
    LET s == target[r]
    IN  /\ Receives(r, "checked")
        /\ items' = ItemsAfter(r)
        /\ stock' = [stock EXCEPT ![s] = StockAfter(r)]
        /\ ledger' = [ledger EXCEPT ![s] = Append(@,
             [old |-> readStock[r].quantity, new |-> StockAfter(r).quantity,
              item |-> Item(r)])]
        /\ status' = IF complete[r] THEN [status EXCEPT ![OrderOf[Item(r)]] = "received"]
                     ELSE status
        /\ End(r, "done")

-----------------------------------------------------------------------------
(***************************************************************************)
(* The forms: one UPDATE or INSERT of the whole row.                       *)
(***************************************************************************)

Posts(r, kind) == ask[r].kind = kind /\ pc[r] = "asked"

\* The form offers the stock rows there are.
ItemFormValid(form) ==
    /\ form.received <= form.quantity
    /\ form.stock # NoStock => stock[form.stock].exists

\* item_edit
SaveItem(r) ==
    /\ Posts(r, "item") /\ ItemFormValid(ask[r].form) /\ Free(r, Item(r))
    /\ items' = [items EXCEPT ![Item(r)] = ask[r].form]
    /\ UNCHANGED <<stock, ledger, status>>
    /\ End(r, "done")

StockFormValid(s, form) ==
    /\ form.reserved <= form.quantity
    /\ form.key \in Located => RowsOfKey(form.key) \subseteq {s}

\* inventory_edit: adjust_inventory, or create_inventory for a new row. The
\* unique index makes it wait for an uncommitted row of the same place.
SaveStock(r, s) ==
    LET form == ask[r].form
    IN  /\ Posts(r, "stock")
        /\ IF ask[r].stock = NoStock THEN ~stock[s].exists
           ELSE s = ask[r].stock /\ stock[s].exists
        /\ Free(r, s) /\ StockFormValid(s, form)
        /\ form.key \in Located => Inserting(form.key) = {}
        /\ stock' = [stock EXCEPT ![s] = form]
        /\ ledger' = Ledger!Recorded(s, form.quantity, NoItem)
        /\ UNCHANGED <<items, status>>
        /\ End(r, "done")

\* order_edit
SaveOrder(r) ==
    /\ Posts(r, "order")
    /\ status' = [status EXCEPT ![ask[r].order] = ask[r].status]
    /\ UNCHANGED <<items, stock, ledger>>
    /\ End(r, "done")

RefuseForm(r) ==
    /\ \/ Posts(r, "item") /\ ~ItemFormValid(ask[r].form)
       \/ Posts(r, "stock") /\ ~StockFormValid(ask[r].stock, ask[r].form)
       \/ Posts(r, "stock") /\ ask[r].stock # NoStock /\ ~stock[ask[r].stock].exists
    /\ End(r, "refused")
    /\ UNCHANGED rows

-----------------------------------------------------------------------------
\* A key with a location has at most one stock row, whoever creates it.
OneRowPerPlace ==
    \A s, t \in Stocks :
        stock[s].exists /\ stock[t].exists /\ stock[s].key = stock[t].key
          /\ stock[s].key \in Located => s = t

Init ==
    /\ \E opening \in Opening : /\ items = opening.items /\ stock = opening.stock
                                /\ status = opening.status
    /\ Ledger!Init /\ OneRowPerPlace
    /\ status \in [Orders -> OrderStatuses \ {"received"}]
    /\ ask \in [Requests -> Asked]
    /\ pc = [r \in Requests |-> "asked"]
    /\ held = [r \in Requests |-> {}]
    /\ target = [r \in Requests |-> NoStock]
    /\ readItem = [r \in Requests |-> NoItem]
    /\ readStock = [r \in Requests |-> NoStock]
    /\ complete = [r \in Requests |-> FALSE]

FindStock(r) == LockNamedStock(r) \/ LockStockOfKey(r) \/ AmbiguousStock(r)
                  \/ FindNoStock(r)
Receipt(r) == LockItem(r) \/ RefuseReceipt(r) \/ FindStock(r) \/ InsertStock(r)
                \/ DuplicateKey(r) \/ CheckOrder(r) \/ CommitReceipt(r)
Form(r) == SaveItem(r) \/ (\E s \in Stocks : SaveStock(r, s)) \/ SaveOrder(r) \/ RefuseForm(r)

Step(r) == Receipt(r) \/ Form(r)

AllEnded == \A r \in Requests : pc[r] \in Ends

Next == (\E r \in Requests : Step(r)) \/ (AllEnded /\ UNCHANGED vars)

\* A thread goes on whenever the rows it waits for are free.
Spec == Init /\ [][Next]_vars /\ \A r \in Requests : WF_vars(Step(r))

-----------------------------------------------------------------------------
\* The types, and the constraints of the tables: order_received_lte_quantity,
\* inventory_reserved_lte_quantity and the unique place of a stock row.
TypeOK ==
    /\ items \in [Items -> Ledger!ItemRow] /\ stock \in [Stocks -> Ledger!StockRow]
    /\ ledger \in [Stocks -> Seq(Ledger!Movement)]
    /\ status \in [Orders -> OrderStatuses]
    /\ ask \in [Requests -> Asks] /\ pc \in [Requests -> Stages]
    /\ held \in [Requests -> SUBSET (Items \cup Stocks)]
    /\ target \in [Requests -> Stocks \cup {NoStock}]
    /\ readItem \in [Requests -> Ledger!ItemRow \cup {NoItem}]
    /\ readStock \in [Requests -> Ledger!StockRow \cup {NoStock}]
    /\ complete \in [Requests -> BOOLEAN]
    /\ \A i \in Items : items[i].received <= items[i].quantity
    /\ \A s \in Stocks : stock[s].reserved <= stock[s].quantity
    /\ OneRowPerPlace

\* Every request is one step of the warehouse: what it decided from the rows
\* it read still holds when it commits.
ImplementsLedger == Ledger!Spec

\* See StockLedger.
LedgerExplainsStock == Ledger!LedgerExplainsStock

EditedItem(i) == \E r \in Requests : ask[r].kind = "item" /\ ask[r].item = i

\* What the movements of stock row s took in for item i.
ReceivedAt(i, s) ==
    MapThenSumSet(LAMBDA n : IF ledger[s][n].item = i
                             THEN ledger[s][n].new - ledger[s][n].old ELSE 0,
                  1..Len(ledger[s]))

ReceivedMovements(i) == MapThenSumSet(LAMBDA s : ReceivedAt(i, s), Stocks)

\* What the stock rows took in for an item is what the item counts as
\* received, although the two are saved by different statements.
ItemsAddUp ==
    \A i \in Items : ~EditedItem(i) /\ items[i].exists =>
        \E opening \in Opening :
            items[i].received = opening.items[i].received + ReceivedMovements(i)

\* A receipt marks an order as received only when nothing is open, unless a
\* form has changed the order or its items in the meantime.
ReceivedMeansComplete ==
    \A o \in Orders :
        (/\ status[o] = "received"
         /\ ~\E r \in Requests : ask[r].kind = "order" /\ ask[r].order = o
         /\ ~\E i \in Items : OrderOf[i] = o /\ EditedItem(i))
        => \A i \in ItemsOf(o) : Open(items[i]) = 0

\* Every receipt is counted once, by the stock, the item and the order.
ReceiptsAddUp == ItemsAddUp /\ ReceivedMeansComplete

\* The order item is always locked before its stock row: receipts and forms
\* wait for each other, and every one of them is answered.
EveryRequestEnds == \A r \in Requests : <>(pc[r] \in Ends)

\* What a test of a single receipt expects of every order: once its last item
\* has been received, it is "received" (apps/orders/tests.py).
CompleteMeansReceived ==
    AllEnded => \A o \in Orders :
        (\A i \in ItemsOf(o) : Open(items[i]) = 0) => status[o] = "received"
=============================================================================
