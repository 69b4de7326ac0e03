------------------------ MODULE OrderReceipts_proofs ------------------------
(***************************************************************************)
(* The goods receipt implements the atomic warehouse, and the ledger       *)
(* explains the stock, for any number of requests, items and stock rows.   *)
(***************************************************************************)
EXTENDS OrderReceipts, SumTheorems, TLAPS

Rows == Items \cup Stocks

RowTypes ==
    /\ items \in [Items -> Ledger!ItemRow]
    /\ stock \in [Stocks -> Ledger!StockRow]
    /\ ledger \in [Stocks -> Seq(Ledger!Movement)]
    /\ status \in [Orders -> OrderStatuses]
    /\ ask \in [Requests -> Asks]
    /\ pc \in [Requests -> Stages]
    /\ held \in [Requests -> SUBSET Rows]
    /\ target \in [Requests -> Stocks \cup {NoStock}]
    /\ DOMAIN readItem = Requests /\ DOMAIN readStock = Requests
    /\ DOMAIN complete = Requests

Exclusive == \A r, q \in Requests : r # q => held[r] \cap held[q] = {}

\* A stock row that an order item names is there.
NamedStockExists == \A i \in Items :
    items[i].stock # NoStock => stock[items[i].stock].exists

NewRow(key) == [exists |-> TRUE, key |-> key, quantity |-> 0, reserved |-> 0]

\* What a request holds and knows, by the stage it has reached.
Idle(r) == held[r] = {} /\ target[r] = NoStock

KnowsItem(r) ==
    /\ ask[r].kind = "receive"
    /\ Item(r) \in held[r] /\ items[Item(r)].exists
    /\ readItem[r] = items[Item(r)]

AmountFits(r) == Amount(r) \in Nat /\ Amount(r) >= 1 /\ Amount(r) <= Open(readItem[r])

KnowsStock(r) ==
    /\ target[r] \in Stocks /\ target[r] \in held[r]
    /\ Ledger!Destination(Item(r), target[r])
    /\ readStock[r] = IF stock[target[r]].exists THEN stock[target[r]]
                      ELSE NewRow(items[Item(r)].key)

StageHolds(r) ==
    /\ pc[r] \in {"asked"} \cup Ends => Idle(r)
    /\ pc[r] \in {"item", "insert"} => KnowsItem(r) /\ target[r] = NoStock
    /\ pc[r] = "insert" => AmountFits(r) /\ readItem[r].stock = NoStock
    /\ pc[r] \in {"stock", "checked"} => KnowsItem(r) /\ AmountFits(r) /\ KnowsStock(r)

StagesHold == \A r \in Requests : StageHolds(r)

ReceiptInv == RowTypes /\ Exclusive /\ NamedStockExists /\ StagesHold

-----------------------------------------------------------------------------
LEMMA AskTypes ==
    ASSUME RowTypes, NEW r \in Requests
    PROVE  /\ ask[r].kind \in {"receive", "item", "stock", "order"}
           /\ ask[r].kind = "receive" =>
                Item(r) \in Items /\ ask[r].amount \in Nat \cup {Outstanding}
           /\ ask[r].kind = "item" => Item(r) \in Items /\ ask[r].form \in ItemForms
           /\ ask[r].kind = "stock" =>
                ask[r].stock \in Stocks \cup {NoStock} /\ ask[r].form \in StockForms
           /\ ask[r].kind = "order" =>
                ask[r].order \in Orders /\ ask[r].status \in OrderStatuses
BY DEF RowTypes, Asks, Item

LEMMA RowFields ==
    ASSUME RowTypes
    PROVE  /\ \A i \in Items : /\ items[i].exists \in BOOLEAN
                               /\ items[i].quantity \in Nat /\ items[i].received \in Nat
                               /\ items[i].stock \in Stocks \cup {NoStock}
                               /\ items[i].key \in Keys
           /\ \A s \in Stocks : /\ stock[s] \in Ledger!StockRow
                                /\ stock[s].exists \in BOOLEAN /\ stock[s].key \in Keys
                                /\ stock[s].quantity \in Nat /\ stock[s].reserved \in Nat
BY DEF RowTypes, Ledger!ItemRow, Ledger!StockRow

\* A step of r that changes only rows that nobody else holds leaves what the
\* other requests know intact.
LEMMA OthersUndisturbed ==
    ASSUME ReceiptInv, NEW r \in Requests, NEW q \in Requests, q # r,
           ask' = ask, pc'[q] = pc[q], held'[q] = held[q], target'[q] = target[q],
           readItem'[q] = readItem[q], readStock'[q] = readStock[q],
           \A i \in Items : i \in held[q] => items'[i] = items[i],
           \A s \in Stocks : s \in held[q] => stock'[s] = stock[s],
           \A s \in Stocks : stock[s].exists => stock'[s].exists
    PROVE  StageHolds(q)'
<1>1. StageHolds(q) /\ RowTypes
  BY DEF ReceiptInv, StagesHold
<1>2. KnowsItem(q) => KnowsItem(q)' /\ items'[Item(q)] = items[Item(q)]
  BY <1>1, AskTypes DEF KnowsItem, Item
<1>3. AmountFits(q) => AmountFits(q)'
  BY DEF AmountFits, Amount, Open
<1>4. KnowsItem(q) /\ KnowsStock(q) => KnowsStock(q)'
  BY <1>2 DEF KnowsStock, KnowsItem, Ledger!Destination, Item
<1> QED
  BY <1>1, <1>2, <1>3, <1>4 DEF StageHolds, Idle

\* COMMIT, ROLLBACK and the single statement of a form.
LEMMA EndKeeps ==
    ASSUME ReceiptInv, NEW r \in Requests, NEW outcome \in Ends, End(r, outcome),
           items' \in [Items -> Ledger!ItemRow], stock' \in [Stocks -> Ledger!StockRow],
           ledger' \in [Stocks -> Seq(Ledger!Movement)],
           status' \in [Orders -> OrderStatuses], NamedStockExists',
           \A q \in Requests \ {r} :
              /\ \A i \in Items : i \in held[q] => items'[i] = items[i]
              /\ \A s \in Stocks : s \in held[q] => stock'[s] = stock[s],
           \A s \in Stocks : stock[s].exists => stock'[s].exists
    PROVE  ReceiptInv'
<1>0. RowTypes /\ Exclusive
  BY DEF ReceiptInv
<1>1. RowTypes'
  BY <1>0 DEF RowTypes, End, Stages
<1>2. Exclusive'
  BY <1>0 DEF RowTypes, Exclusive, End
<1>3. \A q \in Requests \ {r} : /\ pc'[q] = pc[q] /\ held'[q] = held[q]
                                /\ target'[q] = target[q] /\ readItem'[q] = readItem[q]
                                /\ readStock'[q] = readStock[q]
  BY <1>0 DEF RowTypes, End
<1>4. ask' = ask
  BY DEF End
<1>5. \A q \in Requests \ {r} : StageHolds(q)'
  BY <1>3, <1>4, OthersUndisturbed
<1>6. pc'[r] \in Ends /\ held'[r] = {} /\ target'[r] = NoStock
  BY <1>0 DEF RowTypes, End
<1>7. StageHolds(r)'
  BY <1>6 DEF StageHolds, Idle, Ends
<1> QED BY <1>1, <1>2, <1>5, <1>7 DEF ReceiptInv, StagesHold

LEMMA UnchangedEnd ==
    ASSUME ReceiptInv, NEW r \in Requests, NEW outcome \in Ends, End(r, outcome),
           UNCHANGED rows
    PROVE  ReceiptInv'
<1>1. NamedStockExists' /\ items' = items /\ stock' = stock /\ ledger' = ledger
        /\ status' = status
  BY DEF rows, ReceiptInv, NamedStockExists
<1> QED
  BY <1>1, EndKeeps DEF ReceiptInv, RowTypes

\* A step of a receipt that changes no row.
LEMMA QuietStep ==
    ASSUME ReceiptInv, NEW r \in Requests, UNCHANGED rows, ask' = ask,
           RowTypes', Exclusive', StageHolds(r)',
           \A q \in Requests \ {r} :
              /\ pc'[q] = pc[q] /\ held'[q] = held[q] /\ target'[q] = target[q]
              /\ readItem'[q] = readItem[q] /\ readStock'[q] = readStock[q]
    PROVE  ReceiptInv'
<1>1. items' = items /\ stock' = stock
  BY DEF rows
<1>2. \A q \in Requests \ {r} : StageHolds(q)'
  BY <1>1, OthersUndisturbed
<1>3. NamedStockExists'
  BY <1>1 DEF ReceiptInv, NamedStockExists
<1> QED BY <1>2, <1>3 DEF ReceiptInv, StagesHold

LEMMA LockItemKeeps ==
    ASSUME ReceiptInv, NEW r \in Requests, LockItem(r)
    PROVE  ReceiptInv'
<1>0. RowTypes /\ Exclusive /\ StageHolds(r)
  BY DEF ReceiptInv, StagesHold
<1>1. ask[r].kind = "receive" /\ pc[r] = "asked" /\ Item(r) \in Items
  BY <1>0, AskTypes DEF LockItem, Receives
<1>2. RowTypes'
  BY <1>0, <1>1 DEF RowTypes, LockItem, rows, Stages, Rows
<1>3. Exclusive'
  BY <1>0, <1>1 DEF RowTypes, Exclusive, LockItem, Free
<1>4. \A q \in Requests \ {r} :
        /\ pc'[q] = pc[q] /\ held'[q] = held[q] /\ target'[q] = target[q]
        /\ readItem'[q] = readItem[q] /\ readStock'[q] = readStock[q]
  BY <1>0 DEF RowTypes, LockItem
<1>5. /\ pc'[r] = "item" /\ held'[r] = {Item(r)} /\ readItem'[r] = items'[Item(r)]
      /\ target'[r] = NoStock /\ ask' = ask /\ items' = items /\ items[Item(r)].exists
  BY <1>0, <1>1 DEF RowTypes, LockItem, rows, StageHolds, Idle
<1>6. StageHolds(r)'
  BY <1>1, <1>5 DEF StageHolds, KnowsItem, Item, Ends
<1>7. UNCHANGED rows
  BY DEF LockItem
<1> QED BY <1>2, <1>3, <1>4, <1>5, <1>6, <1>7, QuietStep

LEMMA AcceptedFacts ==
    ASSUME ReceiptInv, NEW r \in Requests, Accepted(r)
    PROVE  /\ ask[r].kind = "receive" /\ pc[r] = "item" /\ Item(r) \in Items
           /\ KnowsItem(r) /\ AmountFits(r) /\ Key(r) = items[Item(r)].key
<1>0. RowTypes /\ StageHolds(r)
  BY DEF ReceiptInv, StagesHold
<1>1. ask[r].kind = "receive" /\ pc[r] = "item" /\ Item(r) \in Items
  BY <1>0, AskTypes DEF Accepted, Receives
<1>2. KnowsItem(r)
  BY <1>0, <1>1 DEF StageHolds
<1>3. readItem[r].quantity \in Nat /\ readItem[r].received \in Nat
  BY <1>0, <1>1, <1>2, RowFields DEF KnowsItem
<1>4. AmountFits(r)
  BY <1>0, <1>1, <1>3, AskTypes DEF AmountFits, Accepted, Amount, Open
<1> QED BY <1>1, <1>2, <1>4 DEF Key, KnowsItem

\* A receipt takes its stock row, found or inserted.
LEMMA HoldStockKeeps ==
    ASSUME ReceiptInv, NEW r \in Requests, NEW s \in Stocks, NEW row,
           ask[r].kind = "receive", pc[r] \in {"item", "insert"}, AmountFits(r),
           HoldStock(r, s, row), \A q \in Requests \ {r} : s \notin held[q],
           Ledger!Destination(Item(r), s),
           row = IF stock[s].exists THEN stock[s] ELSE NewRow(items[Item(r)].key)
    PROVE  ReceiptInv'
<1>0. RowTypes /\ Exclusive /\ StageHolds(r)
  BY DEF ReceiptInv, StagesHold
<1>1. KnowsItem(r) /\ Item(r) \in Items
  BY <1>0, AskTypes DEF StageHolds
<1>2. RowTypes'
  BY <1>0 DEF RowTypes, HoldStock, rows, Stages, Rows
<1>3. Exclusive'
  BY <1>0 DEF RowTypes, Exclusive, HoldStock
<1>4. \A q \in Requests \ {r} :
        /\ pc'[q] = pc[q] /\ held'[q] = held[q] /\ target'[q] = target[q]
        /\ readItem'[q] = readItem[q] /\ readStock'[q] = readStock[q]
  BY <1>0 DEF RowTypes, HoldStock
<1>5. /\ pc'[r] = "stock" /\ held'[r] = held[r] \cup {s} /\ target'[r] = s
      /\ readItem' = readItem /\ readStock'[r] = row /\ ask' = ask
      /\ items' = items /\ stock' = stock
  BY <1>0 DEF RowTypes, HoldStock, rows
<1>6. KnowsItem(r)'
  BY <1>1, <1>5 DEF KnowsItem, Item
<1>7. AmountFits(r)'
  BY <1>5 DEF AmountFits, Amount, Open
<1>8. KnowsStock(r)'
  BY <1>5 DEF KnowsStock, Ledger!Destination, Item, NewRow
<1>9. StageHolds(r)'
  BY <1>5, <1>6, <1>7, <1>8 DEF StageHolds, Ends
<1>10. UNCHANGED rows
  BY DEF HoldStock
<1> QED BY <1>2, <1>3, <1>4, <1>5, <1>9, <1>10, QuietStep

\* Looking for the row of a key without finding one, or finding it taken.
LEMMA GoToKeeps ==
    ASSUME ReceiptInv, NEW r \in Requests, NEW stage \in {"item", "insert"},
           GoTo(r, stage), KnowsItem(r), target[r] = NoStock,
           stage = "insert" => AmountFits(r) /\ readItem[r].stock = NoStock
    PROVE  ReceiptInv'
<1>0. RowTypes /\ Exclusive
  BY DEF ReceiptInv
<1>1. /\ pc' = [pc EXCEPT ![r] = stage] /\ ask' = ask /\ held' = held /\ target' = target
      /\ readItem' = readItem /\ readStock' = readStock /\ complete' = complete
      /\ items' = items /\ stock' = stock /\ ledger' = ledger /\ status' = status
  BY DEF GoTo, session, rows
<1>2. RowTypes' /\ Exclusive'
  BY <1>0, <1>1 DEF RowTypes, Exclusive, Stages
<1>3. KnowsItem(r)' /\ (AmountFits(r) => AmountFits(r)')
  BY <1>1 DEF KnowsItem, AmountFits, Amount, Open, Item
<1>4. pc'[r] = stage
  BY <1>0, <1>1 DEF RowTypes
<1>5. StageHolds(r)'
  BY <1>1, <1>3, <1>4 DEF StageHolds, Ends
<1>6. UNCHANGED rows
  BY DEF GoTo
<1> QED BY <1>0, <1>1, <1>2, <1>5, <1>6, QuietStep DEF RowTypes

LEMMA FindStockKeeps ==
    ASSUME ReceiptInv, NEW r \in Requests,
           FindStock(r) \/ InsertStock(r) \/ DuplicateKey(r)
    PROVE  ReceiptInv'
<1>0. RowTypes /\ StageHolds(r) /\ NamedStockExists
  BY DEF ReceiptInv, StagesHold
<1>1. CASE LockNamedStock(r)
  <2> DEFINE s == readItem[r].stock
  <2>1. Accepted(r) /\ s # NoStock /\ Free(r, s) /\ HoldStock(r, s, stock[s])
    BY <1>1 DEF LockNamedStock
  <2>2. s \in Stocks /\ stock[s].exists /\ s = items[Item(r)].stock
    BY <1>0, <2>1, AcceptedFacts, RowFields DEF KnowsItem, NamedStockExists
  <2>3. Ledger!Destination(Item(r), s)
    BY <2>1, <2>2 DEF Ledger!Destination
  <2> QED BY <2>1, <2>2, <2>3, AcceptedFacts, HoldStockKeeps DEF Free
<1>2. CASE LockStockOfKey(r)
  <2>1. PICK s \in Stocks : RowsOfKey(Key(r)) = {s} /\ HoldStock(r, s, stock[s])
    BY <1>2 DEF LockStockOfKey
  <2>2. Accepted(r) /\ readItem[r].stock = NoStock /\ Free(r, s)
    BY <1>2, <2>1 DEF LockStockOfKey, Searches
  <2>3. stock[s].exists /\ stock[s].key = items[Item(r)].key
    BY <2>1, <2>2, AcceptedFacts DEF RowsOfKey
  <2>4. Ledger!Destination(Item(r), s)
    BY <2>2, <2>3, AcceptedFacts DEF Ledger!Destination, KnowsItem
  <2> QED BY <2>1, <2>2, <2>3, <2>4, AcceptedFacts, HoldStockKeeps DEF Free
<1>3. CASE AmbiguousStock(r)
  BY <1>3, UnchangedEnd DEF AmbiguousStock, Ends
<1>4. CASE FindNoStock(r)
  <2>1. Accepted(r) /\ readItem[r].stock = NoStock /\ GoTo(r, "insert")
    BY <1>4 DEF FindNoStock, Searches
  <2>2. target[r] = NoStock
    BY <1>0, <2>1, AcceptedFacts DEF StageHolds
  <2> QED BY <2>1, <2>2, AcceptedFacts, GoToKeeps
<1>5. CASE InsertStock(r)
  <2>1. ask[r].kind = "receive" /\ pc[r] = "insert"
    BY <1>5 DEF InsertStock, Receives
  <2>2. KnowsItem(r) /\ AmountFits(r) /\ readItem[r].stock = NoStock
    BY <1>0, <2>1 DEF StageHolds
  <2>3. PICK s \in Stocks : /\ ~stock[s].exists /\ \A q \in Requests : s \notin held[q]
                            /\ HoldStock(r, s, NewRow(Key(r)))
    BY <1>5 DEF InsertStock, NewRow
  <2>4. Key(r) = items[Item(r)].key
    BY <2>2 DEF Key, KnowsItem
  <2>5. Ledger!Destination(Item(r), s)
    BY <2>2, <2>3 DEF Ledger!Destination, KnowsItem
  <2> QED BY <2>1, <2>2, <2>3, <2>4, <2>5, HoldStockKeeps
<1>6. CASE DuplicateKey(r)
  BY <1>0, <1>6, GoToKeeps DEF DuplicateKey, Receives, StageHolds
<1> QED BY <1>1, <1>2, <1>3, <1>4, <1>5, <1>6 DEF FindStock

LEMMA CheckOrderKeeps ==
    ASSUME ReceiptInv, NEW r \in Requests, CheckOrder(r)
    PROVE  ReceiptInv'
<1>0. RowTypes /\ Exclusive /\ StageHolds(r)
  BY DEF ReceiptInv, StagesHold
<1>1. /\ pc[r] = "stock" /\ pc' = [pc EXCEPT ![r] = "checked"] /\ ask' = ask
      /\ held' = held /\ target' = target /\ readItem' = readItem
      /\ readStock' = readStock /\ DOMAIN complete' = Requests
      /\ items' = items /\ stock' = stock /\ ledger' = ledger /\ status' = status
  BY <1>0 DEF CheckOrder, Receives, rows, RowTypes
<1>2. RowTypes' /\ Exclusive'
  BY <1>0, <1>1 DEF RowTypes, Exclusive, Stages
<1>3. KnowsItem(r) /\ AmountFits(r) /\ KnowsStock(r)
  BY <1>0, <1>1 DEF StageHolds
<1>4. KnowsItem(r)' /\ AmountFits(r)' /\ KnowsStock(r)'
  BY <1>1, <1>3
  DEF KnowsItem, AmountFits, KnowsStock, Amount, Open, Item, Ledger!Destination, NewRow
<1>5. pc'[r] = "checked"
  BY <1>0, <1>1 DEF RowTypes
<1>6. StageHolds(r)'
  BY <1>4, <1>5 DEF StageHolds, Ends
<1>7. UNCHANGED rows
  BY DEF CheckOrder
<1> QED BY <1>0, <1>1, <1>2, <1>6, <1>7, QuietStep DEF RowTypes

\* The commit of a receipt is the atomic receipt of the warehouse.
LEMMA CommitIsReceive ==
    ASSUME ReceiptInv, NEW r \in Requests, CommitReceipt(r)
    PROVE  /\ Item(r) \in Items /\ target[r] \in Stocks
           /\ Item(r) \in held[r] /\ target[r] \in held[r]
           /\ Amount(r) \in 1..items[Item(r)].quantity
           /\ Ledger!Receive(Item(r), target[r], Amount(r))
<1> DEFINE i == Item(r)
           s == target[r]
           n == Amount(r)
<1>0. RowTypes /\ StageHolds(r)
  BY DEF ReceiptInv, StagesHold
<1>1. ask[r].kind = "receive" /\ pc[r] = "checked" /\ i \in Items
  BY <1>0, AskTypes DEF CommitReceipt, Receives
<1>2. KnowsItem(r) /\ AmountFits(r) /\ KnowsStock(r)
  BY <1>0, <1>1 DEF StageHolds
<1>3. /\ s \in Stocks /\ i \in held[r] /\ s \in held[r] /\ Ledger!Destination(i, s)
      /\ items[i].exists /\ readItem[r] = items[i]
      /\ readStock[r] = IF stock[s].exists THEN stock[s] ELSE NewRow(items[i].key)
  BY <1>2 DEF KnowsItem, KnowsStock
<1>4. n \in Nat /\ n >= 1 /\ n <= items[i].quantity - items[i].received
  BY <1>2, <1>3 DEF AmountFits, Open
<1>5. n \in 1..items[i].quantity
  BY <1>0, <1>1, <1>4, RowFields
<1>6. /\ items' = [items EXCEPT ![i].received = readItem[r].received + n, ![i].stock = s]
      /\ stock' = [stock EXCEPT ![s] = [readStock[r] EXCEPT !.quantity = @ + n]]
      /\ ledger' = [ledger EXCEPT ![s] = Append(@,
           [old |-> readStock[r].quantity, new |-> readStock[r].quantity + n, item |-> i])]
  <2>1. readStock[r].quantity + n = StockAfter(r).quantity
    BY <1>3 DEF StockAfter, NewRow, RowTypes, Ledger!StockRow, ReceiptInv
  <2> QED BY <2>1 DEF CommitReceipt, ItemsAfter, StockAfter
<1> HIDE DEF i, s, n
<1>7. items' = Ledger!Received(i, s, n)
  BY <1>3, <1>6 DEF Ledger!Received
<1>8. readStock[r].quantity = Ledger!Stored(s)
  BY <1>3 DEF NewRow, Ledger!Stored
<1>9. ledger' = Ledger!Recorded(s, Ledger!Stored(s) + n, i)
  BY <1>6, <1>8 DEF Ledger!Recorded
<1>10. stock' = Ledger!Stocked(i, s, n)
  <2>1. readStock[r] = Ledger!RowFor(i, s)
    BY <1>3 DEF NewRow, Ledger!RowFor
  <2> QED BY <1>6, <2>1 DEF Ledger!Stocked
<1>11. Ledger!Receive(i, s, n)
  BY <1>3, <1>4, <1>7, <1>9, <1>10 DEF Ledger!Receive
<1> QED BY <1>1, <1>3, <1>5, <1>11 DEF i, s, n

\* What Recorded does to the ledger.
LEMMA RecordedType ==
    ASSUME RowTypes, NEW s \in Stocks, NEW new \in Nat, NEW item \in Items \cup {NoItem}
    PROVE  Ledger!Recorded(s, new, item) \in [Stocks -> Seq(Ledger!Movement)]
<1>1. Ledger!Stored(s) \in Nat
  BY RowFields DEF Ledger!Stored
<1>2. [old |-> Ledger!Stored(s), new |-> new, item |-> item] \in Ledger!Movement
  BY <1>1 DEF Ledger!Movement
<1> DEFINE movement == [old |-> Ledger!Stored(s), new |-> new, item |-> item]
<1> HIDE DEF movement
<1>3. ledger[s] \in Seq(Ledger!Movement) /\ Append(ledger[s], movement) \in Seq(Ledger!Movement)
  BY <1>2 DEF RowTypes, movement
<1> QED BY <1>3 DEF Ledger!Recorded, RowTypes, movement

LEMMA CommitReceiptKeeps ==
    ASSUME ReceiptInv, NEW r \in Requests, CommitReceipt(r)
    PROVE  ReceiptInv'
<1> DEFINE i == Item(r)
           s == target[r]
           n == Amount(r)
<1>0. RowTypes /\ Exclusive /\ NamedStockExists
  BY DEF ReceiptInv
<1>1. /\ i \in Items /\ s \in Stocks /\ i \in held[r] /\ s \in held[r]
      /\ n \in 1..items[i].quantity /\ Ledger!Receive(i, s, n)
  BY CommitIsReceive
<1>2. End(r, "done") /\ status' \in [Orders -> OrderStatuses]
  BY <1>0, <1>1, RowsAssumption DEF CommitReceipt, RowTypes, OrderStatuses
<1> HIDE DEF i, s, n
<1>3. n \in Nat /\ items[i].received + n \in Nat
  BY <1>0, <1>1, RowFields
<1>4. items' = [items EXCEPT ![i].received = @ + n, ![i].stock = s]
  BY <1>1 DEF Ledger!Receive, Ledger!Received
<1>5. items' \in [Items -> Ledger!ItemRow] /\ items'[i].stock = s
        /\ \A j \in Items \ {i} : items'[j] = items[j]
  <2> DEFINE row == [[items[i] EXCEPT !.received = @ + n] EXCEPT !.stock = s]
  <2>1. items[i] \in Ledger!ItemRow
    BY <1>0, <1>1 DEF RowTypes
  <2>2. row \in Ledger!ItemRow /\ row.stock = s
    BY <1>1, <1>3, <2>1 DEF Ledger!ItemRow
  <2>3. items' = [items EXCEPT ![i] = row]
    BY <1>0, <1>1, <1>4 DEF RowTypes
  <2> HIDE DEF row
  <2> QED BY <1>0, <1>1, <2>2, <2>3 DEF RowTypes
<1>6. Ledger!RowFor(i, s) \in Ledger!StockRow /\ Ledger!RowFor(i, s).exists
  BY <1>0, <1>1, RowFields DEF Ledger!RowFor, Ledger!StockRow
<1>7. /\ stock' \in [Stocks -> Ledger!StockRow] /\ stock'[s].exists
      /\ \A t \in Stocks \ {s} : stock'[t] = stock[t]
  <2> DEFINE row == Ledger!RowFor(i, s)
  <2>1. stock' = [stock EXCEPT ![s] = [row EXCEPT !.quantity = @ + n]]
    BY <1>1 DEF Ledger!Receive, Ledger!Stocked
  <2> HIDE DEF row
  <2>2. row \in Ledger!StockRow /\ row.exists
    BY <1>6 DEF row
  <2>3. [row EXCEPT !.quantity = @ + n] \in Ledger!StockRow
          /\ [row EXCEPT !.quantity = @ + n].exists
    BY <1>3, <2>2 DEF Ledger!StockRow
  <2> QED BY <1>0, <1>1, <2>1, <2>3 DEF RowTypes
<1>8. Ledger!Stored(s) + n \in Nat
  BY <1>0, <1>1, <1>3, RowFields DEF Ledger!Stored
<1>9. ledger' \in [Stocks -> Seq(Ledger!Movement)]
  BY <1>0, <1>1, <1>8, RecordedType DEF Ledger!Receive
<1>10. NamedStockExists'
  BY <1>0, <1>5, <1>7, RowFields DEF NamedStockExists
<1>11. \A q \in Requests \ {r} : i \notin held[q] /\ s \notin held[q]
  BY <1>0, <1>1 DEF Exclusive
<1> QED
  BY <1>2, <1>5, <1>7, <1>9, <1>10, <1>11, EndKeeps DEF Ends

LEMMA FormKeeps ==
    ASSUME ReceiptInv, NEW r \in Requests, Form(r)
    PROVE  ReceiptInv'
<1>0. RowTypes /\ NamedStockExists
  BY DEF ReceiptInv
<1>1. CASE SaveItem(r)
  <2>1. ask[r].kind = "item" /\ Item(r) \in Items /\ ask[r].form \in Ledger!ItemRow
    BY <1>0, <1>1, AskTypes, RowsAssumption DEF SaveItem, Posts
  <2>2. /\ items' = [items EXCEPT ![Item(r)] = ask[r].form]
        /\ stock' = stock /\ ledger' = ledger /\ status' = status
        /\ End(r, "done") /\ \A q \in Requests \ {r} : Item(r) \notin held[q]
        /\ ask[r].form.stock # NoStock => stock[ask[r].form.stock].exists
    BY <1>1 DEF SaveItem, Free, ItemFormValid
  <2>3. items' \in [Items -> Ledger!ItemRow]
    BY <1>0, <2>1, <2>2 DEF RowTypes
  <2>4. NamedStockExists'
    BY <1>0, <2>1, <2>2 DEF NamedStockExists, RowTypes
  <2>5. /\ stock' \in [Stocks -> Ledger!StockRow] /\ ledger' \in [Stocks -> Seq(Ledger!Movement)]
        /\ status' \in [Orders -> OrderStatuses]
    BY <1>0, <2>2 DEF RowTypes
  <2>6. \A i \in Items : i # Item(r) => items'[i] = items[i]
    BY <1>0, <2>1, <2>2 DEF RowTypes
  <2> QED BY <2>2, <2>3, <2>4, <2>5, <2>6, EndKeeps DEF Ends
<1>2. ASSUME NEW s \in Stocks, SaveStock(r, s)
      PROVE  ReceiptInv'
  <2> DEFINE form == ask[r].form
  <2>1. ask[r].kind = "stock" /\ form \in Ledger!StockRow /\ form.exists
    BY <1>0, <1>2, AskTypes, RowsAssumption DEF SaveStock, Posts
  <2>2. /\ stock' = [stock EXCEPT ![s] = form] /\ items' = items /\ status' = status
        /\ ledger' = Ledger!Recorded(s, form.quantity, NoItem)
        /\ End(r, "done") /\ \A q \in Requests \ {r} : s \notin held[q]
    BY <1>2 DEF SaveStock, Free
  <2>3. stock' \in [Stocks -> Ledger!StockRow]
    BY <1>0, <2>1, <2>2 DEF RowTypes
  <2>4. ledger' \in [Stocks -> Seq(Ledger!Movement)]
    BY <1>0, <2>1, <2>2, RecordedType DEF Ledger!StockRow
  <2>5. NamedStockExists' /\ \A t \in Stocks : stock[t].exists => stock'[t].exists
    BY <1>0, <2>1, <2>2 DEF NamedStockExists, RowTypes
  <2>6. items' \in [Items -> Ledger!ItemRow] /\ status' \in [Orders -> OrderStatuses]
    BY <1>0, <2>2 DEF RowTypes
  <2>7. \A q \in Requests \ {r} :
          /\ \A i \in Items : i \in held[q] => items'[i] = items[i]
          /\ \A t \in Stocks : t \in held[q] => stock'[t] = stock[t]
    BY <1>0, <2>2 DEF RowTypes
  <2>8. End(r, "done") /\ "done" \in Ends
    BY <2>2 DEF Ends
  <2> QED BY <2>3, <2>4, <2>5, <2>6, <2>7, <2>8, EndKeeps
<1>3. CASE SaveOrder(r)
  <2>1. ask[r].kind = "order" /\ ask[r].status \in OrderStatuses
    BY <1>0, <1>3, AskTypes DEF SaveOrder, Posts
  <2>2. /\ items' = items /\ stock' = stock /\ ledger' = ledger /\ End(r, "done")
        /\ status' = [status EXCEPT ![ask[r].order] = ask[r].status]
    BY <1>3 DEF SaveOrder
  <2>3. status' \in [Orders -> OrderStatuses]
    BY <1>0, <2>1, <2>2 DEF RowTypes
  <2>4. NamedStockExists'
    BY <1>0, <2>2 DEF NamedStockExists
  <2> QED BY <1>0, <2>2, <2>3, <2>4, EndKeeps DEF Ends, RowTypes
<1>4. CASE RefuseForm(r)
  BY <1>4, UnchangedEnd DEF RefuseForm, Ends
<1> QED BY <1>1, <1>2, <1>3, <1>4 DEF Form

LEMMA ReceiptInvInit == Init => ReceiptInv
<1> SUFFICES ASSUME Init PROVE ReceiptInv
  OBVIOUS
<1>1. RowTypes
  <2>1. ledger \in [Stocks -> Seq(Ledger!Movement)]
    BY DEF Init, Ledger!Init
  <2> QED BY <2>1, RowsAssumption DEF Init, Ledger!Init, RowTypes, Stages
<1>2. Exclusive
  BY DEF Init, Exclusive
<1>3. NamedStockExists
  BY DEF Init, Ledger!Init, NamedStockExists
<1>4. StagesHold
  BY DEF Init, StagesHold, StageHolds, Idle, Ends
<1> QED BY <1>1, <1>2, <1>3, <1>4 DEF ReceiptInv

LEMMA ReceiptInvStep == ReceiptInv /\ [Next]_vars => ReceiptInv'
<1> SUFFICES ASSUME ReceiptInv, [Next]_vars PROVE ReceiptInv'
  OBVIOUS
<1>1. ASSUME NEW r \in Requests, Step(r)
      PROVE  ReceiptInv'
  <2>1. CASE LockItem(r)
    BY <2>1, LockItemKeeps
  <2>2. CASE RefuseReceipt(r)
    BY <2>2, UnchangedEnd DEF RefuseReceipt, Ends
  <2>3. CASE FindStock(r) \/ InsertStock(r) \/ DuplicateKey(r)
    BY <2>3, FindStockKeeps
  <2>4. CASE CheckOrder(r)
    BY <2>4, CheckOrderKeeps
  <2>5. CASE CommitReceipt(r)
    BY <2>5, CommitReceiptKeeps
  <2>6. CASE Form(r)
    BY <2>6, FormKeeps
  <2> QED BY <1>1, <2>1, <2>2, <2>3, <2>4, <2>5, <2>6 DEF Step, Receipt
<1>2. CASE UNCHANGED vars
  BY <1>2 DEF vars, rows, session, ReceiptInv, RowTypes, Exclusive, NamedStockExists,
     StagesHold, StageHolds, Idle, KnowsItem, AmountFits, KnowsStock, Amount, Open, Item,
     Ledger!Destination, NewRow
<1> QED BY <1>1, <1>2 DEF Next

-----------------------------------------------------------------------------
\* A step of a request is one step of the warehouse, or none.
LEMMA StepsAreLedgerSteps ==
    ASSUME ReceiptInv, [Next]_vars
    PROVE  [Ledger!Next]_(Ledger!ledgerVars)
<1> DEFINE Same == UNCHANGED <<items, stock, ledger>>
<1>0. RowTypes
  BY DEF ReceiptInv
<1>1. Same => [Ledger!Next]_(Ledger!ledgerVars)
  BY DEF Ledger!ledgerVars
<1>2. UNCHANGED rows => Same
  BY DEF rows
<1> HIDE DEF Same
<1>3. ASSUME NEW r \in Requests, Receipt(r), ~CommitReceipt(r)
      PROVE  Same
  BY <1>2, <1>3 DEF Receipt, LockItem, RefuseReceipt, FindStock, LockNamedStock,
     LockStockOfKey, AmbiguousStock, FindNoStock, InsertStock, DuplicateKey, CheckOrder,
     HoldStock, GoTo
<1>4. ASSUME NEW r \in Requests, CommitReceipt(r)
      PROVE  Ledger!Next
  BY <1>4, CommitIsReceive DEF Ledger!Next
<1>5. ASSUME NEW r \in Requests, SaveItem(r)
      PROVE  Ledger!Next
  <2>1. Item(r) \in Items /\ ask[r].form \in ItemForms
    BY <1>0, <1>5, AskTypes DEF SaveItem, Posts
  <2>2. Ledger!EditItem(Item(r), ask[r].form)
    BY <1>5 DEF SaveItem, ItemFormValid, Ledger!EditItem
  <2> QED BY <2>1, <2>2 DEF Ledger!Next
<1>6. ASSUME NEW r \in Requests, NEW s \in Stocks, SaveStock(r, s)
      PROVE  Ledger!Next
  <2>1. ask[r].form \in StockForms
    BY <1>0, <1>6, AskTypes DEF SaveStock, Posts
  <2>2. Ledger!Adjust(s, ask[r].form)
    BY <1>6 DEF SaveStock, StockFormValid, Ledger!Adjust
  <2> QED BY <2>1, <2>2 DEF Ledger!Next
<1>7. ASSUME NEW r \in Requests, SaveOrder(r) \/ RefuseForm(r)
      PROVE  Same
  BY <1>2, <1>7 DEF SaveOrder, RefuseForm, Same
<1>8. CASE UNCHANGED vars
  BY <1>1, <1>2, <1>8 DEF vars
<1> QED
  BY <1>1, <1>3, <1>4, <1>5, <1>6, <1>7, <1>8 DEF Next, Step, Form

\* The locking receipts and forms implement the atomic warehouse.
THEOREM ReceiptsImplementLedger == Spec => ImplementsLedger
<1>1. Init => Ledger!Init
  BY DEF Init
<1>2. ReceiptInv /\ [Next]_vars => [Ledger!Next]_(Ledger!ledgerVars)
  BY StepsAreLedgerSteps
<1> QED
  BY <1>1, <1>2, ReceiptInvInit, ReceiptInvStep, PTL
  DEF Spec, ImplementsLedger, Ledger!Spec

-----------------------------------------------------------------------------
(***************************************************************************)
(* The ledger, first for the atomic warehouse.                             *)
(***************************************************************************)

LedgerInv == /\ stock \in [Stocks -> Ledger!StockRow]
             /\ ledger \in [Stocks -> Seq(Ledger!Movement)]
             /\ Ledger!LedgerExplainsStock

\* A movement that starts from what is in stock continues the ledger.
LEMMA RecordContinues ==
    ASSUME LedgerInv, NEW s \in Stocks, NEW new \in Nat, NEW item \in Items \cup {NoItem},
           stock' \in [Stocks -> Ledger!StockRow], \A t \in Stocks \ {s} : stock'[t] = stock[t],
           stock'[s].exists, stock'[s].quantity = new,
           ledger' = Ledger!Recorded(s, new, item)
    PROVE  LedgerInv'
<1> DEFINE movement == [old |-> Ledger!Stored(s), new |-> new, item |-> item]
<1>1. Ledger!Stored(s) \in Nat
  BY DEF LedgerInv, Ledger!Stored, Ledger!StockRow
<1>2. movement \in Ledger!Movement /\ movement.old = Ledger!Stored(s) /\ movement.new = new
  BY <1>1 DEF Ledger!Movement
<1>3. ledger' = [ledger EXCEPT ![s] = Append(@, movement)]
  BY DEF Ledger!Recorded
<1> HIDE DEF movement
<1>4. ledger \in [Stocks -> Seq(Ledger!Movement)] /\ ledger[s] \in Seq(Ledger!Movement)
  BY DEF LedgerInv
<1>5. ledger'[s] = Append(ledger[s], movement) /\ \A t \in Stocks \ {s} : ledger'[t] = ledger[t]
  BY <1>3, <1>4
<1>6. ledger' \in [Stocks -> Seq(Ledger!Movement)]
  BY <1>2, <1>3, <1>4
<1>7. ASSUME NEW t \in Stocks \ {s}
      PROVE  /\ Ledger!Chained(ledger'[t])
             /\ ledger'[t] # <<>> => /\ stock'[t].exists
                                     /\ stock'[t].quantity = ledger'[t][Len(ledger'[t])].new
  BY <1>5 DEF LedgerInv, Ledger!LedgerExplainsStock
<1>8. /\ Len(ledger'[s]) = Len(ledger[s]) + 1 /\ Len(ledger[s]) \in Nat
      /\ ledger'[s][Len(ledger[s]) + 1] = movement
      /\ \A n \in 1..Len(ledger[s]) : ledger'[s][n] = ledger[s][n]
  BY <1>2, <1>4, <1>5
<1>9. Len(ledger[s]) > 0 => ledger[s][Len(ledger[s])].new = Ledger!Stored(s)
  <2>1. Len(ledger[s]) > 0 => ledger[s] # <<>>
    BY <1>4
  <2> QED BY <2>1 DEF LedgerInv, Ledger!LedgerExplainsStock, Ledger!Stored
<1>10. Ledger!Chained(ledger'[s])
  <2> SUFFICES ASSUME NEW n \in 1..Len(ledger'[s]) - 1
               PROVE  ledger'[s][n + 1].old = ledger'[s][n].new
    BY DEF Ledger!Chained
  <2>1. n \in 1..Len(ledger[s])
    BY <1>8
  <2>2. CASE n = Len(ledger[s])
    BY <1>2, <1>8, <1>9, <2>1, <2>2
  <2>3. CASE n < Len(ledger[s])
    <3>1. n \in 1..Len(ledger[s]) - 1 /\ n + 1 \in 1..Len(ledger[s])
      BY <1>8, <2>1, <2>3
    <3>2. ledger[s][n + 1].old = ledger[s][n].new
      BY <3>1 DEF LedgerInv, Ledger!LedgerExplainsStock, Ledger!Chained
    <3> QED BY <1>8, <2>1, <3>1, <3>2
  <2> QED BY <1>8, <2>1, <2>2, <2>3
<1>11. stock'[s].quantity = ledger'[s][Len(ledger'[s])].new
  BY <1>2, <1>8
<1> QED
  BY <1>6, <1>7, <1>10, <1>11 DEF LedgerInv, Ledger!LedgerExplainsStock

\* What an atomic step does, the ledger records.
LEMMA LedgerStep ==
    ASSUME ReceiptInv, ReceiptInv', LedgerInv, [Ledger!Next]_(Ledger!ledgerVars)
    PROVE  LedgerInv'
<1>0. stock' \in [Stocks -> Ledger!StockRow] /\ RowTypes
  BY DEF ReceiptInv, RowTypes
<1>1. ASSUME NEW i \in Items, NEW s \in Stocks, NEW n \in 1..items[i].quantity,
             Ledger!Receive(i, s, n)
      PROVE  LedgerInv'
  <2>1. /\ stock' = [stock EXCEPT ![s] = [Ledger!RowFor(i, s) EXCEPT !.quantity = @ + n]]
        /\ ledger' = Ledger!Recorded(s, Ledger!Stored(s) + n, i)
    BY <1>1 DEF Ledger!Receive, Ledger!Stocked
  <2>2. n \in Nat /\ Ledger!Stored(s) \in Nat
    BY <1>0, RowFields DEF Ledger!Stored
  <2>3. /\ Ledger!RowFor(i, s) \in Ledger!StockRow /\ Ledger!RowFor(i, s).exists
        /\ Ledger!RowFor(i, s).quantity = Ledger!Stored(s)
    BY <1>0, RowFields DEF Ledger!RowFor, Ledger!Stored, Ledger!StockRow
  <2> DEFINE row == Ledger!RowFor(i, s)
  <2> HIDE DEF row
  <2>4. stock'[s] = [row EXCEPT !.quantity = @ + n]
          /\ \A t \in Stocks \ {s} : stock'[t] = stock[t]
    BY <1>0, <2>1 DEF row, RowTypes
  <2>5. stock'[s].exists /\ stock'[s].quantity = Ledger!Stored(s) + n
    BY <2>3, <2>4 DEF row, Ledger!StockRow
  <2> QED BY <1>0, <2>1, <2>2, <2>4, <2>5, RecordContinues
<1>2. ASSUME NEW s \in Stocks, NEW form \in StockForms, Ledger!Adjust(s, form)
      PROVE  LedgerInv'
  <2>1. form \in Ledger!StockRow /\ form.exists
    BY RowsAssumption
  <2>2. stock'[s] = form /\ \A t \in Stocks \ {s} : stock'[t] = stock[t]
    BY <1>0, <1>2 DEF Ledger!Adjust, RowTypes
  <2>3. form.quantity \in Nat /\ ledger' = Ledger!Recorded(s, form.quantity, NoItem)
    BY <1>2, <2>1 DEF Ledger!Adjust, Ledger!StockRow
  <2> QED BY <1>0, <2>1, <2>2, <2>3, RecordContinues
<1>3. ASSUME NEW i \in Items, NEW form \in ItemForms, Ledger!EditItem(i, form)
      PROVE  LedgerInv'
  BY <1>3 DEF Ledger!EditItem, LedgerInv, Ledger!LedgerExplainsStock
<1>4. CASE UNCHANGED Ledger!ledgerVars
  BY <1>4 DEF Ledger!ledgerVars, LedgerInv, Ledger!LedgerExplainsStock
<1> QED BY <1>1, <1>2, <1>3, <1>4 DEF Ledger!Next

\* Whatever receipts and forms interleave, the movements of a stock row follow
\* one another without a gap up to what is in stock.
THEOREM LedgerIsGapless == Spec => []LedgerExplainsStock
<1>1. Init => LedgerInv
  <2> SUFFICES ASSUME Init PROVE LedgerInv
    OBVIOUS
  <2>1. \A s \in Stocks : ledger[s] = <<>>
    BY DEF Init, Ledger!Init
  <2>2. Ledger!LedgerExplainsStock
    BY <2>1 DEF Ledger!LedgerExplainsStock, Ledger!Chained
  <2> QED BY <2>2, ReceiptInvInit DEF LedgerInv, ReceiptInv, RowTypes
<1>2. ReceiptInv /\ LedgerInv /\ [Next]_vars => LedgerInv'
  BY ReceiptInvStep, StepsAreLedgerSteps, LedgerStep
<1>3. LedgerInv => LedgerExplainsStock
  BY DEF LedgerInv, LedgerExplainsStock
<1> QED
  BY <1>1, <1>2, <1>3, ReceiptInvInit, ReceiptInvStep, PTL DEF Spec
-----------------------------------------------------------------------------
(***************************************************************************)
(* The constraints of the tables: the type invariant.                      *)
(***************************************************************************)

\* What a receipt has read has the shape of its row.
ReadTypes ==
    /\ readItem \in [Requests -> Ledger!ItemRow \cup {NoItem}]
    /\ readStock \in [Requests -> Ledger!StockRow \cup {NoStock}]
    /\ complete \in [Requests -> BOOLEAN]

RowsInBounds ==
    /\ \A i \in Items : items[i].received <= items[i].quantity
    /\ \A s \in Stocks : stock[s].reserved <= stock[s].quantity

\* r has inserted a row and not committed it; nobody else inserts one of that
\* place, and none is committed.
Inserts(r) == target[r] # NoStock /\ ~stock[target[r]].exists

PlacesReserved ==
    \A r \in Requests : Inserts(r) /\ Key(r) \in Located =>
        RowsOfKey(Key(r)) = {} /\ Inserting(Key(r)) = {r}

TableInv == ReadTypes /\ RowsInBounds /\ OneRowPerPlace /\ PlacesReserved

LEMMA TableInvIsTypeOK == ReceiptInv /\ TableInv => TypeOK
BY DEF ReceiptInv, RowTypes, TableInv, ReadTypes, RowsInBounds, TypeOK, Rows

LEMMA InsertingDef ==
    ASSUME NEW key
    PROVE  Inserting(key) = {q \in Requests : Inserts(q) /\ Key(q) = key}
BY DEF Inserting, Inserts

\* A step that leaves the stock rows and everybody's inserted rows alone.
LEMMA PlacesUndisturbed ==
    ASSUME ReceiptInv, OneRowPerPlace, PlacesReserved, stock' = stock,
           \A q \in Requests : Inserts(q)' => Inserts(q) /\ Key(q)' = Key(q)
    PROVE  OneRowPerPlace' /\ PlacesReserved'
<1>1. OneRowPerPlace'
  BY DEF OneRowPerPlace
<1>2. ASSUME NEW r \in Requests, Inserts(r)', Key(r)' \in Located
      PROVE  RowsOfKey(Key(r))' = {} /\ Inserting(Key(r))' = {r}
  <2>1. Inserts(r) /\ Key(r)' = Key(r)
    BY <1>2
  <2>2. RowsOfKey(Key(r)) = {} /\ Inserting(Key(r)) = {r}
    BY <1>2, <2>1 DEF PlacesReserved
  <2>3. RowsOfKey(Key(r))' = {}
    BY <2>1, <2>2 DEF RowsOfKey
  <2>4. Inserting(Key(r))' = {q \in Requests : Inserts(q)' /\ Key(q)' = Key(r)'}
    BY DEF Inserting, Inserts
  <2> QED BY <1>2, <2>1, <2>2, <2>3, <2>4, InsertingDef
<1> QED BY <1>1, <1>2 DEF PlacesReserved

\* The end of a request that changes no stock row.
LEMMA EndKeepsTables ==
    ASSUME ReceiptInv, TableInv, NEW r \in Requests, NEW outcome, End(r, outcome),
           stock' = stock, \A i \in Items : items'[i].received <= items'[i].quantity
    PROVE  TableInv'
<1>1. ReadTypes'
  BY DEF TableInv, ReadTypes, End
<1>2. RowsInBounds'
  BY DEF TableInv, RowsInBounds
<1>3. \A q \in Requests : Inserts(q)' => Inserts(q) /\ Key(q)' = Key(q)
  BY DEF End, Inserts, Key, ReceiptInv, RowTypes, TableInv, ReadTypes
<1> QED BY <1>1, <1>2, <1>3, PlacesUndisturbed DEF TableInv

\* A receipt takes a row that is there, or inserts one of a free place.
LEMMA HoldKeepsTables ==
    ASSUME ReceiptInv, TableInv, NEW r \in Requests, NEW s \in Stocks,
           NEW row \in Ledger!StockRow, HoldStock(r, s, row), target[r] = NoStock,
           stock[s].exists \/ (Key(r) \in Located =>
                                 RowsOfKey(Key(r)) = {} /\ Inserting(Key(r)) = {})
    PROVE  TableInv'
<1>0. /\ items' = items /\ stock' = stock /\ readItem' = readItem /\ complete' = complete
      /\ target' = [target EXCEPT ![r] = s] /\ readStock' = [readStock EXCEPT ![r] = row]
      /\ target \in [Requests -> Stocks \cup {NoStock}] /\ s # NoStock
  BY RowsAssumption DEF HoldStock, rows, ReceiptInv, RowTypes
<1>1. ReadTypes' /\ RowsInBounds' /\ OneRowPerPlace'
  BY <1>0 DEF TableInv, ReadTypes, RowsInBounds, OneRowPerPlace
<1>2. \A q \in Requests : Key(q)' = Key(q)
  BY <1>0 DEF Key
<1>3. \A q \in Requests \ {r} : Inserts(q)' <=> Inserts(q)
  BY <1>0 DEF Inserts
<1>4. ~Inserts(r) /\ (Inserts(r)' <=> ~stock[s].exists)
  BY <1>0 DEF Inserts
<1>5. ASSUME NEW key
      PROVE  /\ {q \in Requests : Inserts(q)' /\ Key(q)' = key} =
                  IF ~stock[s].exists /\ Key(r) = key THEN Inserting(key) \cup {r}
                  ELSE Inserting(key)
             /\ {t \in Stocks : stock'[t].exists /\ stock'[t].key = key} = RowsOfKey(key)
  BY <1>0, <1>2, <1>3, <1>4, InsertingDef DEF RowsOfKey
<1>6. ASSUME NEW q \in Requests, Inserts(q)', Key(q)' \in Located
      PROVE  RowsOfKey(Key(q))' = {} /\ Inserting(Key(q))' = {q}
  <2>1. /\ Inserting(Key(q))' = {p \in Requests : Inserts(p)' /\ Key(p)' = Key(q)'}
        /\ RowsOfKey(Key(q))' = {t \in Stocks : stock'[t].exists /\ stock'[t].key = Key(q)'}
    BY DEF Inserting, Inserts, RowsOfKey
  <2>2. CASE q = r
    BY <1>2, <1>4, <1>5, <1>6, <2>1, <2>2
  <2>3. CASE q # r
    <3>1. Inserts(q) /\ Key(q) \in Located
      BY <1>2, <1>3, <1>6, <2>3
    <3>2. RowsOfKey(Key(q)) = {} /\ Inserting(Key(q)) = {q}
      BY <3>1 DEF TableInv, PlacesReserved
    <3>3. ~(~stock[s].exists /\ Key(r) = Key(q))
      BY <3>1, <3>2
    <3> QED BY <1>2, <1>5, <2>1, <3>2, <3>3
  <2> QED BY <2>2, <2>3
<1> QED BY <1>1, <1>6 DEF TableInv, PlacesReserved

LEMMA TableInvInit == Init => TableInv
<1> SUFFICES ASSUME Init PROVE TableInv
  OBVIOUS
<1>1. ReadTypes /\ OneRowPerPlace
  BY DEF Init, ReadTypes
<1>2. RowsInBounds
  BY DEF Init, Ledger!Init, RowsInBounds
<1>3. PlacesReserved
  BY DEF Init, PlacesReserved, Inserts
<1> QED BY <1>1, <1>2, <1>3 DEF TableInv

LEMMA FindStockKeepsTables ==
    ASSUME ReceiptInv, TableInv, NEW r \in Requests,
           FindStock(r) \/ InsertStock(r) \/ DuplicateKey(r)
    PROVE  TableInv'
<1>0. RowTypes /\ StageHolds(r) /\ NamedStockExists /\ RowsInBounds
  BY DEF ReceiptInv, StagesHold, TableInv
<1>1. CASE LockNamedStock(r)
  <2> DEFINE s == readItem[r].stock
  <2>1. Accepted(r) /\ s # NoStock /\ HoldStock(r, s, stock[s])
    BY <1>1 DEF LockNamedStock
  <2>2. s \in Stocks /\ stock[s].exists /\ stock[s] \in Ledger!StockRow
    BY <1>0, <2>1, AcceptedFacts, RowFields DEF KnowsItem, NamedStockExists
  <2>3. target[r] = NoStock
    BY <1>0, <2>1, AcceptedFacts DEF StageHolds
  <2> QED BY <2>1, <2>2, <2>3, HoldKeepsTables
<1>2. CASE LockStockOfKey(r)
  <2>1. PICK s \in Stocks : RowsOfKey(Key(r)) = {s} /\ HoldStock(r, s, stock[s])
    BY <1>2 DEF LockStockOfKey
  <2>2. stock[s].exists /\ stock[s] \in Ledger!StockRow
    BY <1>0, <2>1, RowFields DEF RowsOfKey
  <2>3. target[r] = NoStock
    BY <1>0, <1>2, AcceptedFacts DEF LockStockOfKey, Searches, StageHolds
  <2> QED BY <2>1, <2>2, <2>3, HoldKeepsTables
<1>3. CASE AmbiguousStock(r)
  BY <1>0, <1>3, EndKeepsTables DEF AmbiguousStock, rows, RowsInBounds
<1>4. CASE FindNoStock(r) \/ DuplicateKey(r)
  <2>1. /\ items' = items /\ stock' = stock /\ readItem' = readItem /\ target' = target
        /\ readStock' = readStock /\ complete' = complete
    BY <1>4 DEF FindNoStock, DuplicateKey, GoTo, session, rows
  <2>2. \A q \in Requests : Inserts(q)' => Inserts(q) /\ Key(q)' = Key(q)
    BY <2>1 DEF Inserts, Key
  <2>3. ReadTypes' /\ RowsInBounds'
    BY <2>1 DEF TableInv, ReadTypes, RowsInBounds
  <2> QED BY <2>1, <2>2, <2>3, PlacesUndisturbed DEF TableInv
<1>5. CASE InsertStock(r)
  <2>1. /\ pc[r] = "insert" /\ ~Collides(r)
        /\ Key(r) \in Located => Inserting(Key(r)) = {}
    BY <1>5 DEF InsertStock, Receives
  <2>2. PICK s \in Stocks : ~stock[s].exists /\ HoldStock(r, s, NewRow(Key(r)))
    BY <1>5 DEF InsertStock, NewRow
  <2>3. KnowsItem(r) /\ target[r] = NoStock
    BY <1>0, <2>1 DEF StageHolds
  <2>4. Key(r) \in Keys
    BY <1>0, <2>3, AskTypes, RowFields DEF KnowsItem, Key
  <2>5. NewRow(Key(r)) \in Ledger!StockRow
    BY <2>4 DEF NewRow, Ledger!StockRow
  <2>6. Key(r) \in Located => RowsOfKey(Key(r)) = {}
    BY <2>1 DEF Collides
  <2> QED BY <2>1, <2>2, <2>3, <2>5, <2>6, HoldKeepsTables
<1> QED BY <1>1, <1>2, <1>3, <1>4, <1>5 DEF FindStock

\* The stock row of a receipt is committed: one that was inserted is the only
\* one of its place, another one keeps its key.
LEMMA CommitKeepsTables ==
    ASSUME ReceiptInv, TableInv, NEW r \in Requests, CommitReceipt(r)
    PROVE  TableInv'
<1> DEFINE i == Item(r)
           s == target[r]
           n == Amount(r)
           row == Ledger!RowFor(i, s)
<1>0. RowTypes /\ Exclusive /\ StageHolds(r) /\ pc[r] = "checked" /\ ask[r].kind = "receive"
  BY DEF ReceiptInv, StagesHold, CommitReceipt, Receives
<1>1. /\ i \in Items /\ s \in Stocks /\ s \in held[r] /\ n \in 1..items[i].quantity
      /\ Ledger!Receive(i, s, n)
  BY CommitIsReceive
<1>2. KnowsItem(r) /\ Key(r) = items[i].key
  BY <1>0 DEF StageHolds, KnowsItem, Key
<1>3. s # NoStock /\ End(r, "done")
  BY <1>1, RowsAssumption DEF CommitReceipt
<1> HIDE DEF i, s, n, row
<1>4. row \in Ledger!StockRow /\ row.exists /\ row.key = IF stock[s].exists THEN stock[s].key
                                                          ELSE items[i].key
  BY <1>0, <1>1, RowFields DEF row, Ledger!RowFor, Ledger!StockRow
<1>5. n \in Nat /\ stock' = [stock EXCEPT ![s] = [row EXCEPT !.quantity = @ + n]]
  BY <1>0, <1>1, RowFields DEF Ledger!Receive, Ledger!Stocked, row
<1>6. /\ stock'[s].exists /\ stock'[s].key = row.key
      /\ stock'[s].reserved <= stock'[s].quantity
      /\ \A t \in Stocks \ {s} : stock'[t] = stock[t]
  <2>1. row.reserved <= row.quantity
    BY <1>1 DEF row, Ledger!RowFor, TableInv, RowsInBounds
  <2>2. stock'[s] = [row EXCEPT !.quantity = @ + n] /\ \A t \in Stocks \ {s} : stock'[t] = stock[t]
    BY <1>0, <1>1, <1>5 DEF RowTypes
  <2>3. row.quantity \in Nat /\ row.reserved \in Nat
    BY <1>4 DEF Ledger!StockRow
  <2> DEFINE after == [row EXCEPT !.quantity = @ + n]
  <2>4. /\ after.exists = row.exists /\ after.key = row.key
        /\ after.reserved = row.reserved /\ after.quantity = row.quantity + n
    BY <1>4 DEF Ledger!StockRow
  <2>5. stock'[s] = after
    BY <2>2
  <2> HIDE DEF after
  <2>6. stock'[s].reserved = row.reserved /\ stock'[s].quantity = row.quantity + n
    BY <2>4, <2>5
  <2>7. stock'[s].reserved <= stock'[s].quantity
    BY <1>5, <2>1, <2>3, <2>6
  <2>8. stock'[s].exists /\ stock'[s].key = row.key
    BY <1>4, <2>4, <2>5
  <2> QED BY <2>2, <2>7, <2>8
<1>7. RowsInBounds'
  <2>1. \A j \in Items : items'[j].received <= items'[j].quantity
    BY <1>0, <1>1, <1>5, RowFields DEF Ledger!Receive, Ledger!Received, TableInv, RowsInBounds,
       RowTypes, Ledger!ItemRow
  <2> QED BY <1>6, <2>1 DEF TableInv, RowsInBounds
<1>8. ReadTypes'
  BY <1>3 DEF TableInv, ReadTypes, End
<1>9. /\ target' = [target EXCEPT ![r] = NoStock]
      /\ \A q \in Requests \ {r} : Key(q)' = Key(q) /\ target'[q] = target[q]
  BY <1>0, <1>3 DEF End, Key, RowTypes, TableInv, ReadTypes
<1>10. ~stock[s].exists => Inserts(r) /\ row.key = Key(r)
  BY <1>2, <1>3, <1>4 DEF Inserts, s
<1>11. OneRowPerPlace'
  <2>1. ASSUME NEW t \in Stocks \ {s}, stock[t].exists, stock[t].key = row.key,
               row.key \in Located
        PROVE  FALSE
    <3>1. CASE stock[s].exists
      BY <1>1, <1>4, <2>1, <3>1 DEF TableInv, OneRowPerPlace
    <3>2. CASE ~stock[s].exists
      <4>1. RowsOfKey(Key(r)) = {}
        BY <1>10, <2>1, <3>2 DEF TableInv, PlacesReserved
      <4> QED BY <1>10, <2>1, <3>2, <4>1 DEF RowsOfKey
    <3> QED BY <3>1, <3>2
  <2> QED BY <1>6, <2>1 DEF TableInv, OneRowPerPlace
<1>12. \A q \in Requests \ {r} : s # target[q] \/ target[q] = NoStock
  <2> SUFFICES ASSUME NEW q \in Requests \ {r}, target[q] # NoStock PROVE target[q] \in held[q]
    BY <1>0, <1>1 DEF Exclusive
  <2>1. StageHolds(q) /\ pc[q] \in Stages
    BY <1>0 DEF ReceiptInv, StagesHold, RowTypes
  <2> QED BY <2>1 DEF StageHolds, Idle, KnowsStock, Stages
<1>13. \A q \in Requests : Inserts(q)' <=> q # r /\ Inserts(q)
  BY <1>0, <1>3, <1>6, <1>9, <1>12 DEF Inserts, RowTypes
<1>14. PlacesReserved'
  <2> SUFFICES ASSUME NEW q \in Requests, Inserts(q)', Key(q)' \in Located
               PROVE  RowsOfKey(Key(q))' = {} /\ Inserting(Key(q))' = {q}
    BY DEF PlacesReserved
  <2>1. q # r /\ Inserts(q) /\ Key(q)' = Key(q)
    BY <1>9, <1>13
  <2>2. RowsOfKey(Key(q)) = {} /\ Inserting(Key(q)) = {q}
    BY <2>1 DEF TableInv, PlacesReserved
  <2>3. row.key # Key(q)
    <3>1. CASE stock[s].exists
      BY <1>1, <1>4, <2>2, <3>1 DEF RowsOfKey
    <3>2. CASE ~stock[s].exists
      BY <1>10, <2>1, <2>2, <3>2, InsertingDef
    <3> QED BY <3>1, <3>2
  <2>4. RowsOfKey(Key(q))' = {}
    BY <1>6, <2>1, <2>2, <2>3 DEF RowsOfKey
  <2>5. Inserting(Key(q))' = {p \in Requests : Inserts(p)' /\ Key(p)' = Key(q)'}
    BY DEF Inserting, Inserts
  <2> QED BY <1>9, <1>13, <2>1, <2>2, <2>4, <2>5, InsertingDef
<1> QED BY <1>7, <1>8, <1>11, <1>14 DEF TableInv

\* A form of a stock row is refused when its place is taken or being taken.
LEMMA SaveStockKeepsTables ==
    ASSUME ReceiptInv, TableInv, NEW r \in Requests, NEW s \in Stocks, SaveStock(r, s)
    PROVE  TableInv'
<1> DEFINE form == ask[r].form
<1>0. RowTypes /\ Exclusive /\ StageHolds(r)
  BY DEF ReceiptInv, StagesHold
<1>1. /\ ask[r].kind = "stock" /\ End(r, "done") /\ items' = items
      /\ stock' = [stock EXCEPT ![s] = form] /\ Free(r, s)
      /\ form.reserved <= form.quantity
      /\ form.key \in Located => RowsOfKey(form.key) \subseteq {s} /\ Inserting(form.key) = {}
  BY DEF SaveStock, Posts, StockFormValid
<1>2. form \in Ledger!StockRow /\ form.exists
  BY <1>0, <1>1, AskTypes, RowsAssumption
<1> HIDE DEF form
<1>3. stock'[s] = form /\ \A t \in Stocks \ {s} : stock'[t] = stock[t]
  BY <1>0, <1>1 DEF RowTypes
<1>4. RowsInBounds'
  BY <1>1, <1>3 DEF TableInv, RowsInBounds
<1>5. ReadTypes'
  BY <1>1 DEF TableInv, ReadTypes, End
<1>6. OneRowPerPlace'
  BY <1>1, <1>3 DEF TableInv, OneRowPerPlace, RowsOfKey
<1>7. target' = [target EXCEPT ![r] = NoStock]
        /\ \A q \in Requests \ {r} : Key(q)' = Key(q) /\ target'[q] = target[q]
  BY <1>0, <1>1 DEF End, Key, RowTypes, TableInv, ReadTypes
<1>8. \A q \in Requests \ {r} : target[q] # s
  <2> SUFFICES ASSUME NEW q \in Requests \ {r}, target[q] = s PROVE target[q] \in held[q]
    BY <1>1 DEF Free
  <2>1. StageHolds(q) /\ pc[q] \in Stages /\ s # NoStock
    BY <1>0, RowsAssumption DEF ReceiptInv, StagesHold, RowTypes
  <2> QED BY <2>1 DEF StageHolds, Idle, KnowsStock, Stages
<1>9. target[r] = NoStock
  BY <1>0, <1>1 DEF StageHolds, Idle, SaveStock, Posts
<1>10. \A q \in Requests : Inserts(q)' <=> Inserts(q) /\ q # r
  BY <1>0, <1>3, <1>7, <1>8, <1>9 DEF Inserts, RowTypes
<1>11. PlacesReserved'
  <2> SUFFICES ASSUME NEW q \in Requests, Inserts(q)', Key(q)' \in Located
               PROVE  RowsOfKey(Key(q))' = {} /\ Inserting(Key(q))' = {q}
    BY DEF PlacesReserved
  <2>1. q # r /\ Inserts(q) /\ Key(q)' = Key(q)
    BY <1>7, <1>10
  <2>2. RowsOfKey(Key(q)) = {} /\ Inserting(Key(q)) = {q}
    BY <2>1 DEF TableInv, PlacesReserved
  <2>3. form.key # Key(q)
    BY <1>1, <2>1, <2>2
  <2>4. RowsOfKey(Key(q))' = {}
    BY <1>3, <2>1, <2>2, <2>3 DEF RowsOfKey
  <2>5. Inserting(Key(q))' = {p \in Requests : Inserts(p)' /\ Key(p)' = Key(q)'}
    BY DEF Inserting, Inserts
  <2>6. Inserting(Key(q)) = {p \in Requests : Inserts(p) /\ Key(p) = Key(q)}
    BY InsertingDef
  <2>7. q \in Inserting(Key(q))'
    BY <2>1, <1>10, <2>5
  <2>8. ASSUME NEW p \in Inserting(Key(q))' PROVE p = q
    BY <1>7, <1>10, <2>1, <2>2, <2>5, <2>6, <2>8
  <2> QED BY <2>4, <2>7, <2>8
<1> QED BY <1>4, <1>5, <1>6, <1>11 DEF TableInv

\* The remaining steps change no stock row.
LEMMA OtherStepsKeepTables ==
    ASSUME ReceiptInv, TableInv, NEW r \in Requests,
           LockItem(r) \/ RefuseReceipt(r) \/ CheckOrder(r) \/ SaveItem(r)
             \/ SaveOrder(r) \/ RefuseForm(r)
    PROVE  TableInv'
<1>0. RowTypes /\ StageHolds(r) /\ RowsInBounds
  BY DEF ReceiptInv, StagesHold, TableInv
<1>1. CASE LockItem(r)
  <2>1. /\ items' = items /\ stock' = stock /\ readStock' = readStock /\ target' = target
        /\ complete' = complete /\ readItem' = [readItem EXCEPT ![r] = items[Item(r)]]
        /\ ask[r].kind = "receive" /\ pc[r] = "asked"
    BY <1>1 DEF LockItem, rows, Receives
  <2>2. items[Item(r)] \in Ledger!ItemRow
    BY <1>0, <2>1, AskTypes DEF RowTypes
  <2>3. ReadTypes' /\ RowsInBounds'
    BY <2>1, <2>2 DEF TableInv, ReadTypes, RowsInBounds
  <2>4. target[r] = NoStock
    BY <1>0, <2>1 DEF StageHolds, Idle
  <2>5. \A q \in Requests : Inserts(q)' => Inserts(q) /\ Key(q)' = Key(q)
    BY <2>1, <2>4 DEF Inserts, Key, TableInv, ReadTypes
  <2> QED BY <2>1, <2>3, <2>5, PlacesUndisturbed DEF TableInv
<1>2. CASE RefuseReceipt(r) \/ RefuseForm(r)
  BY <1>0, <1>2, EndKeepsTables DEF RefuseReceipt, RefuseForm, rows, RowsInBounds
<1>3. CASE CheckOrder(r)
  <2>1. /\ items' = items /\ stock' = stock /\ readItem' = readItem /\ target' = target
        /\ readStock' = readStock /\ complete' = [complete EXCEPT ![r] = CompletesOrder(r)]
    BY <1>3 DEF CheckOrder, rows
  <2>2. CompletesOrder(r) \in BOOLEAN
    BY DEF CompletesOrder
  <2>3. ReadTypes' /\ RowsInBounds'
    BY <2>1, <2>2 DEF TableInv, ReadTypes, RowsInBounds
  <2>4. \A q \in Requests : Inserts(q)' => Inserts(q) /\ Key(q)' = Key(q)
    BY <2>1 DEF Inserts, Key
  <2> QED BY <2>1, <2>3, <2>4, PlacesUndisturbed DEF TableInv
<1>4. CASE SaveItem(r)
  <2>1. /\ End(r, "done") /\ stock' = stock /\ ask[r].form.received <= ask[r].form.quantity
        /\ items' = [items EXCEPT ![Item(r)] = ask[r].form]
    BY <1>4 DEF SaveItem, ItemFormValid
  <2>2. \A i \in Items : items'[i].received <= items'[i].quantity
    BY <1>0, <2>1 DEF RowTypes, RowsInBounds
  <2> QED BY <2>1, <2>2, EndKeepsTables
<1>5. CASE SaveOrder(r)
  BY <1>0, <1>5, EndKeepsTables DEF SaveOrder, RowsInBounds
<1> QED BY <1>1, <1>2, <1>3, <1>4, <1>5

LEMMA TableInvStep == ReceiptInv /\ TableInv /\ [Next]_vars => TableInv'
<1> SUFFICES ASSUME ReceiptInv, TableInv, [Next]_vars PROVE TableInv'
  OBVIOUS
<1>1. ASSUME NEW r \in Requests, Step(r) PROVE TableInv'
  BY <1>1, FindStockKeepsTables, CommitKeepsTables, SaveStockKeepsTables,
     OtherStepsKeepTables DEF Step, Receipt, Form
<1>2. CASE UNCHANGED vars
  <2>1. /\ items' = items /\ stock' = stock /\ readItem' = readItem /\ target' = target
        /\ readStock' = readStock /\ complete' = complete
    BY <1>2 DEF vars, rows, session
  <2>2. \A q \in Requests : Inserts(q)' => Inserts(q) /\ Key(q)' = Key(q)
    BY <2>1 DEF Inserts, Key
  <2>3. ReadTypes' /\ RowsInBounds'
    BY <2>1 DEF TableInv, ReadTypes, RowsInBounds
  <2> QED BY <2>1, <2>2, <2>3, PlacesUndisturbed DEF TableInv
<1> QED BY <1>1, <1>2 DEF Next

\* The constraints of the tables hold although receipts decide on rows they
\* insert and have not committed, and forms post whole rows: nobody receives
\* more than was ordered or reserves more than there is, and a place has one
\* stock row whoever creates it.
THEOREM TablesWellFormed == Spec => []TypeOK
<1>1. ReceiptInv /\ TableInv => TypeOK
  BY TableInvIsTypeOK
<1> QED
  BY <1>1, ReceiptInvInit, ReceiptInvStep, TableInvInit, TableInvStep, PTL DEF Spec
-----------------------------------------------------------------------------
(***************************************************************************)
(* Every receipt is counted once by the stock and by its item.             *)
(***************************************************************************)

\* What movement n of a ledger took in for item i.
Taken(i, movements, n) ==
    IF movements[n].item = i THEN movements[n].new - movements[n].old ELSE 0

\* The terms of the sums ReceivedAt(i, s) and ReceivedMovements(i).
Part(i, movements) == [n \in 1..Len(movements) |-> Taken(i, movements, n)]
From(i, books) == [s \in Stocks |-> Total(Part(i, books[s]), 1..Len(books[s]))]

LEMMA ReceivedAtIsTotal ==
    ASSUME NEW i, NEW s
    PROVE  ReceivedAt(i, s) = Total(Part(i, ledger[s]), 1..Len(ledger[s]))
<1> DEFINE S == 1..Len(ledger[s])
           f == Part(i, ledger[s])
<1>1. ASSUME NEW iter
      PROVE  [t \in SUBSET S |-> IF t = {} THEN 0
                 ELSE Taken(i, ledger[s], Pick(t)) + iter[t \ {Pick(t)}]]
             = [t \in SUBSET S |-> Unfold(f, iter, t)]
  <2>1. \A t \in SUBSET S : t # {} => f[Pick(t)] = Taken(i, ledger[s], Pick(t))
    BY PickInSet DEF Part
  <2> HIDE DEF f, S
  <2> QED BY <2>1 DEF Unfold
<1>2. ReceivedAt(i, s) = (CHOOSE iter : iter =
                 [t \in SUBSET S |-> IF t = {} THEN 0
                 ELSE Taken(i, ledger[s], Pick(t)) + iter[t \ {Pick(t)}]])[S]
  BY DEF ReceivedAt, MapThenSumSet, MapThenFoldSet, Pick, Taken
<1> HIDE DEF f, S
<1>3. (CHOOSE iter : iter =
                 [t \in SUBSET S |-> IF t = {} THEN 0
                 ELSE Taken(i, ledger[s], Pick(t)) + iter[t \ {Pick(t)}]]) = Iter(f, S)
  BY <1>1, Zenon DEF Iter, Solves
<1> QED BY <1>2, <1>3, TotalIsIter DEF f, S

LEMMA MovementsAreTotal ==
    ASSUME NEW i
    PROVE  ReceivedMovements(i) = Total(From(i, ledger), Stocks)
<1>1. ASSUME NEW iter
      PROVE  [t \in SUBSET Stocks |-> IF t = {} THEN 0
                 ELSE ReceivedAt(i, Pick(t)) + iter[t \ {Pick(t)}]]
             = [t \in SUBSET Stocks |-> Unfold(From(i, ledger), iter, t)]
  <2>1. \A t \in SUBSET Stocks : t # {} => From(i, ledger)[Pick(t)] = ReceivedAt(i, Pick(t))
    BY PickInSet, ReceivedAtIsTotal DEF From
  <2> QED BY <2>1 DEF Unfold
<1>2. ReceivedMovements(i) = (CHOOSE iter : iter =
                 [t \in SUBSET Stocks |-> IF t = {} THEN 0
                 ELSE ReceivedAt(i, Pick(t)) + iter[t \ {Pick(t)}]])[Stocks]
  BY DEF ReceivedMovements, MapThenSumSet, MapThenFoldSet, Pick
<1>3. (CHOOSE iter : iter =
                 [t \in SUBSET Stocks |-> IF t = {} THEN 0
                 ELSE ReceivedAt(i, Pick(t)) + iter[t \ {Pick(t)}]]) = Iter(From(i, ledger), Stocks)
  BY <1>1, Zenon DEF Iter, Solves
<1> QED BY <1>2, <1>3, TotalIsIter

LEMMA PartType ==
    ASSUME NEW i \in Items, NEW movements \in Seq(Ledger!Movement)
    PROVE  /\ IsFiniteSet(1..Len(movements))
           /\ \A n \in 1..Len(movements) : Part(i, movements)[n] \in Int
           /\ Total(Part(i, movements), 1..Len(movements)) \in Int
<1>1. IsFiniteSet(1..Len(movements))
  BY FS_Interval
<1>2. \A n \in 1..Len(movements) : Part(i, movements)[n] \in Int
  <2> TAKE n \in 1..Len(movements)
  <2>1. movements[n] \in Ledger!Movement
    OBVIOUS
  <2>2. movements[n].new \in Nat /\ movements[n].old \in Nat
    BY <2>1 DEF Ledger!Movement
  <2> QED BY <2>2 DEF Part, Taken
<1> QED BY <1>1, <1>2, TotalType

\* A ledger that grows by one movement counts what the movement took in.
LEMMA AppendCounts ==
    ASSUME NEW i \in Items, NEW movements \in Seq(Ledger!Movement),
           NEW move \in Ledger!Movement
    PROVE  Total(Part(i, Append(movements, move)), 1..Len(Append(movements, move))) =
           Total(Part(i, movements), 1..Len(movements))
             + (IF move.item = i THEN move.new - move.old ELSE 0)
<1> DEFINE longer == Append(movements, move)
           L == Len(movements)
           f == Part(i, longer)
<1>1. /\ longer \in Seq(Ledger!Movement) /\ L \in Nat /\ Len(longer) = L + 1
      /\ longer[L + 1] = move /\ \A n \in 1..L : longer[n] = movements[n]
  OBVIOUS
<1> HIDE DEF longer
<1>2. \A n \in 1..L : f[n] = Part(i, movements)[n]
  BY <1>1 DEF Part, Taken
<1>3. f[L + 1] = IF move.item = i THEN move.new - move.old ELSE 0
  BY <1>1 DEF Part, Taken
<1>4. Total(f, 1..L + 1) = f[L + 1] + Total(f, (1..L + 1) \ {L + 1})
  <2>1. IsFiniteSet(1..L + 1) /\ \A n \in 1..L + 1 : f[n] \in Int
    BY <1>1, PartType
  <2>2. L + 1 \in 1..L + 1
    BY <1>1
  <2> HIDE DEF f, L
  <2> QED BY <2>1, <2>2, TotalRemove
<1>5. (1..L + 1) \ {L + 1} = 1..L
  BY <1>1
<1>6. Total(f, 1..L) = Total(Part(i, movements), 1..L)
  BY <1>2, TotalCongruence
<1>7. f[L + 1] \in Int /\ Total(Part(i, movements), 1..L) \in Int
  <2>1. move.new \in Nat /\ move.old \in Nat
    BY DEF Ledger!Movement
  <2> QED BY <1>3, <2>1, PartType
<1>8. Total(f, 1..L + 1) = Total(Part(i, movements), 1..L) + f[L + 1]
  <2>1. Total(f, 1..L + 1) = f[L + 1] + Total(Part(i, movements), 1..L)
    BY <1>4, <1>5, <1>6, Zenon
  <2> QED BY <1>7, <2>1
<1> QED BY <1>1, <1>3, <1>8 DEF longer

\* A recorded movement adds what it took in to the sum of its item only.
LEMMA RecordedCounts ==
    ASSUME RowTypes, NEW s \in Stocks, NEW new \in Nat, NEW item \in Items \cup {NoItem},
           ledger' = Ledger!Recorded(s, new, item), NEW i \in Items
    PROVE  /\ Total(From(i, ledger), Stocks) \in Int
           /\ Total(From(i, ledger'), Stocks) =
                Total(From(i, ledger), Stocks) + (IF item = i THEN new - Ledger!Stored(s) ELSE 0)
<1> DEFINE move == [old |-> Ledger!Stored(s), new |-> new, item |-> item]
           f == From(i, ledger)
           g == From(i, ledger')
<1>1. Ledger!Stored(s) \in Nat /\ ledger \in [Stocks -> Seq(Ledger!Movement)]
  BY RowFields DEF Ledger!Stored, RowTypes
<1>2. move \in Ledger!Movement
  BY <1>1 DEF Ledger!Movement
<1>3. ledger' \in [Stocks -> Seq(Ledger!Movement)] /\ ledger'[s] = Append(ledger[s], move)
        /\ \A t \in Stocks \ {s} : ledger'[t] = ledger[t]
  BY <1>1, <1>2 DEF Ledger!Recorded
<1>4. move.item = item /\ move.new = new /\ move.old = Ledger!Stored(s)
  OBVIOUS
<1> HIDE DEF move
<1>5. \A t \in Stocks : f[t] \in Int /\ g[t] \in Int
  <2> TAKE t \in Stocks
  <2>1. ledger[t] \in Seq(Ledger!Movement) /\ ledger'[t] \in Seq(Ledger!Movement)
    BY <1>1, <1>3
  <2> QED BY <2>1, PartType DEF From
<1>6. \A t \in Stocks \ {s} : f[t] = g[t]
  BY <1>3 DEF From
<1>7. g[s] = f[s] + (IF item = i THEN new - Ledger!Stored(s) ELSE 0)
  <2>1. ledger[s] \in Seq(Ledger!Movement)
    BY <1>1
  <2>2. Total(Part(i, Append(ledger[s], move)), 1..Len(Append(ledger[s], move))) =
          Total(Part(i, ledger[s]), 1..Len(ledger[s]))
            + (IF move.item = i THEN move.new - move.old ELSE 0)
    BY <1>2, <2>1, AppendCounts
  <2>3. /\ f[s] = Total(Part(i, ledger[s]), 1..Len(ledger[s]))
        /\ g[s] = Total(Part(i, ledger'[s]), 1..Len(ledger'[s]))
    BY DEF From
  <2> HIDE DEF f, g
  <2> QED BY <1>3, <1>4, <2>2, <2>3
<1> HIDE DEF f, g
<1>8. Total(g, Stocks) = Total(f, Stocks) + (g[s] - f[s])
  BY <1>5, <1>6, RowsAssumption, TotalChange
<1>9. Total(f, Stocks) \in Int
  BY <1>5, RowsAssumption, TotalType
<1>10. Total(g, Stocks) = Total(f, Stocks) + (IF item = i THEN new - Ledger!Stored(s) ELSE 0)
  BY <1>1, <1>5, <1>7, <1>8, <1>9
<1> QED BY <1>9, <1>10 DEF f, g

\* The opening rows are the same for all items: the strengthening of
\* ItemsAddUp that every step keeps.
AddUpInv == \E opening \in Opening :
    /\ opening.items \in [Items -> Ledger!ItemRow]
    /\ \A i \in Items : ~EditedItem(i) =>
         items[i].received = opening.items[i].received + Total(From(i, ledger), Stocks)

LEMMA AddUpInit == Init => AddUpInv
<1> SUFFICES ASSUME Init PROVE AddUpInv
  OBVIOUS
<1>1. PICK opening \in Opening : items = opening.items
  BY DEF Init
<1>2. items \in [Items -> Ledger!ItemRow] /\ ledger = [s \in Stocks |-> <<>>]
  BY DEF Init, Ledger!Init
<1>3. ASSUME NEW i \in Items PROVE Total(From(i, ledger), Stocks) = 0
  <2>1. \A s \in Stocks : From(i, ledger)[s] = 0
    <3> TAKE s \in Stocks
    <3>1. 1..Len(ledger[s]) = {}
      BY <1>2
    <3>2. Total(Part(i, ledger[s]), {}) = 0
      BY TotalUnfolds, FS_EmptySet
    <3> QED BY <3>1, <3>2 DEF From
  <2> DEFINE f == From(i, ledger)
  <2> HIDE DEF f
  <2>2. \A s \in Stocks : f[s] = 0
    BY <2>1 DEF f
  <2>3. Total(f, Stocks) = 0
    BY <2>2, RowsAssumption, TotalOfZeros
  <2> QED BY <2>3 DEF f
<1>4. \A i \in Items : items[i].received \in Nat
  BY <1>2 DEF Ledger!ItemRow
<1> QED BY <1>1, <1>2, <1>3, <1>4 DEF AddUpInv

LEMMA AskKept == [Next]_vars => ask' = ask
<1>1. ASSUME NEW r \in Requests, FindStock(r) PROVE ask' = ask
  BY <1>1 DEF FindStock, LockNamedStock, LockStockOfKey, AmbiguousStock, FindNoStock, End,
     HoldStock, GoTo
<1>2. ASSUME NEW r \in Requests, Receipt(r) PROVE ask' = ask
  BY <1>1, <1>2 DEF Receipt, LockItem, RefuseReceipt, InsertStock, DuplicateKey, CheckOrder,
     CommitReceipt, End, HoldStock, GoTo
<1>3. ASSUME NEW r \in Requests, Form(r) PROVE ask' = ask
  BY <1>3 DEF Form, SaveItem, SaveStock, SaveOrder, RefuseForm, End
<1> QED BY <1>2, <1>3 DEF Next, Step, vars

LEMMA AddUpStep == ReceiptInv /\ AddUpInv /\ [Next]_vars => AddUpInv'
<1> SUFFICES ASSUME ReceiptInv, AddUpInv, [Next]_vars PROVE AddUpInv'
  OBVIOUS
<1>0. RowTypes
  BY DEF ReceiptInv
<1>1. PICK opening \in Opening :
        /\ opening.items \in [Items -> Ledger!ItemRow]
        /\ \A i \in Items : ~EditedItem(i) =>
             items[i].received = opening.items[i].received + Total(From(i, ledger), Stocks)
  BY DEF AddUpInv
<1>2. \A i \in Items : opening.items[i].received \in Nat /\ items[i].received \in Nat
  BY <1>0, <1>1, RowFields DEF Ledger!ItemRow
<1>3. ask' = ask /\ \A i \in Items : EditedItem(i)' <=> EditedItem(i)
  <2>1. ask' = ask
    BY AskKept
  <2> QED BY <2>1 DEF EditedItem
<1>4. SUFFICES \A i \in Items : ~EditedItem(i) =>
         items'[i].received = opening.items[i].received + Total(From(i, ledger'), Stocks)
  BY <1>1, <1>3 DEF AddUpInv
<1>5. ASSUME NEW r \in Requests, CommitReceipt(r)
      PROVE  \A i \in Items : ~EditedItem(i) =>
         items'[i].received = opening.items[i].received + Total(From(i, ledger'), Stocks)
  <2>1. PICK j \in Items, s \in Stocks : \E n \in 1..items[j].quantity : Ledger!Receive(j, s, n)
    BY <1>5, CommitIsReceive
  <2>2. PICK n \in 1..items[j].quantity : Ledger!Receive(j, s, n)
    BY <2>1
  <2>3. n \in Nat /\ Ledger!Stored(s) \in Nat
    BY <1>0, RowFields DEF Ledger!Stored
  <2>4. ledger' = Ledger!Recorded(s, Ledger!Stored(s) + n, j)
          /\ items' = Ledger!Received(j, s, n)
    BY <2>2 DEF Ledger!Receive
  <2>5. ASSUME NEW i \in Items
        PROVE  items'[i].received = items[i].received + (IF i = j THEN n ELSE 0)
    <3>1. items[i] \in Ledger!ItemRow /\ items[i].received \in Nat
      BY <1>0, RowFields DEF RowTypes
    <3> QED BY <1>0, <2>3, <2>4, <3>1 DEF Ledger!Received, RowTypes, Ledger!ItemRow
  <2>6. ASSUME NEW i \in Items
        PROVE  /\ Total(From(i, ledger), Stocks) \in Int
               /\ Total(From(i, ledger'), Stocks) =
                    Total(From(i, ledger), Stocks) + (IF i = j THEN n ELSE 0)
    <3>1. Ledger!Stored(s) + n \in Nat /\ (Ledger!Stored(s) + n) - Ledger!Stored(s) = n
      BY <2>3
    <3>2. /\ Total(From(i, ledger), Stocks) \in Int
          /\ Total(From(i, ledger'), Stocks) = Total(From(i, ledger), Stocks)
               + (IF j = i THEN (Ledger!Stored(s) + n) - Ledger!Stored(s) ELSE 0)
      BY <1>0, <2>4, <3>1, RecordedCounts
    <3> QED BY <3>1, <3>2
  <2> TAKE i \in Items
  <2> HAVE ~EditedItem(i)
  <2> DEFINE before == Total(From(i, ledger), Stocks)
             after == Total(From(i, ledger'), Stocks)
             step == IF i = j THEN n ELSE 0
  <2>7. items[i].received = opening.items[i].received + before /\ before \in Int
          /\ after = before + step /\ items'[i].received = items[i].received + step
          /\ step \in Int
    BY <1>1, <2>3, <2>5, <2>6
  <2> HIDE DEF before, after, step
  <2>8. items'[i].received = opening.items[i].received + after
    BY <1>2, <2>7
  <2> QED BY <2>8 DEF after
<1>6. ASSUME NEW r \in Requests, NEW s \in Stocks, SaveStock(r, s)
      PROVE  \A i \in Items : ~EditedItem(i) =>
         items'[i].received = opening.items[i].received + Total(From(i, ledger'), Stocks)
  <2>1. /\ items' = items /\ ledger' = Ledger!Recorded(s, ask[r].form.quantity, NoItem)
        /\ ask[r].form \in Ledger!StockRow
    BY <1>0, <1>6, AskTypes, RowsAssumption DEF SaveStock, Posts
  <2>2. ask[r].form.quantity \in Nat
    BY <2>1 DEF Ledger!StockRow
  <2>3. ASSUME NEW i \in Items
        PROVE  Total(From(i, ledger'), Stocks) = Total(From(i, ledger), Stocks)
    BY <1>0, <2>1, <2>2, RecordedCounts, RowsAssumption
  <2> QED BY <1>1, <2>1, <2>3
<1>7. ASSUME NEW r \in Requests, SaveItem(r)
      PROVE  \A i \in Items : ~EditedItem(i) =>
         items'[i].received = opening.items[i].received + Total(From(i, ledger'), Stocks)
  <2>1. ask[r].kind = "item" /\ ledger' = ledger
          /\ items' = [items EXCEPT ![Item(r)] = ask[r].form]
    BY <1>7 DEF SaveItem, Posts
  <2>2. EditedItem(Item(r))
    BY <2>1 DEF EditedItem, Item
  <2>3. \A i \in Items : ~EditedItem(i) => items'[i] = items[i]
    BY <1>0, <2>1, <2>2 DEF RowTypes
  <2> QED BY <1>1, <2>1, <2>3
<1>8. CASE items' = items /\ ledger' = ledger
  BY <1>1, <1>8
<1> QED
  <2>1. ASSUME NEW r \in Requests, Step(r), ~CommitReceipt(r), ~SaveItem(r),
               \A s \in Stocks : ~SaveStock(r, s)
        PROVE  items' = items /\ ledger' = ledger
    BY <2>1 DEF Step, Receipt, Form, LockItem, RefuseReceipt, FindStock, LockNamedStock,
       LockStockOfKey, AmbiguousStock, FindNoStock, InsertStock, DuplicateKey, CheckOrder,
       SaveOrder, RefuseForm, HoldStock, GoTo, rows
  <2>2. UNCHANGED vars => items' = items /\ ledger' = ledger
    BY DEF vars, rows
  <2> QED BY <1>5, <1>6, <1>7, <1>8, <2>1, <2>2 DEF Next

\* No form changes order o or its items.
Unedited(o) ==
    /\ ~\E r \in Requests : ask[r].kind = "order" /\ ask[r].order = o
    /\ ~\E i \in Items : OrderOf[i] = o /\ EditedItem(i)

NothingOpen(o) == \A i \in ItemsOf(o) : Open(items[i]) = 0

\* What r has found of the order is still so, because nothing that was found
\* complete can be received again.
FoundComplete(r) ==
    /\ Amount(r) = Open(readItem[r])
    /\ \A i \in ItemsOf(OrderOf[Item(r)]) \ {Item(r)} : Open(items[i]) = 0

CompleteInv ==
    /\ \A o \in Orders : status[o] = "received" /\ Unedited(o) => NothingOpen(o)
    /\ \A r \in Requests :
         Receives(r, "checked") /\ complete[r] /\ Unedited(OrderOf[Item(r)]) =>
             FoundComplete(r)

LEMMA UneditedKept ==
    ASSUME ask' = ask, NEW o
    PROVE  Unedited(o)' <=> Unedited(o)
BY DEF Unedited, EditedItem

\* A step of r that leaves the items and the orders alone, and is not the
\* check of the order.
LEMMA OrdersUndisturbed ==
    ASSUME CompleteInv, NEW r \in Requests, ask' = ask, items' = items, status' = status,
           Receives(r, "checked")' => FALSE,
           \A q \in Requests \ {r} : /\ pc'[q] = pc[q] /\ complete'[q] = complete[q]
                                     /\ readItem'[q] = readItem[q]
    PROVE  CompleteInv'
<1>1. \A o : NothingOpen(o)' <=> NothingOpen(o)
  BY DEF NothingOpen, ItemsOf
<1>2. ASSUME NEW q \in Requests \ {r}
      PROVE  /\ Receives(q, "checked")' <=> Receives(q, "checked")
             /\ FoundComplete(q)' <=> FoundComplete(q)
             /\ complete'[q] = complete[q] /\ Item(q)' = Item(q)
  BY DEF Receives, FoundComplete, Amount, Open, Item, ItemsOf
<1> QED BY <1>1, <1>2, UneditedKept DEF CompleteInv

LEMMA CheckKeepsOrders ==
    ASSUME ReceiptInv, CompleteInv, NEW r \in Requests, CheckOrder(r)
    PROVE  CompleteInv'
<1>1. /\ ask' = ask /\ items' = items /\ status' = status /\ readItem' = readItem
      /\ pc' = [pc EXCEPT ![r] = "checked"]
      /\ complete' = [complete EXCEPT ![r] = CompletesOrder(r)]
      /\ DOMAIN complete = Requests /\ pc \in [Requests -> Stages]
  BY DEF CheckOrder, rows, ReceiptInv, RowTypes
<1>2. \A o : NothingOpen(o)' <=> NothingOpen(o)
  BY <1>1 DEF NothingOpen, ItemsOf
<1>3. ASSUME NEW q \in Requests
      PROVE  /\ FoundComplete(q)' <=> FoundComplete(q)
             /\ Item(q)' = Item(q)
  BY <1>1 DEF FoundComplete, Amount, Open, Item, ItemsOf
<1>4. \A q \in Requests \ {r} : /\ Receives(q, "checked")' <=> Receives(q, "checked")
                                /\ complete'[q] = complete[q]
  BY <1>1 DEF Receives
<1>5. complete'[r] => FoundComplete(r)
  BY <1>1 DEF CompletesOrder, FoundComplete
<1> QED BY <1>1, <1>2, <1>3, <1>4, <1>5, UneditedKept DEF CompleteInv

\* The commit of a receipt: its order had something open, so it was not
\* complete, and no other receipt had found it complete but for this item.
LEMMA CommitKeepsOrders ==
    ASSUME ReceiptInv, CompleteInv, NEW r \in Requests, CommitReceipt(r)
    PROVE  CompleteInv'
<1>a. Item(r) \in Items
  BY AskTypes DEF ReceiptInv, CommitReceipt, Receives
<1>b. PICK j \in Items, o \in Orders : j = Item(r) /\ o = OrderOf[j]
  BY <1>a, RowsAssumption
<1>0. RowTypes /\ StageHolds(r) /\ ask[r].kind = "receive" /\ pc[r] = "checked" /\ j \in Items
  BY DEF ReceiptInv, StagesHold, CommitReceipt, Receives
<1>1. KnowsItem(r) /\ AmountFits(r) /\ items[j].exists /\ readItem[r] = items[j]
  BY <1>0, <1>b DEF StageHolds, KnowsItem
<1>2. /\ ask' = ask /\ End(r, "done")
      /\ status' = IF complete[r] THEN [status EXCEPT ![o] = "received"] ELSE status
      /\ items' = [items EXCEPT ![j].received = readItem[r].received + Amount(r),
                                ![j].stock = target[r]]
  BY <1>b DEF CommitReceipt, End, ItemsAfter
<1>3. /\ \A i \in Items \ {j} : items'[i] = items[i]
      /\ items'[j].exists = items[j].exists /\ items'[j].quantity = items[j].quantity
      /\ items'[j].received = items[j].received + Amount(r)
  BY <1>0, <1>1, <1>2 DEF RowTypes, Ledger!ItemRow
<1>4. /\ items[j].quantity \in Nat /\ items[j].received \in Nat
      /\ Amount(r) \in Nat /\ Amount(r) >= 1 /\ Amount(r) <= Open(items[j])
  BY <1>0, <1>1, RowFields DEF AmountFits
<1>5. Open(items[j]) # 0 /\ Open(items'[j]) = Open(items[j]) - Amount(r)
  BY <1>3, <1>4 DEF Open
<1>6. j \in ItemsOf(o) /\ o \in Orders /\ OrderOf[j] = o
  BY <1>0, <1>1, <1>b DEF ItemsOf
<1>7. \A p : ItemsOf(p)' = ItemsOf(p)
  BY <1>0, <1>3 DEF ItemsOf
<1>8. ASSUME NEW p \in Orders, NothingOpen(p)
      PROVE  p # o /\ NothingOpen(p)'
  BY <1>3, <1>5, <1>6, <1>7, <1>8 DEF NothingOpen, ItemsOf
<1>9. ASSUME complete[r], Unedited(o)
      PROVE  NothingOpen(o)'
  <2>1. FoundComplete(r)
    BY <1>0, <1>b, <1>9 DEF CompleteInv, Receives
  <2>2. Open(items'[j]) = 0
    BY <1>1, <1>4, <1>5, <2>1 DEF FoundComplete
  <2>3. \A i \in ItemsOf(o) \ {j} : Open(items[i]) = 0 /\ items'[i] = items[i]
    BY <1>3, <1>b, <2>1 DEF FoundComplete, ItemsOf
  <2> QED BY <1>7, <2>2, <2>3 DEF NothingOpen
<1>10. \A p \in Orders : status'[p] = "received" /\ Unedited(p)' => NothingOpen(p)'
  <2> TAKE p \in Orders
  <2> HAVE status'[p] = "received" /\ Unedited(p)'
  <2>1. Unedited(p)
    BY <1>2, UneditedKept
  <2>2. CASE p = o /\ complete[r]
    BY <1>9, <2>1, <2>2
  <2>3. CASE p # o \/ ~complete[r]
    <3>1. status'[p] = status[p]
      BY <1>0, <1>2, <2>3 DEF RowTypes
    <3> QED BY <1>8, <2>1, <3>1 DEF CompleteInv
  <2> QED BY <2>2, <2>3
<1>11. ASSUME NEW q \in Requests, Receives(q, "checked")', complete'[q],
              Unedited(OrderOf[Item(q)])'
       PROVE  FoundComplete(q)'
  <2>1. pc' = [pc EXCEPT ![r] = "done"] /\ readItem' = [readItem EXCEPT ![r] = NoItem]
          /\ complete' = [complete EXCEPT ![r] = FALSE]
    BY <1>2 DEF End
  <2>2. q # r
    BY <1>0, <1>11, <2>1 DEF Receives, RowTypes
  <2>3. /\ Receives(q, "checked") /\ complete[q] /\ Unedited(OrderOf[Item(q)])
        /\ readItem'[q] = readItem[q] /\ Item(q)' = Item(q)
    BY <1>0, <1>2, <1>11, <2>1, <2>2, UneditedKept DEF Receives, RowTypes, Item
  <2>4. FoundComplete(q)
    BY <2>3 DEF CompleteInv
  <2>5. Item(q) \in held[q] /\ Item(q) \in Items
    BY <1>0, <2>3, AskTypes DEF ReceiptInv, StagesHold, StageHolds, KnowsItem, Receives
  <2>6. Item(q) # j
    BY <1>0, <1>1, <1>b, <2>2, <2>5 DEF ReceiptInv, Exclusive, KnowsItem
  <2>7. j \notin ItemsOf(OrderOf[Item(q)])
    BY <1>5, <2>4, <2>6 DEF FoundComplete
  <2>8. Amount(q)' = Amount(q)
    BY <1>2, <2>3 DEF Amount
  <2>9. \A i \in ItemsOf(OrderOf[Item(q)]) : items'[i] = items[i]
    BY <1>3, <2>7 DEF ItemsOf
  <2>10. \A i \in ItemsOf(OrderOf[Item(q)])' \ {Item(q)} : Open(items[i])' = 0
    BY <1>7, <2>3, <2>4, <2>9 DEF FoundComplete, Open
  <2> QED BY <2>3, <2>4, <2>8, <2>10 DEF FoundComplete, Open
<1> QED BY <1>10, <1>11 DEF CompleteInv

\* A form of an item or an order changes none that is unedited.
LEMMA FormsKeepOrders ==
    ASSUME ReceiptInv, CompleteInv, NEW r \in Requests, SaveItem(r) \/ SaveOrder(r)
    PROVE  CompleteInv'
<1>0. RowTypes
  BY DEF ReceiptInv
<1>1. /\ ask' = ask /\ End(r, "done") /\ ask[r].kind \in {"item", "order"}
      /\ \A q \in Requests \ {r} : /\ pc'[q] = pc[q] /\ complete'[q] = complete[q]
                                   /\ readItem'[q] = readItem[q]
      /\ ~Receives(r, "checked")'
  BY <1>0 DEF SaveItem, SaveOrder, Posts, End, RowTypes, Receives
<1>2. ASSUME NEW o \in Orders, Unedited(o)
      PROVE  /\ status'[o] = status[o]
             /\ \A i \in Items : OrderOf[i] = o => items'[i] = items[i]
  <2>1. CASE SaveItem(r)
    <3>1. /\ status' = status /\ EditedItem(Item(r))
          /\ items' = [items EXCEPT ![Item(r)] = ask[r].form]
      BY <2>1 DEF SaveItem, Posts, EditedItem, Item
    <3>2. \A i \in Items : OrderOf[i] = o => i # Item(r)
      BY <1>2, <3>1 DEF Unedited
    <3> QED BY <1>0, <3>1, <3>2 DEF RowTypes
  <2>2. CASE SaveOrder(r)
    <3>1. /\ items' = items /\ ask[r].kind = "order"
          /\ status' = [status EXCEPT ![ask[r].order] = ask[r].status]
      BY <2>2 DEF SaveOrder, Posts
    <3>2. ask[r].order # o
      BY <1>2, <3>1 DEF Unedited
    <3> QED BY <1>0, <3>1, <3>2 DEF RowTypes
  <2> QED BY <2>1, <2>2
<1>3. ASSUME NEW o \in Orders, Unedited(o)
      PROVE  /\ ItemsOf(o)' = ItemsOf(o) /\ (NothingOpen(o)' <=> NothingOpen(o))
             /\ \A i \in ItemsOf(o) : items'[i] = items[i]
  BY <1>2, <1>3 DEF ItemsOf, NothingOpen, Open
<1>4. \A o \in Orders : status'[o] = "received" /\ Unedited(o)' => NothingOpen(o)'
  BY <1>1, <1>2, <1>3, UneditedKept DEF CompleteInv
<1>5. ASSUME NEW q \in Requests, Receives(q, "checked")', complete'[q],
             Unedited(OrderOf[Item(q)])'
      PROVE  FoundComplete(q)'
  <2>1. q # r
    BY <1>1, <1>5
  <2>2. /\ Receives(q, "checked") /\ complete[q] /\ Item(q)' = Item(q)
        /\ Unedited(OrderOf[Item(q)])
    BY <1>1, <1>5, <2>1, UneditedKept DEF Receives, Item
  <2>3. OrderOf[Item(q)] \in Orders
    BY <1>0, <2>2, AskTypes, RowsAssumption DEF Receives
  <2>4. FoundComplete(q)
    BY <2>2 DEF CompleteInv
  <2>5. /\ ItemsOf(OrderOf[Item(q)])' = ItemsOf(OrderOf[Item(q)])
        /\ \A i \in ItemsOf(OrderOf[Item(q)]) : items'[i] = items[i]
    <3>1. PICK o \in Orders : o = OrderOf[Item(q)]
      BY <2>3
    <3>2. ItemsOf(o)' = ItemsOf(o) /\ \A i \in ItemsOf(o) : items'[i] = items[i]
      BY <1>3, <2>2, <3>1
    <3> QED BY <1>1, <2>2, <3>1, <3>2 DEF ItemsOf
  <2>6. Amount(q)' = Amount(q) /\ readItem'[q] = readItem[q]
    BY <1>1, <2>1 DEF Amount
  <2> QED BY <2>2, <2>4, <2>5, <2>6 DEF FoundComplete, Open
<1> QED BY <1>4, <1>5 DEF CompleteInv

LEMMA CompleteInit == Init => CompleteInv
<1> SUFFICES ASSUME Init PROVE CompleteInv
  OBVIOUS
<1>1. \A o \in Orders : status[o] # "received"
  BY DEF Init
<1>2. \A r \in Requests : pc[r] = "asked"
  BY DEF Init
<1> QED BY <1>1, <1>2 DEF CompleteInv, Receives

LEMMA CompleteStep == ReceiptInv /\ CompleteInv /\ [Next]_vars => CompleteInv'
<1> SUFFICES ASSUME ReceiptInv, CompleteInv, [Next]_vars PROVE CompleteInv'
  OBVIOUS
<1>0. RowTypes /\ ask' = ask
  BY AskKept DEF ReceiptInv
<1>1. ASSUME NEW r \in Requests, Step(r), ~CheckOrder(r), ~CommitReceipt(r), ~SaveItem(r),
             ~SaveOrder(r)
      PROVE  CompleteInv'
  <2>1. items' = items /\ status' = status
    BY <1>1 DEF Step, Receipt, Form, LockItem, RefuseReceipt, FindStock, LockNamedStock,
       LockStockOfKey, AmbiguousStock, FindNoStock, InsertStock, DuplicateKey, SaveStock,
       RefuseForm, HoldStock, GoTo, rows
  <2>2. pc'[r] # "checked"
    <3>1. CASE \E outcome \in Ends : End(r, outcome)
      BY <1>0, <3>1 DEF End, Ends, RowTypes
    <3>2. CASE \E stage \in {"item", "insert", "stock"} : pc' = [pc EXCEPT ![r] = stage]
      BY <1>0, <3>2 DEF RowTypes
    <3> QED
      BY <1>1, <3>1, <3>2 DEF Step, Receipt, Form, LockItem, RefuseReceipt, FindStock,
         LockNamedStock, LockStockOfKey, AmbiguousStock, FindNoStock, InsertStock,
         DuplicateKey, SaveStock, RefuseForm, HoldStock, GoTo, Ends
  <2>3. \A q \in Requests \ {r} : /\ pc'[q] = pc[q] /\ complete'[q] = complete[q]
                                  /\ readItem'[q] = readItem[q]
    BY <1>0, <1>1 DEF Step, Receipt, Form, LockItem, RefuseReceipt, FindStock,
       LockNamedStock, LockStockOfKey, AmbiguousStock, FindNoStock, InsertStock,
       DuplicateKey, SaveStock, RefuseForm, HoldStock, GoTo, End, session, RowTypes
  <2> QED BY <1>0, <2>1, <2>2, <2>3, OrdersUndisturbed DEF Receives
<1>2. CASE UNCHANGED vars
  <2>1. /\ items' = items /\ status' = status /\ readItem' = readItem /\ pc' = pc
        /\ complete' = complete
    BY <1>2 DEF vars, rows, session
  <2>2. \A o : (NothingOpen(o)' <=> NothingOpen(o)) /\ (Unedited(o)' <=> Unedited(o))
    BY <1>0, <2>1, UneditedKept DEF NothingOpen, ItemsOf
  <2>3. \A q : /\ (FoundComplete(q)' <=> FoundComplete(q)) /\ Item(q)' = Item(q)
               /\ Receives(q, "checked")' <=> Receives(q, "checked")
    BY <1>0, <2>1 DEF FoundComplete, Amount, Open, Item, ItemsOf, Receives
  <2> QED BY <2>1, <2>2, <2>3 DEF CompleteInv
<1> QED
  BY <1>1, <1>2, CheckKeepsOrders, CommitKeepsOrders, FormsKeepOrders DEF Next

\* Every receipt is counted once: what the stock rows took in for an item is
\* what the item counts as received, and an order is marked as received only
\* when nothing of it is open, although the receipt read the other items
\* without a lock.
THEOREM ReceiptsCountedOnce == Spec => []ReceiptsAddUp
<1>1. AddUpInv /\ CompleteInv => ReceiptsAddUp
  <2> SUFFICES ASSUME AddUpInv, CompleteInv PROVE ReceiptsAddUp
    OBVIOUS
  <2>1. ItemsAddUp
    BY MovementsAreTotal DEF AddUpInv, ItemsAddUp
  <2>2. ReceivedMeansComplete
    BY DEF CompleteInv, ReceivedMeansComplete, Unedited, NothingOpen
  <2> QED BY <2>1, <2>2 DEF ReceiptsAddUp
<1> QED
  BY <1>1, ReceiptInvInit, ReceiptInvStep, AddUpInit, AddUpStep, CompleteInit, CompleteStep,
     PTL DEF Spec
=============================================================================
