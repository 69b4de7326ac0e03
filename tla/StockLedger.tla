----------------------------- MODULE StockLedger -----------------------------
(***************************************************************************)
(* What the separate warehouse promises (apps/inventory/services.py and    *)
(* the goods receipt of apps/orders/views.py): each request changes the    *)
(* stock row, its ledger of movements and the order item in one step.      *)
(***************************************************************************)
EXTENDS Integers, Sequences

CONSTANTS
    Items,      \* primary keys of OrderItem
    Stocks,     \* primary keys of InventoryItem
    Keys,       \* part_number, color, condition and location
    NoStock,    \* the NULL of OrderItem.inventory_item
    NoItem,     \* the source of a movement that no receipt made
    ItemForms,  \* rows the order item form can post
    StockForms  \* rows the inventory form can post

VARIABLES
    items,      \* order items
    stock,      \* inventory rows
    ledger      \* the movements of each inventory row, oldest first

ledgerVars == <<items, stock, ledger>>

ItemRow == [exists: BOOLEAN, quantity: Nat, received: Nat,
            stock: Stocks \cup {NoStock}, key: Keys]
StockRow == [exists: BOOLEAN, key: Keys, quantity: Nat, reserved: Nat]
Movement == [old: Nat, new: Nat, item: Items \cup {NoItem}]

\* The stock a receipt of item i goes to: the one the item names, or one of
\* the key of the item, or a row created for it.
Destination(i, s) ==
    IF items[i].stock # NoStock THEN s = items[i].stock
    ELSE stock[s].exists => stock[s].key = items[i].key

Received(i, s, n) == [items EXCEPT ![i].received = @ + n, ![i].stock = s]

\* The row that get_or_create gives a receipt.
RowFor(i, s) ==
    IF stock[s].exists THEN stock[s]
    ELSE [exists |-> TRUE, key |-> items[i].key, quantity |-> 0, reserved |-> 0]

Stocked(i, s, n) == [stock EXCEPT ![s] = [RowFor(i, s) EXCEPT !.quantity = @ + n]]

\* The quantity before a row exists is 0.
Stored(s) == IF stock[s].exists THEN stock[s].quantity ELSE 0

Recorded(s, new, item) ==
    [ledger EXCEPT ![s] = Append(@, [old |-> Stored(s), new |-> new, item |-> item])]

\* receive_item
Receive(i, s, n) ==
    /\ items[i].exists
    /\ n >= 1 /\ n <= items[i].quantity - items[i].received
    /\ Destination(i, s)
    /\ items' = Received(i, s, n)
    /\ stock' = Stocked(i, s, n)
    /\ ledger' = Recorded(s, Stored(s) + n, i)

\* adjust_inventory and create_inventory
Adjust(s, form) ==
    /\ form.reserved <= form.quantity
    /\ stock' = [stock EXCEPT ![s] = form]
    /\ ledger' = Recorded(s, form.quantity, NoItem)
    /\ UNCHANGED items

\* item_edit
EditItem(i, form) ==
    /\ form.received <= form.quantity
    /\ items' = [items EXCEPT ![i] = form]
    /\ UNCHANGED <<stock, ledger>>

Init ==
    /\ items \in [Items -> ItemRow]
    /\ stock \in [Stocks -> StockRow]
    /\ ledger = [s \in Stocks |-> <<>>]
    /\ \A i \in Items : /\ items[i].received <= items[i].quantity
                        /\ items[i].stock # NoStock => stock[items[i].stock].exists
    /\ \A s \in Stocks : stock[s].reserved <= stock[s].quantity

Next ==
    \/ \E i \in Items, s \in Stocks : \E n \in 1..items[i].quantity : Receive(i, s, n)
    \/ \E s \in Stocks, form \in StockForms : Adjust(s, form)
    \/ \E i \in Items, form \in ItemForms : EditItem(i, form)

Spec == Init /\ [][Next]_ledgerVars

-----------------------------------------------------------------------------
Chained(movements) ==
    \A n \in 1..Len(movements) - 1 : movements[n + 1].old = movements[n].new

\* The movements of a row follow one another without a gap, and the last one
\* says what is in stock: no change of stock is lost or made behind the
\* ledger (InventoryMovement, written by adjust_inventory).
LedgerExplainsStock ==
    \A s \in Stocks :
        /\ Chained(ledger[s])
        /\ ledger[s] # <<>> => /\ stock[s].exists
                               /\ stock[s].quantity = ledger[s][Len(ledger[s])].new
=============================================================================
