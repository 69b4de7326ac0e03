-------------------------- MODULE MCOrderReceipts --------------------------
(* Three concurrent requests on two orders that share a warehouse. *)
EXTENDS OrderReceipts, TLC

\* i1 and i2 are the items of o1 and have no target location; i3 of o2 goes
\* to the place where s1 lies; i4 is not there yet and would join o1.
MCOrderOf == "i1" :> "o1" @@ "i2" :> "o1" @@ "i3" :> "o2" @@ "i4" :> "o1"

ItemOf(exists, quantity, received, s, key) ==
    [exists |-> exists, quantity |-> quantity, received |-> received, stock |-> s,
     key |-> key]
StockOf(exists, key, quantity, reserved) ==
    [exists |-> exists, key |-> key, quantity |-> quantity, reserved |-> reserved]

MCOpening == {[
    items |-> "i1" :> ItemOf(TRUE, 2, 0, NoStock, "loose")
           @@ "i2" :> ItemOf(TRUE, 1, 0, NoStock, "loose")
           @@ "i3" :> ItemOf(TRUE, 2, 1, "s1", "box")
           @@ "i4" :> ItemOf(FALSE, 0, 0, NoStock, "box"),
    stock |-> "s1" :> StockOf(TRUE, "box", 2, 1)
           @@ "s2" :> StockOf(FALSE, "loose", 0, 0)
           @@ "s3" :> StockOf(FALSE, "loose", 0, 0)
           @@ "s4" :> StockOf(FALSE, "loose", 0, 0),
    status |-> "o1" :> "ordered" @@ "o2" :> "shipped"]}

MCItemForms == {ItemOf(TRUE, 3, 0, NoStock, "loose"), ItemOf(TRUE, 1, 0, NoStock, "shelf"),
                ItemOf(TRUE, 2, 1, "s1", "box"), ItemOf(TRUE, 1, 2, "s1", "box")}
MCStockForms == {StockOf(TRUE, "box", 5, 2), StockOf(TRUE, "shelf", 1, 0),
                 StockOf(TRUE, "loose", 1, 2), StockOf(TRUE, "loose", 4, 0)}

Receipts == {[kind |-> "receive", item |-> "i1", amount |-> 1]}
              \cup {[kind |-> "receive", item |-> i, amount |-> Outstanding] :
                      i \in {"i1", "i2", "i3"}}
ItemEdits == {[kind |-> "item", item |-> "i2", form |-> ItemOf(TRUE, 1, 0, NoStock, "shelf")],
              [kind |-> "item", item |-> "i3", form |-> ItemOf(TRUE, 1, 2, "s1", "box")],
              [kind |-> "item", item |-> "i4", form |-> ItemOf(TRUE, 1, 0, NoStock, "shelf")],
              [kind |-> "item", item |-> "i4", form |-> ItemOf(TRUE, 2, 1, "s1", "box")]}
StockEdits == {[kind |-> "stock", stock |-> "s1", form |-> StockOf(TRUE, "box", 5, 2)],
               [kind |-> "stock", stock |-> "s1", form |-> StockOf(TRUE, "shelf", 1, 0)],
               [kind |-> "stock", stock |-> NoStock, form |-> StockOf(TRUE, "shelf", 1, 0)],
               [kind |-> "stock", stock |-> NoStock, form |-> StockOf(TRUE, "loose", 4, 0)],
               [kind |-> "stock", stock |-> NoStock, form |-> StockOf(TRUE, "loose", 1, 2)]}
OrderEdits == {[kind |-> "order", order |-> "o1", status |-> "shipped"]}

MCAsked == Receipts \cup ItemEdits \cup StockEdits \cup OrderEdits

\* The two receipts that complete an order.
MCAskedPair == {[kind |-> "receive", item |-> i, amount |-> Outstanding] : i \in {"i1", "i2"}}
=============================================================================
