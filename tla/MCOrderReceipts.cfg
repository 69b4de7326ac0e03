SPECIFICATION Spec
CONSTANTS
  Requests = {r1, r2, r3}
  Items = {"i1", "i2", "i3", "i4"}
  Stocks = {"s1", "s2", "s3", "s4"}
  Keys = {"loose", "box", "shelf"}
  Located = {"box", "shelf"}
  Orders = {"o1", "o2"}
  OrderOf <- MCOrderOf
  NoStock = NoStock
  NoItem = NoItem
  Outstanding = Outstanding
  ItemForms <- MCItemForms
  StockForms <- MCStockForms
  Asked <- MCAsked
  Opening <- MCOpening
INVARIANTS TypeOK LedgerExplainsStock ReceiptsAddUp
PROPERTIES EveryRequestEnds ImplementsLedger
