----------------------------- MODULE OrderImport -----------------------------
(***************************************************************************)
(* Import of an order from a CSV file (apps/orders).  A preview allocates  *)
(* every line to the Parts and figure components that are short of its     *)
(* brick and signs the result; nothing is stored until the signed preview  *)
(* is confirmed, once or several times, while the shortages change.        *)
(***************************************************************************)
EXTENDS Integers, FiniteSets, SequencesExt

CONSTANTS
    ImportRequests, \* confirmations in flight
    Shortages,      \* rows that may be short, in the order they are offered
    PartRows,       \* those that are Parts; the others are figure components
    BrickOf,        \* number and color of each row
    CsvFiles,       \* uploads: sequences of lines
    FirstShortfall, \* what every row is at first
    Shortfalls,     \* what a row may be: the row, missing pieces, status, not in the trash
    MaxImports,     \* bounds the orders that are imported
    OrderNumbers, NoOrderNumber,
    Suppliers, NoSupplier,
    Source,         \* the source that is chosen with the file
    NoImport        \* a request that confirms nothing

ASSUME ImportAssumption ==
    /\ IsInjective(Shortages) /\ PartRows \subseteq ToSet(Shortages)
    /\ NoOrderNumber \notin OrderNumbers /\ NoSupplier \notin Suppliers
    /\ \A new \in Shortfalls :
         /\ new.row \in ToSet(Shortages) /\ new.open \in Nat
         /\ new.row \notin PartRows => new.status = "missing" /\ new.live
    /\ MaxImports \in Nat
    /\ Shortages \in Seq(ToSet(Shortages))
    /\ DOMAIN FirstShortfall = {"open", "status", "live"} /\ FirstShortfall.open \in Nat
    /\ \A file \in CsvFiles : \A i \in DOMAIN file : file[i].valid => file[i].quantity \in Nat

VARIABLES
    shortage,     \* what is missing of each row; status and trash of a Part
    offer,        \* the signed preview, until it expires
    imports,      \* orders, in the order they were stored
    confirmation, \* the preview and selection each request has read
    crossed       \* order numbers two requests confirmed at once

orderVars == <<shortage, offer, imports, confirmation, crossed>>

OfferedRows == ToSet(Shortages)
-----------------------------------------------------------------------------
(***************************************************************************)
(* order_import                                                            *)
(***************************************************************************)

\* parse_order_csv: a line without part, amount or price is only reported.
Parsed(file) == {i \in DOMAIN file : file[i].valid}

\* What a live Part that is missing, or a component of a figure, lacks of a brick
Lacks(line, row) ==
    IF BrickOf[row] = line.brick
         /\ (row \in PartRows => shortage[row].live /\ shortage[row].status = "missing")
    THEN shortage[row].open ELSE 0

\* Seeded fault: what is given to one row is given to the next one again.
GiveAgain(line, done, row) ==
    LET amount == IF Lacks(line, row) < done.left THEN Lacks(line, row) ELSE done.left
    IN  [done EXCEPT !.given = @ \cup
           {[row |-> row, amount |-> amount, open |-> shortage[row].open]}]

\* The next candidate gets what it lacks, as far as the line goes.
Give(line, done, row) ==
    LET amount == IF Lacks(line, row) < done.left THEN Lacks(line, row) ELSE done.left
    IN  IF amount = 0 THEN done
        ELSE [left |-> done.left - amount,
              given |-> done.given \cup
                 {[row |-> row, amount |-> amount, open |-> shortage[row].open]}]

\* Without a color nothing is sure enough to be allocated.
Allocations(line) ==
    IF line.colored
    THEN FoldLeft(LAMBDA done, row : Give(line, done, row),
                  [left |-> line.quantity, given |-> {}], Shortages).given
    ELSE {}

PreviewOrder(file, number, supplier) ==
    /\ Parsed(file) # {}
    /\ offer' = [number |-> number, supplier |-> supplier,
                 lines |-> [i \in Parsed(file) |->
                              [quantity |-> file[i].quantity, given |-> Allocations(file[i])]]]
    /\ UNCHANGED <<shortage, imports, confirmation, crossed>>

\* The signature is valid for an hour.
OfferExpires ==
    /\ offer # NoImport
    /\ offer' = NoImport
    /\ UNCHANGED <<shortage, imports, confirmation, crossed>>
-----------------------------------------------------------------------------
(***************************************************************************)
(* order_import_confirm                                                    *)
(***************************************************************************)

\* The supplier is looked up as it was typed and stored with a default.
StoredSupplier(supplier) == IF supplier = NoSupplier THEN Source ELSE supplier

AlreadyThere(number, supplier) ==
    /\ number # NoOrderNumber
    /\ \E i \in DOMAIN imports : imports[i].number = number /\ imports[i].supplier = supplier

Given(lines) == UNION {lines[i].given : i \in DOMAIN lines}

\* match_part_ids: Parts that get all they lack
Covered(lines) ==
    {entry.row : entry \in {e \in Given(lines) : e.row \in PartRows /\ e.amount >= e.open}}

\* The boxes of the preview can be unticked.
OpenConfirmation(r, ticked) ==
    /\ confirmation[r] = NoImport /\ offer # NoImport
    /\ ticked \subseteq {entry.row : entry \in Given(offer.lines)}
    /\ ~AlreadyThere(offer.number, offer.supplier)
    /\ confirmation' = [confirmation EXCEPT ![r] = [offer |-> offer, ticked |-> ticked]]
    /\ crossed' = IF \E q \in ImportRequests :
                       confirmation[q] # NoImport /\ confirmation[q].offer.number = offer.number
                  THEN crossed \cup {offer.number} ELSE crossed
    /\ UNCHANGED <<shortage, offer, imports>>

\* Nothing ticked counts as everything; only Parts that are still missing
\* change, whatever they lack by now.
MarkedParts(q) ==
    {row \in Covered(q.offer.lines) : q.ticked = {} \/ row \in q.ticked}
      \cap {row \in PartRows : shortage[row].status = "missing"}

StoreOrder(r) ==
    LET q == confirmation[r]
    IN  /\ q # NoImport /\ Len(imports) < MaxImports
        /\ imports' = Append(imports, [number |-> q.offer.number,
                                       supplier |-> StoredSupplier(q.offer.supplier),
                                       lines |-> q.offer.lines, ticked |-> q.ticked,
                                       marked |-> MarkedParts(q)])
        /\ shortage' = [row \in OfferedRows |->
                          IF row \in MarkedParts(q) THEN [shortage[row] EXCEPT !.status = "ordered"]
                          ELSE shortage[row]]
        /\ confirmation' = [confirmation EXCEPT ![r] = NoImport]
        /\ UNCHANGED <<offer, crossed>>

\* The transaction is rolled back, or the worker dies.
ConfirmationEnds(r) ==
    /\ confirmation[r] # NoImport
    /\ confirmation' = [confirmation EXCEPT ![r] = NoImport]
    /\ UNCHANGED <<shortage, offer, imports, crossed>>
-----------------------------------------------------------------------------
\* Edits of a Part, of its status or of an inventory
ShortageChanges(new) ==
    /\ shortage' = [shortage EXCEPT ![new.row] =
                      [open |-> new.open, status |-> new.status, live |-> new.live]]
    /\ shortage' # shortage
    /\ UNCHANGED <<offer, imports, confirmation, crossed>>

OrderImportInit ==
    /\ shortage = [row \in OfferedRows |-> FirstShortfall]
    /\ offer = NoImport /\ imports = <<>> /\ crossed = {}
    /\ confirmation = [r \in ImportRequests |-> NoImport]

OrderImportNext ==
    \/ \E file \in CsvFiles, number \in OrderNumbers \cup {NoOrderNumber},
          supplier \in Suppliers \cup {NoSupplier} : PreviewOrder(file, number, supplier)
    \/ OfferExpires
    \/ \E r \in ImportRequests :
         StoreOrder(r) \/ ConfirmationEnds(r)
           \/ \E ticked \in SUBSET OfferedRows : OpenConfirmation(r, ticked)
    \/ \E new \in Shortfalls : ShortageChanges(new)

OrderImportSpec == OrderImportInit /\ [][OrderImportNext]_orderVars
-----------------------------------------------------------------------------
(***************************************************************************)
(* Every line of an imported order is long enough for all the rows it is   *)
(* allocated to; the Parts it has put to "ordered" are ticked ones that it *)
(* covers as they were shown; and a number of a supplier is stored once.   *)
(* Left out, and said in the README: nothing ticked, no supplier, and      *)
(* confirmations of one number at once.                                    *)
(***************************************************************************)
ImportedOrdersCover ==
    \A i \in DOMAIN imports :
      LET order == imports[i]
      IN  /\ \A k \in DOMAIN order.lines :
               MapThenSumSet(LAMBDA entry : entry.amount, order.lines[k].given)
                 <= order.lines[k].quantity
          /\ \A row \in order.marked :
               /\ order.ticked = {} \/ row \in order.ticked
               /\ \E entry \in Given(order.lines) : entry.row = row /\ entry.amount = entry.open
          /\ \A j \in DOMAIN imports :
               imports[j].number = order.number /\ imports[j].supplier = order.supplier =>
                 \/ i = j \/ order.number \in crossed \cup {NoOrderNumber}
                 \/ order.supplier = Source
=============================================================================
