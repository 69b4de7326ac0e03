--------------------------- MODULE QuantityService ---------------------------
(***************************************************************************)
(* What the quantity services of apps/catalog/services.py promise to their *)
(* callers: each call reads and writes the rows of one set in one          *)
(* indivisible step.  Which positions a Part matches is fixed here;        *)
(* CatalogQuantities says how it is computed.                              *)
(***************************************************************************)
EXTENDS PartStatus, FiniteSets, FiniteSetsExt

CONSTANTS
    Positions,   \* inventory items and figure parts of one set
    Parts,       \* live Part rows of the set
    MatchOf,     \* the positions a Part matches
    Required,    \* the required quantity of a position
    Quantities   \* the quantities a caller may ask for

VARIABLES
    owned,       \* owned_quantity of each position
    part         \* quantity, owned_quantity and status of each Part

serviceVars == <<owned, part>>

PartRows == [quantity: Nat, owned: Nat, status: Statuses]

MirrorsOf(a) == {p \in Parts : a \in MatchOf[p]}

RequiredOf(p) == MapThenSumSet(LAMBDA a : Required[a], MatchOf[p])
OwnedOf(own, p) == MapThenSumSet(LAMBDA a : own[a], MatchOf[p])

\* The shortage of a Part, from its positions or from its own quantities.
ShortageOf(own, row, p) ==
    IF MatchOf[p] = {} THEN Missing(row.quantity, row.owned)
    ELSE MapThenSumSet(LAMBDA a : Missing(Required[a], own[a]), MatchOf[p])

MaximumOf(row, p) == IF MatchOf[p] = {} THEN row.quantity
                     ELSE Required[CHOOSE a \in MatchOf[p] : TRUE]

\* The rows set_part_owned_quantity writes.
PartEditAllowed(row, p, quantity) ==
    Cardinality(MatchOf[p]) <= 1 /\ quantity <= MaximumOf(row, p)

PartEdited(row, p, quantity) ==
    LET maximum == MaximumOf(row, p)
    IN  [quantity |-> maximum, owned |-> quantity,
         status |-> EffectiveStatus(row.status, Missing(maximum, quantity))]

\* The mirror row set_authoritative_owned_quantity writes, once the
\* positions own as `own` says.
MirrorOf(own, row, p) ==
    [quantity |-> Larger(RequiredOf(p), OwnedOf(own, p)), owned |-> OwnedOf(own, p),
     status |-> EffectiveStatus(row.status, ShortageOf(own, row, p))]

EditPart(p, quantity) ==
    /\ PartEditAllowed(part[p], p, quantity)
    /\ owned' = [a \in Positions |-> IF a \in MatchOf[p] THEN quantity ELSE owned[a]]
    /\ part' = [part EXCEPT ![p] = PartEdited(part[p], p, quantity)]

EditPosition(a, quantity) ==
    /\ quantity <= Required[a]
    /\ owned' = [owned EXCEPT ![a] = quantity]
    /\ part' = [p \in Parts |-> IF p \in MirrorsOf(a)
                                THEN MirrorOf(owned', part[p], p) ELSE part[p]]

SetStatus(p, status) ==
    /\ StatusIsConsistent(status, ShortageOf(owned, part[p], p))
    /\ part' = [part EXCEPT ![p].status = status]
    /\ owned' = owned

\* A Part that no other Part shares a position with.
Alone(p) == \A q \in Parts \ {p} : MatchOf[p] \cap MatchOf[q] = {}

Agrees(p) == part[p].owned = OwnedOf(owned, p)

\* Rows that the services have left in agreement.
Init ==
    /\ owned \in [Positions -> Nat]
    /\ part \in [Parts -> PartRows]
    /\ \A p \in Parts : /\ MatchOf[p] # {} => Agrees(p)
                        /\ StatusIsConsistent(part[p].status, ShortageOf(owned, part[p], p))

Next ==
    \/ \E p \in Parts, quantity \in Quantities : EditPart(p, quantity)
    \/ \E a \in Positions, quantity \in Quantities : EditPosition(a, quantity)
    \/ \E p \in Parts, status \in Statuses : SetStatus(p, status)

Spec == Init /\ [][Next]_serviceVars
=============================================================================
