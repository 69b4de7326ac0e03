-------------------------- MODULE RebrickableSync --------------------------
(***************************************************************************)
(* Rebrickable as a source of the catalog (apps/integrations): the refresh *)
(* of one set, the batch import of a new set and the import of a loose     *)
(* figure, among the requests of CatalogQuantities.  Each is one           *)
(* transaction: the reply is complete before the first row is written.     *)
(* A row of a reply is [ident, spare, required]; rows are told apart by    *)
(* part number, color and spare marker.  The row of a figure is found by   *)
(* its number; here a figure's primary key stands for its number.          *)
(***************************************************************************)
EXTENDS CatalogProperties

CONSTANTS
    NumberOf,         \* part_number, among the identities of a Part
    InventoryReplies, \* sets of rows that sets/{n}/parts/ can return
    FigureReplies     \* [code, figures]: figure -> its rows, none unless "ok"

Reply == [ident: AllocIdents, spare: BOOLEAN, required: Nat]

Key(row) == <<row.ident.number, row.ident.color, row.spare>>
Keys(rows) == {Key(row) : row \in rows}

\* A page of a reply, without the rows whose key was seen before.
Rows(rows) ==
    /\ rows \subseteq Reply /\ IsFiniteSet(rows)
    /\ \A row, other \in rows : Key(row) = Key(other) => row = other

ASSUME RepliesAssumption ==
    /\ DOMAIN NumberOf = PartIdents
    /\ \A ident \in PartIdents : ident.numbers \subseteq {ident.element, NumberOf[ident]}
    /\ \A rows \in InventoryReplies : Rows(rows)
    /\ \A reply \in FigureReplies :
         /\ DOMAIN reply.figures \subseteq Figures
         /\ reply.code \in {"ok", "unavailable", "rate_limit"}
         /\ reply.code # "ok" => DOMAIN reply.figures = {}
         /\ \A f \in DOMAIN reply.figures : Rows(reply.figures[f])

VARIABLES
    newly,   \* session["newly_purchased_pending"]
    answer   \* what the last request was told, and the replies it was given

syncVars == <<sets, figures, allocs, parts, newly, answer>>

Told(what, s, rows, reply) ==
    [told |-> what, set |-> s, rows |-> rows, figures |-> reply]
Untold == Told("none", NoSet, {}, [code |-> "ok", figures |-> [f \in {} |-> {}]])

Kept(slots) == {a \in slots : allocs[a].exists}

\* _upsert_reference: where each row of the reply is stored, a row with its
\* key if there is one, a new row otherwise.
Placements(rows, slots) ==
    {at \in [rows -> slots] :
        /\ \A row, other \in rows : at[row] = at[other] => row = other
        /\ \A row \in rows :
             IF Key(row) \in Keys({allocs[a] : a \in Kept(slots)})
             THEN allocs[at[row]].exists /\ Key(allocs[at[row]]) = Key(row)
             ELSE ~allocs[at[row]].exists}

\* Reference fields follow the reply, owned_quantity is never a default.
Refreshed(old, row) ==
    IF old.exists THEN [old EXCEPT !.ident = row.ident, !.required = row.required]
    ELSE [exists |-> TRUE, required |-> row.required, owned |-> 0,
          spare |-> row.spare, ident |-> row.ident]

Placed(as, at) ==
    [a \in Positions |->
        IF \E row \in DOMAIN at : at[row] = a
        THEN Refreshed(as[a], CHOOSE row \in DOMAIN at : at[row] = a)
        ELSE as[a]]

-----------------------------------------------------------------------------
(***************************************************************************)
(* The inventory of the set and its mirrors.                               *)
(***************************************************************************)

\* Rows the reply no longer names and that still require something.
Stale(rows, slots) ==
    {a \in Kept(slots) : Key(allocs[a]) \notin Keys(rows) /\ allocs[a].required > 0}

\* The Part a row is reconciled with: the first one by primary key, a UUID.
Reconciled(s, element, ident) ==
    {p \in Parts : /\ parts[p].state = "live" /\ parts[p].set = s
                   /\ \/ parts[p].ident.element = element
                      \/ NumberOf[parts[p].ident] = ident.number
                   /\ parts[p].ident.color = ident.color}

IsFirst(p, candidates, rank) ==
    p \in candidates /\ \A q \in candidates : rank[p] <= rank[q]

\* Seeded fault: the requirement is taken over without regard to the stock.
ReconciledQuantityRaw(p, seen, dropped, order) ==
    IF dropped # {} THEN parts[p].owned
    ELSE IF seen = {} THEN parts[p].quantity
    ELSE (CHOOSE row \in seen : \A other \in seen : order[other] <= order[row]).required

\* Seeded fault: a Part that the reply still names keeps its old quantity.
ReconciledQuantityKept(p, seen, dropped, order) ==
    IF dropped # {} THEN parts[p].owned ELSE parts[p].quantity

\* _reconcile_missing_part_requirement for the rows in `seen`, the last one
\* wins, and then the loop over the dropped rows.
ReconciledQuantity(p, seen, dropped, order) ==
    IF dropped # {} THEN parts[p].owned
    ELSE IF seen = {} THEN parts[p].quantity
    ELSE Larger((CHOOSE row \in seen :
                    \A other \in seen : order[other] <= order[row]).required,
                parts[p].owned)

ReconciledParts(s, rows, stale) ==
    {[p \in Parts |->
        LET seen == {row \in rows :
                        IsFirst(p, Reconciled(s, KeyElement(row.ident), row.ident), rank)}
            dropped == {a \in stale :
                          IsFirst(p, Reconciled(s, allocs[a].ident.element,
                                                allocs[a].ident), rank)}
        IN  [parts[p] EXCEPT !.quantity = ReconciledQuantity(p, seen, dropped, order)]] :
     rank \in Orders(Parts), order \in Orders(rows)}

Slots(s) == {a \in SetItems : SetOf[a] = s}

RefreshedInventory(s, rows, at) ==
    LET stale == Stale(rows, Slots(s))
    IN  [a \in Positions |->
            IF a \in stale THEN [allocs[a] EXCEPT !.required = 0] ELSE Placed(allocs, at)[a]]

-----------------------------------------------------------------------------
(***************************************************************************)
(* The figures of the set.                                                 *)
(***************************************************************************)

Components(f) == {a \in FigureParts : FigureOf[a] = f}

\* The row is written as max(quantity, 1).
AtLeastOne(rows) == {[row EXCEPT !.required = Larger(row.required, 1)] : row \in rows}

\* Seeded fault: the loop over the components on file is left out.
DropsNoComponent(found) == FALSE

\* A component the reply no longer names.  Its save names updated_at, which
\* MinifigurePart does not have: ValueError, and the refresh is rolled back.
DropsComponent(found) ==
    \E f \in DOMAIN found : figures[f].exists /\ Stale(found[f], Components(f)) # {}

\* A figure row of the set is found by its number, or created in it.
Attachable(found, s) ==
    \A f \in DOMAIN found : figures[f].exists => figures[f].set = s

Attached(found, s) ==
    [f \in Figures |-> IF f \in DOMAIN found THEN [exists |-> TRUE, set |-> s]
                       ELSE figures[f]]

\* All figures of the reply, one placement each.
FigurePlacements(found) ==
    {at \in [DOMAIN found -> UNION {Placements(AtLeastOne(found[f]), Components(f)) :
                                      f \in DOMAIN found}] :
        \A f \in DOMAIN found : at[f] \in Placements(AtLeastOne(found[f]), Components(f))}

WithComponents(as, at) ==
    [a \in Positions |->
        IF a \in FigureParts /\ FigureOf[a] \in DOMAIN at
        THEN Placed(as, at[FigureOf[a]])[a] ELSE as[a]]

-----------------------------------------------------------------------------
(***************************************************************************)
(* The requests.                                                           *)
(***************************************************************************)

\* initialize_newly_purchased_inventory: one UPDATE of the rows, no mirror.
Initialized(as, figs, s) ==
    [a \in Positions |->
        IF /\ as[a].exists
           /\ IF a \in SetItems THEN SetOf[a] = s ELSE figs[FigureOf[a]].set = s
        THEN [as[a] EXCEPT !.owned = as[a].required] ELSE as[a]]

\* synchronize_set with a reply that is not refused, and then, if `initialize`,
\* the initialization of the set.
Synchronize(s, rows, reply, initialize) ==
    LET found == reply.figures
    IN  /\ reply.code # "rate_limit"
        /\ ~DropsComponent(found)
        /\ Attachable(found, s)
        /\ figures' = Attached(found, s)
        /\ \E at \in Placements(rows, Slots(s)), components \in FigurePlacements(found) :
             LET synchronized == WithComponents(RefreshedInventory(s, rows, at), components)
             IN  allocs' = IF initialize THEN Initialized(synchronized, figures', s)
                           ELSE synchronized
        /\ parts' \in ReconciledParts(s, rows, Stale(rows, Slots(s)))

\* sync_rebrickable of a set; a collective request (bulk) never initializes.
SyncRebrickable(s, rows, reply, bulk) ==
    /\ Live(s)
    /\ Synchronize(s, rows, reply, s \in newly /\ ~bulk)
    /\ newly' = IF bulk THEN newly ELSE newly \ {s}
    /\ answer' = Told("synchronized", s, rows, reply)
    /\ UNCHANGED sets

\* The two ways a complete reply about the set ends in status 400.
SyncRateLimited(s, reply) ==
    /\ Live(s) /\ reply.code = "rate_limit"
    /\ answer' = [Untold EXCEPT !.told = "rate_limited"]
    /\ UNCHANGED <<vars, newly>>

SyncRefused(s, reply) ==
    /\ Live(s)
    /\ Attachable(reply.figures, s) /\ DropsComponent(reply.figures)
    /\ answer' = [Untold EXCEPT !.told = "refused"]
    /\ UNCHANGED <<vars, newly>>

\* batch_set_import_one: a new set, refreshed and initialized.
BatchSetImportOne(s, rows, reply) ==
    /\ sets[s] = "absent"
    /\ sets' = [sets EXCEPT ![s] = "live"]
    /\ Synchronize(s, rows, reply, TRUE)
    /\ answer' = [Untold EXCEPT !.told = "imported"]
    /\ UNCHANGED newly

\* create_standalone_minifigure: a loose figure that is owned completely.
MinifigureAdd(f, rows) ==
    /\ ~figures[f].exists
    /\ rows # {} /\ \A row \in rows : row.required > 0
    /\ figures' = [figures EXCEPT ![f] = [exists |-> TRUE, set |-> NoSet]]
    /\ \E at \in Placements(rows, Components(f)) :
         allocs' = [a \in Positions |->
                      IF a \in Components(f)
                      THEN [Placed(allocs, at)[a] EXCEPT !.owned = Placed(allocs, at)[a].required]
                      ELSE allocs[a]]
    /\ answer' = [Untold EXCEPT !.told = "imported"]
    /\ UNCHANGED <<sets, parts, newly>>

\* A request of the catalog. A set that is gone is no longer pending: a later
\* set has a new primary key.
CatalogRequest ==
    /\ Next
    /\ newly' = {s \in newly : sets'[s] # "absent"}
    /\ answer' = Untold

\* set_edit with newly_purchased=1 (or from a wish)
CreateNewlyPurchased(s) ==
    /\ CreateSet(s)
    /\ newly' = newly \cup {s}
    /\ answer' = Untold

SyncInit == Init /\ newly = {} /\ answer = Untold

SyncNext ==
    \/ CatalogRequest
    \/ \E s \in Sets : CreateNewlyPurchased(s)
    \/ \E s \in Sets, rows \in InventoryReplies, reply \in FigureReplies, bulk \in BOOLEAN :
         SyncRebrickable(s, rows, reply, bulk)
    \/ \E s \in Sets, reply \in FigureReplies :
         SyncRateLimited(s, reply) \/ SyncRefused(s, reply)
    \/ \E s \in Sets, rows \in InventoryReplies, reply \in FigureReplies :
         BatchSetImportOne(s, rows, reply)
    \/ \E f \in Figures, rows \in InventoryReplies : MinifigureAdd(f, rows)

SyncSpec == SyncInit /\ [][SyncNext]_syncVars
-----------------------------------------------------------------------------
\* The pending sets and the answer have their types, the catalog keeps its own
\* and the constraint on the Parts, which a refresh that shrinks them could trip.
SyncTypeOK ==
    /\ TypeOK /\ OwnedWithinQuantity
    /\ newly \subseteq {s \in Sets : sets[s] # "absent"}
    /\ answer.told \in {"none", "synchronized", "imported", "rate_limited", "refused"}

\* A refresh that initializes nothing leaves every owned amount, every status
\* and every found piece as the user left them ("preserving all user-owned
\* state", synchronize_set), also on rows that Rebrickable dropped.
UserStateKept ==
    /\ \A a \in Positions : allocs[a].exists =>
         allocs'[a].exists /\ allocs'[a].owned = allocs[a].owned
    /\ \A p \in Parts : \E quantity \in {parts'[p].quantity} :
         parts'[p] = [parts[p] EXCEPT !.quantity = quantity]

MirrorShows(p, a) ==
    /\ Matching(allocs, parts[p], FALSE) = {a}
    /\ parts[p].state = "live"
    /\ parts[p].owned = allocs[a].owned
    /\ parts[p].quantity = Larger(allocs[a].required, allocs[a].owned)

DropsAnotherRow(p, a) ==
    \E b \in SetItems \ {a} :
        /\ allocs[b].exists /\ allocs[b].required > 0 /\ allocs'[b].required = 0
        /\ p \in Reconciled(parts[p].set, allocs[b].ident.element, allocs[b].ident)

NamesAnotherRow(p, a) ==
    \E row \in answer'.rows :
        /\ Key(row) # Key(allocs[a])
        /\ p \in Reconciled(answer'.set, KeyElement(row.ident), row.ident)

HasRivals(p, a) ==
    Reconciled(parts[p].set, KeyElement(allocs[a].ident), allocs[a].ident) \ {p} # {}

\* "Keep an already-consistent mirror consistent" (the comment in
\* _reconcile_missing_part_requirement): a mirror of one normal row that shows
\* this row's amounts shows them after a refresh that still names the row, if
\* no other Part could be taken for the row (the first one is reconciled), the
\* reply names no other row of the same brick, spares included (the last one
\* decides), and drops no other open one (which closes the Part whatever the
\* reply says of the normal row).
MirrorsKept ==
    \A p \in Parts : \A a \in SetItems :
        (/\ MirrorShows(p, a)
         /\ allocs'[a].required > 0 /\ allocs'[a].ident = allocs[a].ident
         /\ ~DropsAnotherRow(p, a) /\ ~NamesAnotherRow(p, a) /\ ~HasRivals(p, a)
         /\ (Matching(allocs, parts[p], FALSE) = {a})')
        => MirrorShows(p, a)'

\* A refresh that initializes nothing keeps what the user has recorded, and
\* keeps consistent what was consistent.
SyncKeepsUserState ==
    [][answer'.told = "synchronized" /\ newly' = newly =>
        UserStateKept /\ MirrorsKept]_syncVars

\* The rows that are required of a set.
OpenRows(s) ==
    {[ident |-> allocs[a].ident, spare |-> allocs[a].spare, required |-> allocs[a].required] :
        a \in {b \in Kept(Slots(s)) : allocs[b].required > 0}}
OneRowPerKey(s) ==
    \A a, b \in Kept(Slots(s)) : Key(allocs[a]) = Key(allocs[b]) => a = b

RowsAsTold ==
    /\ OpenRows(answer.set) = {row \in answer.rows : row.required > 0}
    /\ OneRowPerKey(answer.set)

OpenComponents(f) == {a \in Kept(Components(f)) : allocs[a].required > 0}
HasComponents(f, rows) ==
    /\ figures[f].exists
    /\ Keys({allocs[a] : a \in OpenComponents(f)}) = Keys(rows)
    /\ \A row \in rows : \E a \in OpenComponents(f) :
         allocs[a] = Refreshed(allocs[a], row)

FiguresAsTold ==
    \A f \in DOMAIN answer.figures.figures :
        HasComponents(f, AtLeastOne(answer.figures.figures[f]))

\* After a refresh the open requirements of the set are those of the reply, no
\* row of an earlier reply or of the user among them, each once.  Every figure
\* of the reply is in the set with the components of the reply and no other open
\* ones; without a reply of figures they stay (synchronize_set).
SyncMatchesReply ==
    [][answer'.told = "synchronized" =>
        /\ RowsAsTold' /\ FiguresAsTold'
        /\ answer'.figures.code = "unavailable" =>
             /\ figures' = figures
             /\ \A a \in FigureParts : allocs'[a].required = allocs[a].required]_syncVars

\* Only a rate limit makes a complete reply fail: docs/developer/rebrickable.md
\* has every reference row updated by part number, color and spare marker.
OnlyRateLimitsAbort == answer.told # "refused"
=============================================================================
