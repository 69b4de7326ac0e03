------------------------- MODULE CatalogQuantities -------------------------
(***************************************************************************)
(* The catalog of one owner: sets, the positions that are authoritative    *)
(* for what a set needs and what is owned (normal inventory items and the  *)
(* parts of minifigures), and the Part rows that mirror those positions    *)
(* for the missing-parts workflow (apps/catalog, apps/organizer).          *)
(*                                                                         *)
(* Every action is one request. A request that fails (a validation error,  *)
(* an ambiguous match, a missing row) rolls its transaction back and       *)
(* changes nothing, so its failure is the action not being enabled.        *)
(***************************************************************************)
EXTENDS PartStatus, FiniteSets, FiniteSetsExt

CONSTANTS
    Sets,         \* primary keys of LegoSet
    SetItems,     \* primary keys of SetInventoryItem
    SetOf,        \* the set an inventory item belongs to
    Figures,      \* primary keys of SetMinifigure
    FigureParts,  \* primary keys of MinifigurePart
    FigureOf,     \* the figure a minifigure part belongs to
    Parts,        \* primary keys of Part
    AllocIdents,  \* [element, number, color] of a position
    PartIdents,   \* [element, numbers, color] of a Part
    NoSet,        \* the NULL of a nullable lego_set
    NoElement,    \* a blank element_id
    PositionForms,\* position values a form can submit (bounds the model)
    PartForms     \* Part values a form can submit (bounds the model)

Positions == SetItems \cup FigureParts

ASSUME KeysAssumption ==
    /\ SetItems \cap FigureParts = {}
    /\ IsFiniteSet(Positions) /\ IsFiniteSet(Parts)
    /\ IsFiniteSet(Sets) /\ IsFiniteSet(Figures)
    /\ NoSet \notin Sets
    /\ SetOf \in [SetItems -> Sets]
    /\ FigureOf \in [FigureParts -> Figures]

PositionForm == [required: Nat, owned: Nat, spare: BOOLEAN, ident: AllocIdents]
PartForm == [set: Sets \cup {NoSet}, ident: PartIdents, quantity: Nat,
             owned: Nat, unassigned: Nat, status: Statuses]

ASSUME FormsAssumption ==
    /\ PositionForms \subseteq PositionForm
    /\ PartForms \subseteq PartForm
    /\ AllocIdents # {} /\ PartIdents # {}

\* The identity of the Part that "create-missing" creates for a position:
\* element_id=item.element_id or item.part_number, part_number=item.part_number
KeyElement(ident) == IF ident.element = NoElement THEN ident.number ELSE ident.element
KeyIdent(ident) == [element |-> KeyElement(ident), color |-> ident.color,
                    numbers |-> {KeyElement(ident), ident.number}]

ASSUME KeyAssumption == \A ident \in AllocIdents : KeyIdent(ident) \in PartIdents

VARIABLES
    sets,     \* "absent", "live" or "trashed" (deleted_at is set)
    figures,  \* existence and lego_set of each minifigure
    allocs,   \* the authoritative positions
    parts     \* the Part rows

vars == <<sets, figures, allocs, parts>>

AllocRow == [exists: BOOLEAN, required: Nat, owned: Nat, spare: BOOLEAN,
             ident: AllocIdents]
PartRow == [state: {"absent", "live", "trashed"}, set: Sets \cup {NoSet},
            ident: PartIdents, quantity: Nat, owned: Nat, unassigned: Nat,
            present: BOOLEAN, status: Statuses]

BlankAlloc == [exists |-> FALSE, required |-> 0, owned |-> 0, spare |-> FALSE,
               ident |-> CHOOSE i \in AllocIdents : TRUE]
BlankPart == [state |-> "absent", set |-> NoSet,
              ident |-> CHOOSE i \in PartIdents : TRUE, quantity |-> 0,
              owned |-> 0, unassigned |-> 0, present |-> FALSE,
              status |-> "missing"]

Live(s) == s \in Sets /\ sets[s] = "live"

HomeSet(a) == IF a \in SetItems THEN SetOf[a] ELSE figures[FigureOf[a]].set

-----------------------------------------------------------------------------
(***************************************************************************)
(* Which positions are authoritative for a Part row.                       *)
(***************************************************************************)

\* Positions of the part's own live set in the part's color. Spares of a
\* minifigure never take part, spares of the set only where asked for.
Eligible(as, part, spares) ==
    {a \in Positions : /\ as[a].exists
                       /\ Live(part.set)
                       /\ HomeSet(a) = part.set
                       /\ as[a].ident.color = part.ident.color
                       /\ as[a].spare => spares /\ a \in SetItems}

\* An exact element id wins over the part-number fallback of blank rows.
BestMatches(as, candidates, part) ==
    LET exact == {a \in candidates : /\ as[a].ident.element # NoElement
                                     /\ as[a].ident.element = part.ident.element}
    IN  IF exact # {} THEN exact
        ELSE {a \in candidates : /\ as[a].ident.element = NoElement
                                 /\ as[a].ident.number \in part.ident.numbers}

Matching(as, part, spares) ==
    LET candidates == Eligible(as, part, spares)
    IN  BestMatches(as, candidates \cap SetItems, part)
          \cup BestMatches(as, candidates \cap FigureParts, part)

RequiredSum(as, positions) == MapThenSumSet(LAMBDA a : as[a].required, positions)
OwnedSum(as, positions) == MapThenSumSet(LAMBDA a : as[a].owned, positions)
MissingSum(as, positions) ==
    MapThenSumSet(LAMBDA a : Missing(as[a].required, as[a].owned), positions)

\* with_authoritative_missing_quantity (include_spares=False)
AuthoritativeMissing(as, part) ==
    LET matches == Matching(as, part, FALSE)
    IN  IF matches = {} THEN Missing(part.quantity, part.owned)
        ELSE MissingSum(as, matches)

-----------------------------------------------------------------------------
(***************************************************************************)
(* The two services every quantity edit goes through.                      *)
(***************************************************************************)

\* Seeded fault: the services forget synchronize_presence_marker.
WrittenWithoutMarker(part, quantity, owned, missing) ==
    [part EXCEPT !.quantity = quantity, !.owned = owned,
                 !.status = EffectiveStatus(part.status, missing)]

\* synchronize_presence_marker and synchronize_workflow_status on a write of
\* quantity and owned, when `missing` is the shortage the service computed.
Written(part, quantity, owned, missing) ==
    [part EXCEPT !.quantity = quantity,
                 !.owned = owned,
                 !.present = ExpectedPresent(owned, part.unassigned),
                 !.status = EffectiveStatus(part.status, missing)]

\* full_clean and the check constraint part_owned_lte_quantity
Clean(part) == part.owned <= part.quantity

\* Seeded fault: the limit is not checked.
SetPartOwnedUnlimited(p, row, quantity) ==
    LET matches == Matching(allocs, row, FALSE)
        maximum == IF matches = {} THEN row.quantity
                   ELSE allocs[CHOOSE a \in matches : TRUE].required
    IN  /\ Cardinality(matches) <= 1
        /\ allocs' = [a \in Positions |->
                        IF a \in matches THEN [allocs[a] EXCEPT !.owned = quantity]
                        ELSE allocs[a]]
        /\ parts' = [parts EXCEPT ![p] = Written(row, maximum, quantity,
                                                 Missing(maximum, quantity))]
        /\ UNCHANGED <<sets, figures>>

\* set_part_owned_quantity: `row` is the Part row as stored before the call.
SetPartOwnedQuantity(p, row, quantity) ==
    LET matches == Matching(allocs, row, FALSE)
        maximum == IF matches = {} THEN row.quantity
                   ELSE allocs[CHOOSE a \in matches : TRUE].required
    IN  /\ Cardinality(matches) <= 1
        /\ quantity <= maximum
        /\ allocs' = [a \in Positions |->
                        IF a \in matches THEN [allocs[a] EXCEPT !.owned = quantity]
                        ELSE allocs[a]]
        /\ parts' = [parts EXCEPT ![p] = Written(row, maximum, quantity,
                                                 Missing(maximum, quantity))]
        /\ UNCHANGED <<sets, figures>>

\* The row lookup of set_authoritative_owned_quantity: positions of a trashed
\* set are not found, those of a loose figure are.
Writable(as, a) == as[a].exists /\ (HomeSet(a) = NoSet \/ Live(HomeSet(a)))

\* Seeded fault: mirrors in the trash are rewritten too.
MirrorsInTrash(as, rows, touched) ==
    {p \in Parts : /\ rows[p].state # "absent"
                   /\ Matching(as, rows[p], TRUE) \cap touched # {}}

\* The mirrors that writing one of the positions in `touched` rewrites.
Mirrors(as, rows, touched) ==
    {p \in Parts : /\ rows[p].state = "live"
                   /\ Matching(as, rows[p], TRUE) \cap touched # {}}

\* set_authoritative_owned_quantity on every position of `touched` in turn:
\* `as` holds the positions after the last write, peak[p] the largest
\* shortage that one of the writes saw for mirror p.
Resynchronized(as, rows, touched, peak) ==
    [p \in Parts |->
        IF p \in Mirrors(as, rows, touched)
        THEN LET matches == Matching(as, rows[p], TRUE)
                 owned == OwnedSum(as, matches)
             IN  Written(rows[p], Larger(RequiredSum(as, matches), owned),
                         owned, peak[p])
        ELSE rows[p]]

CleanRows(rows) ==
    \A p \in Parts : rows[p] \in PartRow /\ Clean(rows[p])

\* One call of set_authoritative_owned_quantity, from positions `as`.
SetAuthoritativeOwned(as, a, quantity) ==
    LET written == [as EXCEPT ![a].owned = quantity]
        peak == [p \in Parts |-> MissingSum(written, Matching(written, parts[p], TRUE))]
        rows == Resynchronized(written, parts, {a}, peak)
    IN  /\ Writable(as, a)
        /\ quantity <= as[a].required
        /\ CleanRows(rows)
        /\ allocs' = written
        /\ parts' = rows
        /\ UNCHANGED <<sets, figures>>

\* The two goals of the bulk requests.
AsRequired == [a \in Positions |-> allocs[a].required]
AsNone == [a \in Positions |-> 0]

\* A loop of calls that sets every position in `touched` to goal[a].  The
\* database gives the rows in no fixed order; when the writes raise stock the
\* largest shortage is the one after the first write.
Orders(S) == {f \in [S -> 1..Cardinality(S)] : \A x, y \in S : f[x] = f[y] => x = y}

SetAllAuthoritativeOwned(touched, goal) ==
    LET written == [a \in Positions |->
                      IF a \in touched THEN [allocs[a] EXCEPT !.owned = goal[a]]
                      ELSE allocs[a]]
    IN  /\ \E order \in Orders(touched) :
             LET FirstOnly(own) ==
                    LET first == CHOOSE a \in own : \A b \in own : order[a] <= order[b]
                    IN  [allocs EXCEPT ![first].owned = goal[first]]
                 peak == [p \in Parts |->
                    LET matches == Matching(written, parts[p], TRUE)
                    IN  Larger(MissingSum(FirstOnly(matches \cap touched), matches),
                               MissingSum(written, matches))]
                 rows == Resynchronized(written, parts, touched, peak)
             IN  CleanRows(rows) /\ parts' = rows
        /\ allocs' = written
        /\ UNCHANGED <<sets, figures>>

-----------------------------------------------------------------------------
(***************************************************************************)
(* Requests on Part rows.                                                  *)
(***************************************************************************)

\* missing_part_quantity
MissingPartQuantity(p, quantity) ==
    /\ parts[p].state = "live"
    /\ SetPartOwnedQuantity(p, parts[p], quantity)

\* PartForm.clean, the form's choice of sets, and the constraint on the row.
FormAccepted(form) ==
    /\ form.set = NoSet \/ Live(form.set)
    /\ StatusIsConsistent(form.status, Missing(form.quantity, form.owned))
    /\ form.owned <= form.quantity

\* Seeded fault: no set is stored as an empty string, not as NULL.
FormRowBlankSet(form) ==
    [state |-> "live", set |-> IF form.set = NoSet THEN NoElement ELSE form.set,
     ident |-> form.ident, quantity |-> form.quantity, owned |-> form.owned,
     unassigned |-> form.unassigned,
     present |-> ExpectedPresent(form.owned, form.unassigned),
     status |-> form.status]

FormRow(form) ==
    [state |-> "live", set |-> form.set, ident |-> form.ident,
     quantity |-> form.quantity, owned |-> form.owned,
     unassigned |-> form.unassigned,
     present |-> ExpectedPresent(form.owned, form.unassigned),
     status |-> form.status]

\* part_edit without a pk
CreatePart(p, form) ==
    /\ parts[p].state = "absent"
    /\ FormAccepted(form)
    /\ SetPartOwnedQuantity(p, FormRow(form), form.owned)

\* part_edit with a pk, and update_part: the quantity field is disabled (the
\* stored value is submitted) while a position is authoritative for the part.
EditPart(p, posted) ==
    LET mirrors == Matching(allocs, parts[p], FALSE) # {}
        form == IF mirrors THEN [posted EXCEPT !.quantity = parts[p].quantity]
                ELSE posted
    IN  /\ parts[p].state = "live"
        /\ FormAccepted(form)
        /\ SetPartOwnedQuantity(p, FormRow(form), form.owned)

\* missing_parts_bulk: one refused row refuses the request.
MissingPartsBulk(chosen, status) ==
    /\ \A p \in chosen :
         /\ parts[p].state = "live"
         /\ StatusIsConsistent(status, AuthoritativeMissing(allocs, parts[p]))
         /\ Clean(parts[p])
    /\ parts' = [p \in Parts |-> IF p \in chosen THEN [parts[p] EXCEPT !.status = status]
                                 ELSE parts[p]]
    /\ UNCHANGED <<sets, figures, allocs>>

\* Seeded fault: the status is checked against the quantities of the mirror.
MissingPartStatusByMirror(p, status) ==
    /\ parts[p].state = "live"
    /\ StatusIsConsistent(status, Missing(parts[p].quantity, parts[p].owned))
    /\ parts' = [parts EXCEPT ![p].status = status]
    /\ UNCHANGED <<sets, figures, allocs>>

\* missing_part_status
MissingPartStatus(p, status) ==
    /\ parts[p].state = "live"
    /\ StatusIsConsistent(status, AuthoritativeMissing(allocs, parts[p]))
    /\ Clean(parts[p])
    /\ parts' = [parts EXCEPT ![p].status = status]
    /\ UNCHANGED <<sets, figures, allocs>>

-----------------------------------------------------------------------------
(***************************************************************************)
(* Requests on positions.                                                  *)
(***************************************************************************)

FormAlloc(form) ==
    [exists |-> TRUE, required |-> form.required, owned |-> form.owned,
     spare |-> form.spare, ident |-> form.ident]

\* set_inventory_quantity
SetInventoryQuantity(a, quantity) ==
    /\ Live(SetOf[a])
    /\ SetAuthoritativeOwned(allocs, a, quantity)

\* unique_set_inventory_item
UniqueItem(a, form) ==
    \A b \in SetItems \ {a} :
        ~ /\ allocs[b].exists
          /\ SetOf[b] = SetOf[a]
          /\ allocs[b].spare = form.spare
          /\ allocs[b].ident.number = form.ident.number
          /\ allocs[b].ident.color = form.ident.color

\* set_inventory_edit, for a stored item and for a new one
SaveSetItem(a, form) ==
    /\ Live(SetOf[a])
    /\ UniqueItem(a, form)
    /\ SetAuthoritativeOwned([allocs EXCEPT ![a] = FormAlloc(form)], a, form.owned)

\* set_inventory_action "complete" and "missing"
ItemsOf(s) == {a \in SetItems : allocs[a].exists /\ SetOf[a] = s}

SetInventoryComplete(s) ==
    Live(s) /\ SetAllAuthoritativeOwned(ItemsOf(s), AsRequired)

SetInventoryMissing(s) ==
    Live(s) /\ SetAllAuthoritativeOwned(ItemsOf(s), AsNone)

\* mark_all_spares_missing goes through the service ...
MarkAllSparesMissing ==
    LET held == {a \in SetItems : /\ allocs[a].exists /\ Live(SetOf[a])
                                  /\ allocs[a].spare /\ allocs[a].owned > 0}
    IN  SetAllAuthoritativeOwned(held, AsNone)

\* ... and mark_all_spares_present is one UPDATE of the position rows.
MarkAllSparesPresent ==
    /\ allocs' = [a \in Positions |->
                    IF /\ a \in SetItems /\ allocs[a].exists /\ Live(SetOf[a])
                       /\ allocs[a].spare /\ allocs[a].owned < allocs[a].required
                    THEN [allocs[a] EXCEPT !.owned = allocs[a].required]
                    ELSE allocs[a]]
    /\ UNCHANGED <<sets, figures, parts>>

-----------------------------------------------------------------------------
(***************************************************************************)
(* set_inventory_action "create-missing": for each short item, the Part    *)
(* of its key is looked up or created, raised when it shows no shortage,   *)
(* and the item's mirrors are rewritten.  More than one live Part of a key *)
(* is an error that rolls everything back.                                 *)
(***************************************************************************)

ShortItems(s) == {a \in ItemsOf(s) : allocs[a].owned < allocs[a].required}

Open(a) == allocs[a].required - allocs[a].owned

SameKey(a, b) == /\ KeyElement(allocs[a].ident) = KeyElement(allocs[b].ident)
                 /\ allocs[a].ident.color = allocs[b].ident.color

\* Seeded fault: get_or_create leaves the set out of its lookup.
PartsOfKeyAnySet(s, a) ==
    {p \in Parts : /\ parts[p].state = "live"
                   /\ parts[p].ident.element = KeyElement(allocs[a].ident)
                   /\ parts[p].ident.color = allocs[a].ident.color}

PartsOfKey(s, a) == {p \in Parts : /\ parts[p].state = "live"
                                   /\ parts[p].set = s
                                   /\ parts[p].ident.element = KeyElement(allocs[a].ident)
                                   /\ parts[p].ident.color = allocs[a].ident.color}

NewPart(s, a) == [BlankPart EXCEPT !.state = "live", !.set = s, !.quantity = Open(a),
                                   !.ident = KeyIdent(allocs[a].ident)]

\* An item whose part shows no shortage and is not one of its mirrors.
Raised(s, p) == {a \in ShortItems(s) :
                    /\ p \in PartsOfKey(s, a)
                    /\ Missing(parts[p].quantity, parts[p].owned) = 0
                    /\ a \notin Matching(allocs, parts[p], TRUE)}

\* `creator` names, for a Part row to create, the first short item of its key.
CreateMissing(s, creator) ==
    LET short == ShortItems(s)
        uncovered == {a \in short : PartsOfKey(s, a) = {}}
        created == [p \in Parts |-> IF p \in DOMAIN creator
                                    THEN NewPart(s, creator[p]) ELSE parts[p]]
        peak == [p \in Parts |-> MissingSum(allocs, Matching(allocs, created[p], TRUE))]
        rows == Resynchronized(allocs, created, short, peak)
        rewritten == Mirrors(allocs, created, short)
    IN  /\ Live(s)
        /\ \A a \in short : Cardinality(PartsOfKey(s, a)) <= 1
        /\ \A p \in DOMAIN creator : /\ parts[p].state = "absent"
                                     /\ creator[p] \in uncovered
        /\ \A a \in uncovered : \E p \in DOMAIN creator : SameKey(a, creator[p])
        /\ \A p, q \in DOMAIN creator : SameKey(creator[p], creator[q]) => p = q
        /\ \E raise \in [Parts -> short \cup {NoSet}] :
             /\ \A p \in Parts :
                  IF p \in rewritten \/ Raised(s, p) = {} THEN raise[p] = NoSet
                  ELSE raise[p] \in Raised(s, p)
             /\ parts' = [p \in Parts |->
                            IF raise[p] = NoSet THEN rows[p]
                            ELSE [parts[p] EXCEPT
                                    !.quantity = Larger(parts[p].quantity,
                                                        parts[p].owned + Open(raise[p]))]]
        /\ CleanRows(rows)
        /\ UNCHANGED <<sets, figures, allocs>>

-----------------------------------------------------------------------------
(***************************************************************************)
(* Requests on minifigures (apps/organizer/views.py).                      *)
(***************************************************************************)

\* area_edit for area "minifigures": the form offers every set of the owner,
\* trashed ones too, and moves no mirror.
SaveFigure(f, s) ==
    /\ s \in {NoSet} \cup {t \in Sets : sets[t] # "absent"}
    /\ figures' = [figures EXCEPT ![f] = [exists |-> TRUE, set |-> s]]
    /\ UNCHANGED <<sets, allocs, parts>>

Without(rows, gone) == [a \in Positions |-> IF a \in gone THEN BlankAlloc ELSE rows[a]]

\* area_delete: the parts of the figure go with it.
DeleteFigure(f) ==
    /\ figures[f].exists
    /\ figures' = [figures EXCEPT ![f] = [exists |-> FALSE, set |-> NoSet]]
    /\ allocs' = Without(allocs, {a \in FigureParts : FigureOf[a] = f})
    /\ UNCHANGED <<sets, parts>>

\* child_edit for area "minifigures", for a stored component and for a new one
SaveFigurePart(a, form) ==
    /\ figures[FigureOf[a]].exists
    /\ SetAuthoritativeOwned([allocs EXCEPT ![a] = FormAlloc(form)], a, form.owned)

\* minifigure_part_quantity
MinifigurePartQuantity(a, quantity) ==
    /\ figures[FigureOf[a]].exists
    /\ SetAuthoritativeOwned(allocs, a, quantity)

\* minifigure_inventory_action "complete" and "missing": one part that the
\* service does not find (a trashed set) refuses the request.
ComponentsOf(f) == {a \in FigureParts : allocs[a].exists /\ FigureOf[a] = f}

\* Seeded fault: the loop saves the parts and calls no service.
FigureInventoryCompleteOnly(f) ==
    /\ \A a \in ComponentsOf(f) : Writable(allocs, a)
    /\ allocs' = [a \in Positions |->
                    IF a \in ComponentsOf(f)
                    THEN [allocs[a] EXCEPT !.owned = allocs[a].required] ELSE allocs[a]]
    /\ UNCHANGED <<sets, figures, parts>>

FigureInventoryComplete(f) ==
    /\ \A a \in ComponentsOf(f) : Writable(allocs, a)
    /\ SetAllAuthoritativeOwned(ComponentsOf(f), AsRequired)

FigureInventoryMissing(f) ==
    /\ \A a \in ComponentsOf(f) : Writable(allocs, a)
    /\ SetAllAuthoritativeOwned(ComponentsOf(f), AsNone)

-----------------------------------------------------------------------------
(***************************************************************************)
(* Creation, trash, restore and permanent deletion.                        *)
(***************************************************************************)

\* set_edit without a pk
CreateSet(s) ==
    /\ sets[s] = "absent"
    /\ sets' = [sets EXCEPT ![s] = "live"]
    /\ UNCHANGED <<figures, allocs, parts>>

\* set_delete and soft_delete
TrashSet(s) ==
    /\ sets[s] = "live"
    /\ sets' = [sets EXCEPT ![s] = "trashed"]
    /\ UNCHANGED <<figures, allocs, parts>>

\* part_delete and soft_delete
TrashPart(p) ==
    /\ parts[p].state = "live"
    /\ parts' = [parts EXCEPT ![p].state = "trashed"]
    /\ UNCHANGED <<sets, figures, allocs>>

\* restore
RestoreSet(s) ==
    /\ sets[s] = "trashed"
    /\ sets' = [sets EXCEPT ![s] = "live"]
    /\ UNCHANGED <<figures, allocs, parts>>

RestorePart(p) ==
    /\ parts[p].state = "trashed"
    /\ parts' = [parts EXCEPT ![p].state = "live"]
    /\ UNCHANGED <<sets, figures, allocs>>

\* permanent_delete: items and figures cascade, Part.lego_set becomes NULL.
DeleteSet(s) ==
    LET doomed == {f \in Figures : figures[f].set = s}
    IN  /\ sets[s] = "trashed"
        /\ sets' = [sets EXCEPT ![s] = "absent"]
        /\ figures' = [f \in Figures |-> IF f \in doomed
                                         THEN [exists |-> FALSE, set |-> NoSet]
                                         ELSE figures[f]]
        /\ allocs' = Without(allocs, {a \in Positions : HomeSet(a) = s})
        /\ parts' = [p \in Parts |-> IF parts[p].set = s
                                     THEN [parts[p] EXCEPT !.set = NoSet] ELSE parts[p]]

DeletePart(p) ==
    /\ parts[p].state = "trashed"
    /\ parts' = [parts EXCEPT ![p] = BlankPart]
    /\ UNCHANGED <<sets, figures, allocs>>

-----------------------------------------------------------------------------
Init ==
    /\ sets = [s \in Sets |-> "absent"]
    /\ figures = [f \in Figures |-> [exists |-> FALSE, set |-> NoSet]]
    /\ allocs = [a \in Positions |-> BlankAlloc]
    /\ parts = [p \in Parts |-> BlankPart]

\* Owned quantities and statuses a request can carry.
AskedQuantities == {form.owned : form \in PartForms \cup PositionForms}
AskedStatuses == {form.status : form \in PartForms}

\* The three requests that set one owned amount and record it in the audit.
QuantityRequest(row, quantity) ==
    \/ row \in Parts /\ MissingPartQuantity(row, quantity)
    \/ row \in SetItems /\ SetInventoryQuantity(row, quantity)
    \/ row \in FigureParts /\ MinifigurePartQuantity(row, quantity)

PartRequest ==
    \/ \E p \in Parts, form \in PartForms : CreatePart(p, form)
    \/ \E p \in Parts, form \in PartForms : EditPart(p, form)
    \/ \E chosen \in SUBSET Parts, status \in AskedStatuses :
         chosen # {} /\ MissingPartsBulk(chosen, status)
    \/ \E p \in Parts, status \in AskedStatuses : MissingPartStatus(p, status)

PositionRequest ==
    \/ \E a \in SetItems, form \in PositionForms : SaveSetItem(a, form)
    \/ \E s \in Sets : SetInventoryComplete(s)
    \/ \E s \in Sets : SetInventoryMissing(s)
    \/ MarkAllSparesMissing
    \/ MarkAllSparesPresent
    \/ \E s \in Sets : \E new \in SUBSET Parts :
         \E creator \in [new -> SetItems] : CreateMissing(s, creator)

FigureRequest ==
    \/ \E f \in Figures, s \in Sets \cup {NoSet} : SaveFigure(f, s)
    \/ \E f \in Figures : DeleteFigure(f)
    \/ \E a \in FigureParts, form \in PositionForms : SaveFigurePart(a, form)
    \/ \E f \in Figures : FigureInventoryComplete(f)
    \/ \E f \in Figures : FigureInventoryMissing(f)

TrashRequest ==
    \/ \E s \in Sets : CreateSet(s) \/ TrashSet(s) \/ RestoreSet(s) \/ DeleteSet(s)
    \/ \E p \in Parts : TrashPart(p) \/ RestorePart(p) \/ DeletePart(p)

Next ==
    \/ \E row \in Parts \cup Positions, quantity \in AskedQuantities :
         QuantityRequest(row, quantity)
    \/ PartRequest \/ PositionRequest \/ FigureRequest \/ TrashRequest

Spec == Init /\ [][Next]_vars
=============================================================================
