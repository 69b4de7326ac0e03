------------------------- MODULE CatalogProperties -------------------------
(* What the catalog requests promise together. *)
EXTENDS CatalogQuantities

\* Every row keeps the shape its model class gives it.
TypeOK ==
    /\ sets \in [Sets -> {"absent", "live", "trashed"}]
    /\ figures \in [Figures -> [exists: BOOLEAN, set: Sets \cup {NoSet}]]
    /\ allocs \in [Positions -> AllocRow]
    /\ parts \in [Parts -> PartRow]

\* The redundant marker is_present is exactly "something is owned or found",
\* whichever of the services and views wrote the row last (the repair that
\* reconcile_part_status offers for it would find nothing).
PresenceMarker ==
    \A p \in Parts :
        parts[p].present = ExpectedPresent(parts[p].owned, parts[p].unassigned)

\* No request leaves a row that the constraint part_owned_lte_quantity would
\* refuse, so none of the writes without full_clean can fail on it.
OwnedWithinQuantity == \A p \in Parts : parts[p].owned <= parts[p].quantity

\* A part newly gets a possession status only when nothing is missing from the
\* positions that are authoritative for it after the write: views, form and
\* services agree although each checks different quantities.
NewPossessionNeedsNoShortage ==
    [][\A p \in Parts :
        (/\ parts'[p].state = "live"
         /\ parts'[p].status \in PossessionStatuses
         /\ parts[p].state = "absent" \/ parts[p].status \notin PossessionStatuses)
        => (AuthoritativeMissing(allocs, parts[p]) = 0)']_vars

\* Nothing in the trash changes: neither the positions of a trashed set nor a
\* trashed Part (except that its set may be deleted for good).
PositionFrozen(a) ==
    (/\ HomeSet(a) # NoSet /\ sets[HomeSet(a)] = "trashed"
     /\ sets'[HomeSet(a)] = "trashed" /\ allocs'[a].exists)
    => allocs'[a] = allocs[a]
PartFrozen(p) ==
    parts[p].state = "trashed" /\ parts'[p].state = "trashed"
    => parts'[p] \in {parts[p], [parts[p] EXCEPT !.set = NoSet]}

TrashIsFrozen ==
    [][/\ \A a \in Positions : PositionFrozen(a)
       /\ \A p \in Parts : PartFrozen(p)]_vars

\* The read-only audit (owned_quantity_consistency_rows) compares a live Part
\* with the positions that match it, spares left aside.
Audited(p) == parts[p].state = "live" /\ Matching(allocs, parts[p], FALSE) # {}
Agrees(p) == parts[p].owned = OwnedSum(allocs, Matching(allocs, parts[p], FALSE))

\* The three ways a mirror can part from its positions.
SpareShares(p) == Matching(allocs, parts[p], TRUE) # Matching(allocs, parts[p], FALSE)
SecondMirror(p) == \E q \in Parts \ {p} :
    /\ parts[q].state = "live"
    /\ Matching(allocs, parts[q], FALSE) \cap Matching(allocs, parts[p], FALSE) # {}

\* A mirror that the audit finds in agreement stays in agreement through every
\* request, unless a spare shares its identity, another Part mirrors the same
\* position, or the positions that match it change.
DivergenceHasACause ==
    [][\A p \in Parts :
        (/\ Audited(p) /\ Agrees(p) /\ Audited(p)'
         /\ Matching(allocs, parts[p], FALSE)' = Matching(allocs, parts[p], FALSE)
         /\ ~SpareShares(p) /\ ~SpareShares(p)'
         /\ ~SecondMirror(p) /\ ~SecondMirror(p)')
        => Agrees(p)']_vars

\* After "create-missing" every short item of the set has a live Part that
\* shows its shortage in the missing-parts list (docs/missing-parts.md).
CreateMissingCovers ==
    [][\A s \in Sets, new \in SUBSET Parts : \A creator \in [new -> SetItems] :
        CreateMissing(s, creator) =>
            \A a \in ShortItems(s) : \E p \in Parts :
                (parts[p].state = "live" /\ a \in Matching(allocs, parts[p], TRUE))']_vars
=============================================================================
