------------------------ MODULE CatalogWriters_proofs ------------------------
(***************************************************************************)
(* What writes to the catalog beside its own requests: the refresh from    *)
(* Rebrickable, the import of a file and the repair of diverging mirrors,  *)
(* for every reply, file and history, every number of sets, figures,       *)
(* positions and Parts, and every order in which the steps interleave.     *)
(***************************************************************************)
EXTENDS RebrickableSync, DataImport, Reconciliation, CatalogQuantities_proofs, SequenceTheorems

-----------------------------------------------------------------------------
(***************************************************************************)
(* A refresh from Rebrickable keeps the catalog sound and what the user    *)
(* has recorded, and stores what the reply says, in whichever order the    *)
(* database returns the rows.                                              *)
(***************************************************************************)
\* unique_set_inventory_item, and with it the foreign key of a component: the
\* two constraints of the database that the placement of a reply relies on.
ItemsApart ==
    \A a, b \in SetItems :
        (/\ allocs[a].exists /\ allocs[b].exists
         /\ SetOf[a] = SetOf[b] /\ Key(allocs[a]) = Key(allocs[b])) => a = b

Grounded == ItemsApart /\ ComponentsHaveFigure

SessionTypes ==
    /\ newly \subseteq {s \in Sets : sets[s] # "absent"}
    /\ answer.told \in {"none", "synchronized", "imported", "rate_limited", "refused"}

\* The inductive invariant.
SyncInv == IInv /\ Grounded /\ SessionTypes

-----------------------------------------------------------------------------
(***************************************************************************)
(* The requests of the catalog keep the two constraints.                   *)
(***************************************************************************)
\* Most of them neither create a position nor change what tells it apart.
Calm ==
    /\ figures' = figures
    /\ \A a \in Positions : allocs'[a].exists =>
         allocs[a].exists /\ Key(allocs'[a]) = Key(allocs[a])

LEMMA CalmKeepsGrounded == ASSUME Grounded, Calm PROVE Grounded'
<1>1. SetItems \subseteq Positions /\ FigureParts \subseteq Positions
  BY DEF Positions
<1>2. ItemsApart'
  BY <1>1 DEF Grounded, Calm, ItemsApart
<1>3. ComponentsHaveFigure'
  BY <1>1 DEF Grounded, Calm, ComponentsHaveFigure
<1> QED BY <1>2, <1>3 DEF Grounded

LEMMA SetPartOwnedCalm ==
    ASSUME TypeOK, NEW p, NEW row, NEW quantity, SetPartOwnedQuantity(p, row, quantity)
    PROVE  Calm
<1>1. /\ figures' = figures /\ DOMAIN allocs = Positions
      /\ allocs' = [a \in Positions |-> IF a \in Matching(allocs, row, FALSE)
                                        THEN [allocs[a] EXCEPT !.owned = quantity]
                                        ELSE allocs[a]]
  BY DEF SetPartOwnedQuantity, TypeOK
<1>2. ASSUME NEW a \in Positions
      PROVE  /\ allocs'[a].exists = allocs[a].exists
             /\ allocs'[a].ident = allocs[a].ident /\ allocs'[a].spare = allocs[a].spare
  <2>1. allocs[a] \in AllocRow
    BY DEF TypeOK
  <2>2. allocs'[a] = allocs[a] \/ allocs'[a] = [allocs[a] EXCEPT !.owned = quantity]
    BY <1>1
  <2> QED BY <2>1, <2>2 DEF AllocRow
<1> QED BY <1>1, <1>2 DEF Calm, Key

LEMMA SetAuthoritativeCalm ==
    ASSUME TypeOK, NEW a \in Positions, NEW quantity,
           SetAuthoritativeOwned(allocs, a, quantity)
    PROVE  Calm
BY DEF SetAuthoritativeOwned, TypeOK, AllocRow, Calm, Key

LEMMA SetAllCalm ==
    ASSUME TypeOK, NEW touched, NEW goal, SetAllAuthoritativeOwned(touched, goal)
    PROVE  Calm
BY DEF SetAllAuthoritativeOwned, TypeOK, AllocRow, Calm, Key

LEMMA UnchangedCalm == ASSUME UNCHANGED <<figures, allocs>> PROVE Calm
BY DEF Calm

\* A saved form is stored at one place, whose key the form check has vetted.
LEMMA SaveItemGrounded ==
    ASSUME IInv, Grounded, NEW a \in SetItems, NEW form \in PositionForms, SaveSetItem(a, form)
    PROVE  Grounded'
<1>1. /\ a \in Positions /\ SetItems \subseteq Positions /\ FigureParts \subseteq Positions
      /\ a \notin FigureParts /\ allocs \in [Positions -> AllocRow]
  BY KeysAssumption DEF Positions, IInv, TypeOK
<1>2. /\ allocs' = [[allocs EXCEPT ![a] = FormAlloc(form)] EXCEPT ![a].owned = form.owned]
      /\ figures' = figures /\ UniqueItem(a, form)
  BY DEF SaveSetItem, SetAuthoritativeOwned
<1> DEFINE saved == [FormAlloc(form) EXCEPT !.owned = form.owned]
           key == <<form.ident.number, form.ident.color, form.spare>>
<1>3. Key(saved) = key
  BY DEF FormAlloc, Key
<1> HIDE DEF saved
<1>4. allocs'[a] = saved /\ \A b \in Positions : b # a => allocs'[b] = allocs[b]
  <2> DEFINE as == [allocs EXCEPT ![a] = FormAlloc(form)]
  <2>1. /\ as \in [Positions -> AllocRow] /\ as[a] = FormAlloc(form)
        /\ \A b \in Positions : b # a => as[b] = allocs[b]
    BY <1>1, FormAllocType
  <2> HIDE DEF as
  <2>2. allocs' = [as EXCEPT ![a].owned = form.owned]
    BY <1>2 DEF as
  <2> QED BY <1>1, <2>1, <2>2 DEF saved
<1>5. ASSUME NEW b \in SetItems, b # a, allocs[b].exists, SetOf[b] = SetOf[a]
      PROVE  Key(allocs[b]) # Key(saved)
  BY <1>2, <1>3, <1>5 DEF UniqueItem, Key
<1>6. ItemsApart'
  BY <1>1, <1>4, <1>5 DEF Grounded, ItemsApart
<1>7. ComponentsHaveFigure'
  BY <1>1, <1>2, <1>4 DEF Grounded, ComponentsHaveFigure
<1> QED BY <1>6, <1>7 DEF Grounded

LEMMA SaveFigurePartGrounded ==
    ASSUME IInv, Grounded, NEW a \in FigureParts, NEW form \in PositionForms,
           SaveFigurePart(a, form)
    PROVE  Grounded'
<1>1. /\ a \in Positions /\ SetItems \subseteq Positions /\ FigureParts \subseteq Positions
      /\ a \notin SetItems /\ allocs \in [Positions -> AllocRow]
  BY KeysAssumption DEF Positions, IInv, TypeOK
<1>2. /\ allocs' = [[allocs EXCEPT ![a] = FormAlloc(form)] EXCEPT ![a].owned = form.owned]
      /\ figures' = figures /\ figures[FigureOf[a]].exists
  BY DEF SaveFigurePart, SetAuthoritativeOwned
<1>3. \A b \in Positions : b # a => allocs'[b] = allocs[b]
  BY <1>1, <1>2
<1>4. ItemsApart'
  BY <1>1, <1>3 DEF Grounded, ItemsApart
<1>5. ComponentsHaveFigure'
  BY <1>1, <1>2, <1>3 DEF Grounded, ComponentsHaveFigure
<1> QED BY <1>4, <1>5 DEF Grounded

\* A deletion takes the components of a figure with it.
LEMMA WithoutGrounded ==
    ASSUME IInv, Grounded, NEW gone, allocs' = Without(allocs, gone),
           \A a \in FigureParts : a \notin gone =>
              (figures[FigureOf[a]].exists => figures'[FigureOf[a]].exists)
    PROVE  Grounded'
<1>1. /\ SetItems \subseteq Positions /\ FigureParts \subseteq Positions
      /\ \A a \in Positions : allocs'[a] = IF a \in gone THEN BlankAlloc ELSE allocs[a]
      /\ ~BlankAlloc.exists
  BY DEF Positions, Without, BlankAlloc
<1>2. ItemsApart'
  BY <1>1 DEF Grounded, ItemsApart
<1>3. ComponentsHaveFigure'
  BY <1>1 DEF Grounded, ComponentsHaveFigure
<1> QED BY <1>2, <1>3 DEF Grounded

LEMMA PositionRequestGrounded ==
    ASSUME IInv, Grounded, PositionRequest
    PROVE  Grounded'
<1>0. TypeOK
  BY DEF IInv
<1>1. ASSUME NEW a \in SetItems, NEW form \in PositionForms, SaveSetItem(a, form)
      PROVE  Grounded'
  BY <1>1, SaveItemGrounded
<1>2. ASSUME NEW s \in Sets, SetInventoryComplete(s) \/ SetInventoryMissing(s)
      PROVE  Calm
  BY <1>0, <1>2, SetAllCalm DEF SetInventoryComplete, SetInventoryMissing
<1>3. CASE MarkAllSparesMissing
  <2>1. Calm
    BY <1>0, <1>3, SetAllCalm DEF MarkAllSparesMissing
  <2> QED BY <2>1, CalmKeepsGrounded
<1>4. CASE MarkAllSparesPresent
  <2>1. Calm
    BY <1>0, <1>4 DEF MarkAllSparesPresent, Calm, TypeOK, AllocRow, Key
  <2> QED BY <2>1, CalmKeepsGrounded
<1>5. ASSUME NEW s \in Sets, NEW creator, CreateMissing(s, creator)
      PROVE  Calm
  BY <1>5, UnchangedCalm DEF CreateMissing
<1> QED BY <1>1, <1>2, <1>3, <1>4, <1>5, CalmKeepsGrounded DEF PositionRequest

LEMMA FigureRequestGrounded ==
    ASSUME IInv, Grounded, FigureRequest
    PROVE  Grounded'
<1>0. /\ TypeOK /\ FigureParts \subseteq Positions /\ SetItems \subseteq Positions
      /\ figures \in [Figures -> [exists: BOOLEAN, set: Sets \cup {NoSet}]]
      /\ FigureOf \in [FigureParts -> Figures]
  BY KeysAssumption DEF IInv, TypeOK, Positions
<1>1. ASSUME NEW f \in Figures, NEW s \in Sets \cup {NoSet}, SaveFigure(f, s)
      PROVE  Grounded'
  <2>1. allocs' = allocs /\ \A g \in Figures : figures[g].exists => figures'[g].exists
    BY <1>0, <1>1 DEF SaveFigure
  <2>2. ItemsApart'
    BY <2>1 DEF Grounded, ItemsApart
  <2>3. ComponentsHaveFigure'
    BY <1>0, <2>1 DEF Grounded, ComponentsHaveFigure
  <2> QED BY <2>2, <2>3 DEF Grounded
<1>2. ASSUME NEW f \in Figures, DeleteFigure(f)
      PROVE  Grounded'
  <2> DEFINE gone == {a \in FigureParts : FigureOf[a] = f}
  <2>1. allocs' = Without(allocs, gone)
    BY <1>2 DEF DeleteFigure
  <2>2. ASSUME NEW a \in FigureParts, a \notin gone
        PROVE  figures[FigureOf[a]].exists => figures'[FigureOf[a]].exists
    BY <1>0, <1>2, <2>2 DEF DeleteFigure
  <2> HIDE DEF gone
  <2> QED BY <2>1, <2>2, WithoutGrounded
<1>3. ASSUME NEW a \in FigureParts, NEW form \in PositionForms, SaveFigurePart(a, form)
      PROVE  Grounded'
  BY <1>3, SaveFigurePartGrounded
<1>4. ASSUME NEW f \in Figures, FigureInventoryComplete(f) \/ FigureInventoryMissing(f)
      PROVE  Calm
  BY <1>0, <1>4, SetAllCalm DEF FigureInventoryComplete, FigureInventoryMissing
<1> QED BY <1>1, <1>2, <1>3, <1>4, CalmKeepsGrounded DEF FigureRequest

LEMMA TrashRequestGrounded ==
    ASSUME IInv, Grounded, TrashRequest
    PROVE  Grounded'
<1>0. /\ FigureParts \subseteq Positions /\ FigureParts \cap SetItems = {}
      /\ figures \in [Figures -> [exists: BOOLEAN, set: Sets \cup {NoSet}]]
      /\ FigureOf \in [FigureParts -> Figures]
  BY KeysAssumption DEF IInv, TypeOK, Positions
<1>1. ASSUME NEW s \in Sets, DeleteSet(s)
      PROVE  Grounded'
  <2> DEFINE gone == {a \in Positions : HomeSet(a) = s}
  <2>1. allocs' = Without(allocs, gone)
    BY <1>1 DEF DeleteSet
  <2>2. ASSUME NEW a \in FigureParts, a \notin gone
        PROVE  figures[FigureOf[a]].exists => figures'[FigureOf[a]].exists
    <3>1. FigureOf[a] \in Figures /\ figures[FigureOf[a]].set # s
      BY <1>0, <2>2 DEF HomeSet
    <3> QED BY <1>1, <3>1 DEF DeleteSet
  <2> HIDE DEF gone
  <2> QED BY <2>1, <2>2, WithoutGrounded
<1>2. ASSUME NEW s \in Sets, CreateSet(s) \/ TrashSet(s) \/ RestoreSet(s)
      PROVE  Calm
  BY <1>2, UnchangedCalm DEF CreateSet, TrashSet, RestoreSet
<1>3. ASSUME NEW p \in Parts, TrashPart(p) \/ RestorePart(p) \/ DeletePart(p)
      PROVE  Calm
  BY <1>3, UnchangedCalm DEF TrashPart, RestorePart, DeletePart
<1> QED BY <1>1, <1>2, <1>3, CalmKeepsGrounded DEF TrashRequest

LEMMA RequestGrounded ==
    ASSUME IInv, Grounded, Next
    PROVE  Grounded'
<1>0. TypeOK /\ SetItems \subseteq Positions /\ FigureParts \subseteq Positions
  BY DEF IInv, Positions
<1>1. ASSUME NEW row, NEW quantity, QuantityRequest(row, quantity)
      PROVE  Calm
  BY <1>0, <1>1, SetPartOwnedCalm, SetAuthoritativeCalm
     DEF QuantityRequest, MissingPartQuantity, SetInventoryQuantity, MinifigurePartQuantity
<1>2. ASSUME PartRequest
      PROVE  Calm
  BY <1>0, <1>2, SetPartOwnedCalm, UnchangedCalm
     DEF PartRequest, CreatePart, EditPart, MissingPartsBulk, MissingPartStatus
<1> QED BY <1>1, <1>2, CalmKeepsGrounded, PositionRequestGrounded,
           FigureRequestGrounded, TrashRequestGrounded DEF Next

-----------------------------------------------------------------------------
(***************************************************************************)
(* Where a reply is stored.                                                *)
(***************************************************************************)
\* The last row of several is well defined: a reply is finite.
LEMMA LastRow ==
    ASSUME NEW rows, IsFiniteSet(rows), NEW order \in Orders(rows),
           NEW seen \in SUBSET rows, seen # {}
    PROVE  \E row \in seen : \A other \in seen : order[other] <= order[row]
<1> DEFINE n == Cardinality(rows)
           After == {n - order[row] : row \in seen}
<1>1. n \in Nat
  BY FS_CardinalityType
<1>2. \A row \in seen : order[row] \in 1..n
  BY DEF Orders
<1>3. After \in SUBSET Nat /\ After # {}
  BY <1>1, <1>2
<1>4. PICK m \in After : \A k \in After : m <= k
  BY <1>3, LeastNatural
<1>5. PICK row \in seen : m = n - order[row]
  OBVIOUS
<1>6. \A other \in seen : n - order[row] <= n - order[other]
  BY <1>4, <1>5
<1> QED BY <1>1, <1>2, <1>6

\* A row of a reply at a place is this row with the owner's stock.
LEMMA RefreshedRow ==
    ASSUME NEW old \in AllocRow, NEW row \in Reply,
           old.exists => Key(old) = Key(row)
    PROVE  LET new == Refreshed(old, row)
           IN  /\ new \in AllocRow /\ new.exists
               /\ new.ident = row.ident /\ new.spare = row.spare
               /\ new.required = row.required
               /\ old.exists => new.owned = old.owned
               /\ Key(new) = Key(row)
<1>1. old.exists => old.spare = row.spare
  BY DEF Key
<1>2. CASE old.exists
  BY <1>1, <1>2 DEF Refreshed, AllocRow, Reply, Key
<1>3. CASE ~old.exists
  BY <1>3 DEF Refreshed, AllocRow, Reply, Key
<1> QED BY <1>2, <1>3 DEF AllocRow
\* A row at its place, over what was there.
Lands(row, old, new) ==
    /\ new \in AllocRow /\ new.exists
    /\ new.ident = row.ident /\ new.spare = row.spare /\ new.required = row.required
    /\ Key(new) = Key(row)
    /\ old.exists => new.owned = old.owned /\ Key(old) = Key(row)

\* Rows that are told apart by their keys.
Keyed(rows) ==
    rows \subseteq Reply /\ \A row, other \in rows : Key(row) = Key(other) => row = other

LEMMA AtLeastOneKeyed ==
    ASSUME NEW rows, Keyed(rows)
    PROVE  Keyed(AtLeastOne(rows))
<1>1. ASSUME NEW row \in rows
      PROVE  LET new == [row EXCEPT !.required = Larger(row.required, 1)]
             IN  new \in Reply /\ Key(new) = Key(row)
  BY <1>1 DEF Keyed, Reply, Key, Larger
<1>2. AtLeastOne(rows) \subseteq Reply
  BY <1>1 DEF AtLeastOne
<1>3. ASSUME NEW row \in AtLeastOne(rows), NEW other \in AtLeastOne(rows),
             Key(row) = Key(other)
      PROVE  row = other
  <2>1. PICK r \in rows : row = [r EXCEPT !.required = Larger(r.required, 1)]
    BY DEF AtLeastOne
  <2>2. PICK o \in rows : other = [o EXCEPT !.required = Larger(o.required, 1)]
    BY DEF AtLeastOne
  <2>3. Key(r) = Key(o)
    BY <1>1, <1>3, <2>1, <2>2
  <2> QED BY <2>1, <2>2, <2>3 DEF Keyed
<1> QED BY <1>2, <1>3 DEF Keyed

LEMMA PlacementFacts ==
    ASSUME NEW rows, NEW slots, NEW at \in Placements(rows, slots)
    PROVE  /\ at \in [rows -> slots]
           /\ \A row, other \in rows : at[row] = at[other] => row = other
           /\ \A row \in rows : allocs[at[row]].exists => Key(allocs[at[row]]) = Key(row)
           /\ \A row \in rows, a \in slots :
                allocs[a].exists /\ Key(allocs[a]) = Key(row) =>
                   allocs[at[row]].exists
<1>1. /\ at \in [rows -> slots]
      /\ \A row, other \in rows : at[row] = at[other] => row = other
      /\ \A row \in rows :
           IF Key(row) \in Keys({allocs[a] : a \in Kept(slots)})
           THEN allocs[at[row]].exists /\ Key(allocs[at[row]]) = Key(row)
           ELSE ~allocs[at[row]].exists
  BY DEF Placements
<1>2. ASSUME NEW row \in rows, NEW a \in slots, allocs[a].exists, Key(allocs[a]) = Key(row)
      PROVE  Key(row) \in Keys({allocs[b] : b \in Kept(slots)})
  BY <1>2 DEF Keys, Kept
<1> QED BY <1>1, <1>2

\* Position a holds `new`: the row that is placed there, or what it held.
Settles(rows, at, a, new) ==
    \/ \E row \in rows : at[row] = a /\ Lands(row, allocs[a], new)
    \/ (\A row \in rows : at[row] # a) /\ new = allocs[a]

LEMMA PlacedRows ==
    ASSUME TypeOK, NEW rows, Keyed(rows), NEW slots \in SUBSET Positions,
           NEW at \in Placements(rows, slots), NEW as, NEW a \in Positions, as[a] = allocs[a]
    PROVE  Settles(rows, at, a, Placed(as, at)[a])
<1>1. /\ at \in [rows -> slots] /\ DOMAIN at = rows
      /\ \A row, other \in rows : at[row] = at[other] => row = other
      /\ \A row \in rows : allocs[at[row]].exists => Key(allocs[at[row]]) = Key(row)
  BY PlacementFacts
<1>2. CASE \E row \in rows : at[row] = a
  <2>1. PICK row \in rows : at[row] = a
    BY <1>2
  <2>2. (CHOOSE r \in DOMAIN at : at[r] = a) = row
    BY <1>1, <2>1
  <2>3. Placed(as, at)[a] = Refreshed(allocs[a], row)
    BY <1>1, <2>1, <2>2 DEF Placed
  <2>4. allocs[a] \in AllocRow /\ row \in Reply
    BY DEF TypeOK, Keyed
  <2>5. Lands(row, allocs[a], Refreshed(allocs[a], row))
    BY <1>1, <2>1, <2>4, RefreshedRow DEF Lands
  <2> QED BY <2>1, <2>3, <2>5 DEF Settles
<1>3. CASE ~ \E row \in rows : at[row] = a
  BY <1>1, <1>3 DEF Placed, Settles
<1> QED BY <1>2, <1>3

\* The same in the set, whose positions the reply does not name are closed.
Renews(s, rows, at, a, new) ==
    \/ /\ a \in Stale(rows, Slots(s)) /\ (\A row \in rows : at[row] # a)
       /\ new = [allocs[a] EXCEPT !.required = 0]
    \/ a \notin Stale(rows, Slots(s)) /\ Settles(rows, at, a, new)

LEMMA InventoryRows ==
    ASSUME TypeOK, NEW s \in Sets, NEW rows, Keyed(rows),
           NEW at \in Placements(rows, Slots(s)), NEW a \in Positions
    PROVE  Renews(s, rows, at, a, RefreshedInventory(s, rows, at)[a])
<1>1. Slots(s) \in SUBSET Positions
  BY DEF Slots, Positions
<1>2. Settles(rows, at, a, Placed(allocs, at)[a])
  BY <1>1, PlacedRows
<1>3. CASE a \in Stale(rows, Slots(s))
  <2>1. allocs[a].exists /\ \A row \in rows : Key(allocs[a]) # Key(row)
    BY <1>3 DEF Stale, Kept, Keys
  <2>2. \A row \in rows : at[row] # a
    BY <2>1, PlacementFacts
  <2> QED BY <1>3, <2>2 DEF RefreshedInventory, Renews
<1>4. CASE a \notin Stale(rows, Slots(s))
  <2>1. RefreshedInventory(s, rows, at)[a] = Placed(allocs, at)[a]
    BY <1>4 DEF RefreshedInventory
  <2> QED BY <1>2, <1>4, <2>1 DEF Renews
<1> QED BY <1>3, <1>4
-----------------------------------------------------------------------------
(***************************************************************************)
(* What a refresh writes to the positions.                                 *)
(***************************************************************************)
\* The items of set s hold the rows of the reply, each row once, what the
\* reply dropped is closed, and everything else is as it was.
ItemsStored(s, rows, new) ==
    /\ \A a \in SetItems :
         \/ /\ a \in Stale(rows, Slots(s))
            /\ new[a] = [allocs[a] EXCEPT !.required = 0]
         \/ a \in Slots(s) /\ \E row \in rows : Lands(row, allocs[a], new[a])
         \/ /\ new[a] = allocs[a]
            /\ a \in Slots(s) /\ allocs[a].exists =>
                 allocs[a].required = 0 /\ Key(allocs[a]) \notin Keys(rows)
    /\ \A row \in rows : \E a \in Slots(s) : Lands(row, allocs[a], new[a])
    /\ \A a, b \in SetItems :
         (/\ new[a].exists /\ new[b].exists
          /\ SetOf[a] = SetOf[b] /\ Key(new[a]) = Key(new[b])) => a = b

\* The same for the components of the figures of the reply; none is dropped.
ComponentsStored(found, new) ==
    /\ \A a \in FigureParts :
         \/ /\ FigureOf[a] \in DOMAIN found
            /\ \E row \in AtLeastOne(found[FigureOf[a]]) : Lands(row, allocs[a], new[a])
         \/ new[a] = allocs[a]
    /\ \A f \in DOMAIN found : \A row \in AtLeastOne(found[f]) :
         \E a \in Components(f) : Lands(row, allocs[a], new[a])

LEMMA RefreshStoresItems ==
    ASSUME TypeOK, Grounded, NEW s \in Sets, NEW rows, Keyed(rows),
           NEW at \in Placements(rows, Slots(s))
    PROVE  ItemsStored(s, rows, RefreshedInventory(s, rows, at))
<1> DEFINE new == RefreshedInventory(s, rows, at)
<1>0. /\ SetItems \subseteq Positions
      /\ \A a \in Slots(s) : a \in SetItems /\ SetOf[a] = s
      /\ \A a \in SetItems : SetOf[a] = s => a \in Slots(s)
  BY DEF Positions, Slots
<1>1. ASSUME NEW a \in SetItems
      PROVE  \/ /\ a \in Stale(rows, Slots(s)) /\ (\A row \in rows : at[row] # a)
                /\ new[a] = [allocs[a] EXCEPT !.required = 0]
             \/ \E row \in rows : at[row] = a /\ Lands(row, allocs[a], new[a])
             \/ /\ a \notin Stale(rows, Slots(s)) /\ (\A row \in rows : at[row] # a)
                /\ new[a] = allocs[a]
  <2>1. Renews(s, rows, at, a, new[a])
    BY <1>0, InventoryRows
  <2> QED BY <2>1 DEF Renews, Settles
<1> HIDE DEF new
<1>2. /\ at \in [rows -> Slots(s)]
      /\ \A row, other \in rows : at[row] = at[other] => row = other
      /\ \A row \in rows : allocs[at[row]].exists => Key(allocs[at[row]]) = Key(row)
      /\ \A row \in rows, a \in Slots(s) :
           allocs[a].exists /\ Key(allocs[a]) = Key(row) => allocs[at[row]].exists
  BY PlacementFacts
\* A row on file with a key of the reply is where the reply is stored.
<1>3. ASSUME NEW row \in rows, NEW a \in Slots(s), allocs[a].exists,
             Key(allocs[a]) = Key(row)
      PROVE  at[row] = a
  <2>1. allocs[at[row]].exists /\ Key(allocs[at[row]]) = Key(row) /\ at[row] \in Slots(s)
    BY <1>2, <1>3
  <2> QED BY <1>0, <1>3, <2>1 DEF Grounded, ItemsApart
<1>4. ASSUME NEW row \in rows
      PROVE  Lands(row, allocs[at[row]], new[at[row]])
  <2>1. at[row] \in SetItems
    BY <1>0, <1>2
  <2>2. PICK r \in rows : at[r] = at[row] /\ Lands(r, allocs[at[row]], new[at[row]])
    BY <1>1, <2>1
  <2> QED BY <1>2, <2>2
<1>5. ASSUME NEW a \in SetItems
      PROVE  \/ /\ a \in Stale(rows, Slots(s))
                /\ new[a] = [allocs[a] EXCEPT !.required = 0]
             \/ a \in Slots(s) /\ \E row \in rows : Lands(row, allocs[a], new[a])
             \/ /\ new[a] = allocs[a]
                /\ a \in Slots(s) /\ allocs[a].exists =>
                     allocs[a].required = 0 /\ Key(allocs[a]) \notin Keys(rows)
  <2>1. CASE a \notin Stale(rows, Slots(s)) /\ (\A row \in rows : at[row] # a)
             /\ new[a] = allocs[a]
    <3>1. ASSUME a \in Slots(s), allocs[a].exists
          PROVE  allocs[a].required = 0 /\ Key(allocs[a]) \notin Keys(rows)
      <4>1. Key(allocs[a]) \notin Keys(rows)
        BY <1>3, <2>1, <3>1 DEF Keys
      <4>2. allocs[a].required \in Nat
        BY <1>0 DEF TypeOK, AllocRow
      <4> QED BY <2>1, <3>1, <4>1, <4>2 DEF Stale, Kept
    <3> QED BY <2>1, <3>1
  <2> QED BY <1>1, <1>2, <2>1
\* After the refresh, too, the key tells the items of a set apart.
<1>6. ASSUME NEW a \in SetItems, (\A row \in rows : at[row] # a), new[a].exists
      PROVE  allocs[a].exists /\ Key(new[a]) = Key(allocs[a])
  <2>1. new[a] = allocs[a] \/ new[a] = [allocs[a] EXCEPT !.required = 0]
    BY <1>1, <1>6
  <2>2. allocs[a] \in AllocRow
    BY <1>0 DEF TypeOK
  <2> QED BY <1>6, <2>1, <2>2 DEF AllocRow, Key
<1>7. ASSUME NEW a \in SetItems, NEW b \in SetItems, new[a].exists, new[b].exists,
             SetOf[a] = SetOf[b], Key(new[a]) = Key(new[b]), NEW row \in rows, at[row] = a
      PROVE  a = b
  <2>1. Key(new[a]) = Key(row) /\ b \in Slots(s)
    BY <1>0, <1>2, <1>4, <1>7 DEF Lands
  <2>2. CASE \E r \in rows : at[r] = b
    <3>1. PICK r \in rows : at[r] = b
      BY <2>2
    <3>2. Key(new[b]) = Key(r)
      BY <1>4, <3>1 DEF Lands
    <3> QED BY <1>7, <2>1, <3>1, <3>2 DEF Keyed
  <2>3. CASE \A r \in rows : at[r] # b
    BY <1>3, <1>6, <1>7, <2>1, <2>3
  <2> QED BY <2>2, <2>3
<1>8. ASSUME NEW a \in SetItems, NEW b \in SetItems, new[a].exists, new[b].exists,
             SetOf[a] = SetOf[b], Key(new[a]) = Key(new[b])
      PROVE  a = b
  <2>1. CASE \E row \in rows : at[row] = a \/ at[row] = b
    BY <1>7, <1>8, <2>1
  <2>2. CASE \A row \in rows : at[row] # a /\ at[row] # b
    BY <1>6, <1>8, <2>2 DEF Grounded, ItemsApart
  <2> QED BY <2>1, <2>2
<1>9. \A row \in rows : \E a \in Slots(s) : Lands(row, allocs[a], new[a])
  BY <1>2, <1>4
<1> QED BY <1>5, <1>8, <1>9 DEF ItemsStored, new
LEMMA RefreshStoresComponents ==
    ASSUME TypeOK, NEW found, DOMAIN found \subseteq Figures,
           \A f \in DOMAIN found : Keyed(found[f]),
           NEW at \in FigurePlacements(found), NEW as,
           \A a \in FigureParts : as[a] = allocs[a]
    PROVE  /\ ComponentsStored(found, WithComponents(as, at))
           /\ \A a \in SetItems : WithComponents(as, at)[a] = as[a]
<1> DEFINE new == WithComponents(as, at)
<1>1. /\ DOMAIN at = DOMAIN found
      /\ \A f \in DOMAIN found : at[f] \in Placements(AtLeastOne(found[f]), Components(f))
  BY DEF FigurePlacements
<1>2. /\ FigureParts \subseteq Positions /\ SetItems \subseteq Positions
      /\ SetItems \cap FigureParts = {}
      /\ \A f \in Figures : Components(f) \subseteq FigureParts
      /\ \A f \in Figures : Components(f) \in SUBSET Positions
      /\ \A f \in Figures : \A a \in Components(f) : FigureOf[a] = f
  BY KeysAssumption DEF Positions, Components
<1>3. ASSUME NEW a \in FigureParts, FigureOf[a] \in DOMAIN found
      PROVE  /\ new[a] = Placed(as, at[FigureOf[a]])[a]
             /\ \/ \E row \in AtLeastOne(found[FigureOf[a]]) :
                     at[FigureOf[a]][row] = a /\ Lands(row, allocs[a], new[a])
                \/ /\ \A row \in AtLeastOne(found[FigureOf[a]]) : at[FigureOf[a]][row] # a
                   /\ new[a] = allocs[a]
  <2> DEFINE f == FigureOf[a]
             rows == AtLeastOne(found[f])
             place == at[f]
             slots == Components(f)
  <2>1. /\ Keyed(rows) /\ slots \in SUBSET Positions
        /\ place \in Placements(rows, slots) /\ a \in Positions /\ as[a] = allocs[a]
    BY <1>1, <1>2, <1>3, AtLeastOneKeyed
  <2>2. new[a] = Placed(as, place)[a]
    BY <1>1, <1>2, <1>3 DEF WithComponents
  <2> HIDE DEF f, rows, new, place, slots
  <2>3. Settles(rows, place, a, Placed(as, place)[a])
    BY <2>1, PlacedRows
  <2> QED BY <2>2, <2>3 DEF f, rows, place, Settles
<1>4. ASSUME NEW a \in FigureParts, FigureOf[a] \notin DOMAIN found
      PROVE  new[a] = allocs[a]
  BY <1>1, <1>2, <1>4 DEF WithComponents
<1>5. ASSUME NEW f \in DOMAIN found, NEW row \in AtLeastOne(found[f])
      PROVE  \E a \in Components(f) : Lands(row, allocs[a], new[a])
  <2>1. /\ at[f] \in [AtLeastOne(found[f]) -> Components(f)]
        /\ \A r, o \in AtLeastOne(found[f]) : at[f][r] = at[f][o] => r = o
    BY <1>1, PlacementFacts
  <2>2. PICK a \in Components(f) : a = at[f][row]
    BY <2>1
  <2>3. a \in FigureParts /\ FigureOf[a] = f
    BY <1>2, <2>2
  <2> HIDE DEF new
  <2>4. PICK r \in AtLeastOne(found[f]) : at[f][r] = a /\ Lands(r, allocs[a], new[a])
    <3>1. ~ \A r \in AtLeastOne(found[f]) : at[f][r] # a
      BY <2>2
    <3>2. \/ \E r \in AtLeastOne(found[FigureOf[a]]) :
               at[FigureOf[a]][r] = a /\ Lands(r, allocs[a], new[a])
          \/ /\ \A r \in AtLeastOne(found[FigureOf[a]]) : at[FigureOf[a]][r] # a
             /\ new[a] = allocs[a]
      BY <1>3, <2>3
    <3> QED BY <2>3, <3>1, <3>2
  <2> QED BY <2>1, <2>2, <2>4
<1>6. \A a \in SetItems : new[a] = as[a]
  BY <1>2 DEF WithComponents
<1>7. ComponentsStored(found, new)
  <2> HIDE DEF new
  <2> QED BY <1>3, <1>4, <1>5 DEF ComponentsStored
<1> QED BY <1>6, <1>7

\* The amounts aside, two rows are the same.
SameReference(row, other) ==
    /\ row.exists = other.exists /\ row.required = other.required
    /\ row.spare = other.spare /\ row.ident = other.ident

LEMMA InitializedRows ==
    ASSUME NEW as \in [Positions -> AllocRow], NEW figs, NEW s
    PROVE  /\ Initialized(as, figs, s) \in [Positions -> AllocRow]
           /\ \A a \in Positions : SameReference(Initialized(as, figs, s)[a], as[a])
BY DEF Initialized, AllocRow, SameReference

LEMMA LandedType ==
    ASSUME TypeOK, NEW s, NEW rows, NEW found, NEW new, ItemsStored(s, rows, new),
           ComponentsStored(found, new), NEW a \in Positions
    PROVE  new[a] \in AllocRow
<1>1. /\ a \in SetItems \/ a \in FigureParts
      /\ allocs[a] \in AllocRow
      /\ [allocs[a] EXCEPT !.required = 0] \in AllocRow
  BY DEF Positions, TypeOK, AllocRow
<1>2. CASE a \in SetItems
  BY <1>1, <1>2 DEF ItemsStored, Lands
<1>3. CASE a \in FigureParts
  BY <1>1, <1>3 DEF ComponentsStored, Lands
<1> QED BY <1>1, <1>2, <1>3

\* A page of the reply is told apart by its keys.
LEMMA RepliesKeyed ==
    /\ \A rows \in InventoryReplies : Keyed(rows) /\ IsFiniteSet(rows)
    /\ \A reply \in FigureReplies :
         /\ DOMAIN reply.figures \subseteq Figures
         /\ \A f \in DOMAIN reply.figures : Keyed(reply.figures[f])
BY RepliesAssumption DEF Keyed, Rows

LEMMA SynchronizeStores ==
    ASSUME TypeOK, Grounded, NEW s \in Sets, NEW rows \in InventoryReplies,
           NEW reply \in FigureReplies, NEW initialize, Synchronize(s, rows, reply, initialize)
    PROVE  \E new \in [Positions -> AllocRow] :
              /\ ItemsStored(s, rows, new) /\ ComponentsStored(reply.figures, new)
              /\ allocs' \in [Positions -> AllocRow]
              /\ \A a \in Positions : SameReference(allocs'[a], new[a])
              /\ ~initialize => allocs' = new
<1>1. PICK at \in Placements(rows, Slots(s)), components \in FigurePlacements(reply.figures) :
         allocs' = IF initialize
                   THEN Initialized(WithComponents(RefreshedInventory(s, rows, at), components),
                                    figures', s)
                   ELSE WithComponents(RefreshedInventory(s, rows, at), components)
  BY DEF Synchronize
<1> DEFINE as == RefreshedInventory(s, rows, at)
           new == WithComponents(as, components)
<1>2. Keyed(rows) /\ DOMAIN reply.figures \subseteq Figures
      /\ \A f \in DOMAIN reply.figures : Keyed(reply.figures[f])
  BY RepliesKeyed
<1>3. ItemsStored(s, rows, as)
  BY <1>2, RefreshStoresItems
<1>4. \A a \in FigureParts : as[a] = allocs[a]
  <2> SUFFICES ASSUME NEW a \in FigureParts PROVE as[a] = allocs[a]
    OBVIOUS
  <2>1. a \in Positions /\ a \notin Slots(s)
    BY KeysAssumption DEF Positions, Slots
  <2>2. a \notin Stale(rows, Slots(s))
    BY <2>1 DEF Stale, Kept
  <2>3. \A row \in rows : at[row] # a
    BY <2>1, PlacementFacts
  <2>4. Renews(s, rows, at, a, as[a])
    BY <1>2, <2>1, InventoryRows
  <2> QED BY <2>2, <2>3, <2>4 DEF Renews, Settles
<1> HIDE DEF as
<1>5. ComponentsStored(reply.figures, new) /\ \A a \in SetItems : new[a] = as[a]
  BY <1>2, <1>4, RefreshStoresComponents
<1>6. ItemsStored(s, rows, new)
  <2>1. \A a \in Slots(s) : a \in SetItems
    BY DEF Slots
  <2> HIDE DEF new
  <2> QED BY <1>3, <1>5, <2>1 DEF ItemsStored
<1>7. new \in [Positions -> AllocRow]
  <2>1. new = [a \in Positions |-> new[a]]
    BY DEF WithComponents
  <2> HIDE DEF new
  <2>2. \A a \in Positions : new[a] \in AllocRow
    BY <1>5, <1>6, LandedType
  <2> QED BY <2>1, <2>2
<1>8. allocs' = IF initialize THEN Initialized(new, figures', s) ELSE new
  BY <1>1 DEF as
<1> HIDE DEF new
<1>9. /\ Initialized(new, figures', s) \in [Positions -> AllocRow]
      /\ \A a \in Positions : SameReference(Initialized(new, figures', s)[a], new[a])
  BY <1>7, InitializedRows
<1>10. \A a \in Positions : SameReference(new[a], new[a])
  BY DEF SameReference
<1> QED BY <1>5, <1>6, <1>7, <1>8, <1>9, <1>10
-----------------------------------------------------------------------------
(***************************************************************************)
(* What a refresh writes to the Parts.                                     *)
(***************************************************************************)
\* A Part after a refresh: only its quantity may differ.
Requoted(old, new) ==
    \E quantity \in Nat : old.owned <= quantity /\ new = [old EXCEPT !.quantity = quantity]

LEMMA QuantityReconciled ==
    ASSUME NEW rows, Keyed(rows), IsFiniteSet(rows), NEW order \in Orders(rows),
           NEW p \in Parts, parts[p] \in PartRow, Clean(parts[p]),
           NEW seen \in SUBSET rows, NEW dropped
    PROVE  LET quantity == ReconciledQuantity(p, seen, dropped, order)
           IN  quantity \in Nat /\ parts[p].owned <= quantity
<1>1. parts[p].owned \in Nat /\ parts[p].quantity \in Nat
      /\ parts[p].owned <= parts[p].quantity
  BY DEF PartRow, Clean
<1>2. ASSUME seen # {}
      PROVE  (CHOOSE row \in seen : \A other \in seen : order[other] <= order[row]) \in seen
  BY <1>2, LastRow
<1>3. \A row \in rows : row.required \in Nat
  BY DEF Keyed, Reply
<1>4. CASE dropped # {}
  BY <1>1, <1>4 DEF ReconciledQuantity
<1>5. CASE dropped = {} /\ seen = {}
  BY <1>1, <1>5 DEF ReconciledQuantity
<1>6. CASE dropped = {} /\ seen # {}
  <2> DEFINE last == CHOOSE row \in seen : \A other \in seen : order[other] <= order[row]
  <2>1. last.required \in Nat
    BY <1>2, <1>3, <1>6
  <2>2. ReconciledQuantity(p, seen, dropped, order) = Larger(last.required, parts[p].owned)
    BY <1>6 DEF ReconciledQuantity
  <2> HIDE DEF last
  <2> QED BY <1>1, <2>1, <2>2 DEF Larger
<1> QED BY <1>4, <1>5, <1>6

\* The rows of the reply that reconcile Part p, in the order `rank` of the Parts.
Seen(s, rows, p, rank) ==
    {row \in rows : IsFirst(p, Reconciled(s, KeyElement(row.ident), row.ident), rank)}
Dropped(s, stale, p, rank) ==
    {a \in stale : IsFirst(p, Reconciled(s, allocs[a].ident.element, allocs[a].ident), rank)}

\* In some order of the Parts and of the rows, every Part has its new quantity.
Reconciles(s, rows, stale, new) ==
    \E rank \in Orders(Parts), order \in Orders(rows) :
       /\ new = [p \in Parts |-> new[p]]
       /\ \A p \in Parts :
            LET quantity == ReconciledQuantity(p, Seen(s, rows, p, rank),
                                               Dropped(s, stale, p, rank), order)
            IN  /\ quantity \in Nat /\ parts[p].owned <= quantity
                /\ new[p] = [parts[p] EXCEPT !.quantity = quantity]

LEMMA ReconciledRows ==
    ASSUME IInv, NEW s, NEW rows, Keyed(rows), IsFiniteSet(rows), NEW stale,
           NEW new \in ReconciledParts(s, rows, stale)
    PROVE  Reconciles(s, rows, stale, new)
<1> DEFINE Row(p, rank, order) ==
              [parts[p] EXCEPT !.quantity =
                 ReconciledQuantity(p, Seen(s, rows, p, rank), Dropped(s, stale, p, rank), order)]
<1>0. ReconciledParts(s, rows, stale) =
         {[p \in Parts |-> Row(p, rank, order)] : rank \in Orders(Parts), order \in Orders(rows)}
  BY DEF ReconciledParts, Seen, Dropped
<1>1. PICK rank \in Orders(Parts), order \in Orders(rows) : new = [p \in Parts |-> Row(p, rank, order)]
  <2> HIDE DEF Row
  <2> QED BY <1>0
<1>2. ASSUME NEW p \in Parts
      PROVE  LET quantity == ReconciledQuantity(p, Seen(s, rows, p, rank),
                                                Dropped(s, stale, p, rank), order)
             IN  quantity \in Nat /\ parts[p].owned <= quantity
  <2>1. parts[p] \in PartRow /\ Clean(parts[p])
    BY DEF IInv, TypeOK, OwnedWithinQuantity, Clean
  <2>2. Seen(s, rows, p, rank) \in SUBSET rows
    BY DEF Seen
  <2> QED BY <2>1, <2>2, QuantityReconciled
<1> QED BY <1>1, <1>2 DEF Reconciles

LEMMA RequotedKeepsSound ==
    ASSUME NEW old, Sound(old), NEW quantity \in Nat, old.owned <= quantity
    PROVE  Sound([old EXCEPT !.quantity = quantity])
<1> DEFINE new == [old EXCEPT !.quantity = quantity]
<1>1. /\ new \in PartRow /\ new.owned = old.owned /\ new.unassigned = old.unassigned
      /\ new.present = old.present /\ new.quantity = quantity
  BY DEF Sound, PartRow
<1> HIDE DEF new
<1>2. Sound(new)
  BY <1>1 DEF Sound, Clean
<1> QED BY <1>2 DEF new

LEMMA ReconciledKeepsIInv ==
    ASSUME IInv, NEW s, NEW rows, Keyed(rows), IsFiniteSet(rows), NEW stale,
           parts' \in ReconciledParts(s, rows, stale),
           sets' \in [Sets -> {"absent", "live", "trashed"}],
           figures' \in [Figures -> [exists: BOOLEAN, set: Sets \cup {NoSet}]],
           allocs' \in [Positions -> AllocRow]
    PROVE  IInv'
<1>1. \A p \in Parts : Sound(parts[p])
  BY SoundRows DEF IInv, TypeOK, PresenceMarker, OwnedWithinQuantity
<1> PICK new : new = parts'
  OBVIOUS
<1>2. Reconciles(s, rows, stale, new)
  BY ReconciledRows
<1>3. \A p \in Parts : Sound(parts'[p])
  <2> SUFFICES ASSUME NEW p \in Parts PROVE Sound(new[p])
    OBVIOUS
  <2>1. PICK quantity \in Nat : /\ parts[p].owned <= quantity
                                /\ new[p] = [parts[p] EXCEPT !.quantity = quantity]
    BY <1>2 DEF Reconciles
  <2>2. Sound(parts[p])
    BY <1>1
  <2> QED BY <2>1, <2>2, RequotedKeepsSound
<1>4. parts' \in [Parts -> PartRow]
  <2>1. \A p \in Parts : parts'[p] \in PartRow
    BY <1>3 DEF Sound
  <2> QED BY <1>2, <2>1 DEF Reconciles
<1>5. /\ \A p \in Parts : parts'[p].present = ExpectedPresent(parts'[p].owned, parts'[p].unassigned)
      /\ \A p \in Parts : parts'[p].owned <= parts'[p].quantity
  BY <1>3, <1>4, SoundRows
<1> QED BY <1>4, <1>5 DEF IInv, TypeOK, PresenceMarker, OwnedWithinQuantity
-----------------------------------------------------------------------------
(***************************************************************************)
(* Every step keeps the invariant.                                         *)
(***************************************************************************)
LEMMA AttachedFigures ==
    ASSUME TypeOK, NEW s \in Sets, NEW reply \in FigureReplies
    PROVE  /\ Attached(reply.figures, s) \in [Figures -> [exists: BOOLEAN, set: Sets \cup {NoSet}]]
           /\ \A f \in DOMAIN reply.figures : Attached(reply.figures, s)[f].exists
           /\ \A f \in Figures : figures[f].exists => Attached(reply.figures, s)[f].exists
<1>1. DOMAIN reply.figures \subseteq Figures
  BY RepliesKeyed
<1> QED BY <1>1 DEF Attached, TypeOK

LEMMA SynchronizeKeeps ==
    ASSUME IInv, Grounded, NEW s \in Sets, NEW rows \in InventoryReplies,
           NEW reply \in FigureReplies, NEW initialize, Synchronize(s, rows, reply, initialize),
           sets' \in [Sets -> {"absent", "live", "trashed"}]
    PROVE  IInv' /\ Grounded'
<1>0. /\ TypeOK /\ Keyed(rows) /\ IsFiniteSet(rows)
      /\ SetItems \subseteq Positions /\ FigureParts \subseteq Positions
      /\ FigureOf \in [FigureParts -> Figures]
      /\ figures' = Attached(reply.figures, s)
      /\ parts' \in ReconciledParts(s, rows, Stale(rows, Slots(s)))
  BY RepliesKeyed, KeysAssumption DEF IInv, Positions, Synchronize
<1>1. PICK new \in [Positions -> AllocRow] :
         /\ ItemsStored(s, rows, new) /\ ComponentsStored(reply.figures, new)
         /\ allocs' \in [Positions -> AllocRow]
         /\ \A a \in Positions : SameReference(allocs'[a], new[a])
  BY <1>0, SynchronizeStores
<1>2. /\ figures' \in [Figures -> [exists: BOOLEAN, set: Sets \cup {NoSet}]]
      /\ \A f \in DOMAIN reply.figures : figures'[f].exists
      /\ \A f \in Figures : figures[f].exists => figures'[f].exists
  BY <1>0, AttachedFigures
<1>3. IInv'
  BY <1>0, <1>1, <1>2, ReconciledKeepsIInv
<1>4. ItemsApart'
  BY <1>0, <1>1 DEF ItemsStored, ItemsApart, SameReference, Key
<1>5. ComponentsHaveFigure'
  <2> SUFFICES ASSUME NEW a \in FigureParts, allocs'[a].exists
               PROVE  figures'[FigureOf[a]].exists
    BY DEF ComponentsHaveFigure
  <2>1. new[a].exists
    BY <1>0, <1>1 DEF SameReference
  <2>2. FigureOf[a] \in DOMAIN reply.figures \/ new[a] = allocs[a]
    BY <1>1 DEF ComponentsStored
  <2> QED BY <1>0, <1>2, <2>1, <2>2 DEF Grounded, ComponentsHaveFigure
<1> QED BY <1>3, <1>4, <1>5 DEF Grounded

LEMMA MinifigureKeeps ==
    ASSUME IInv, Grounded, NEW f \in Figures, NEW rows \in InventoryReplies,
           MinifigureAdd(f, rows)
    PROVE  IInv' /\ Grounded'
<1>0. /\ TypeOK /\ Keyed(rows)
      /\ SetItems \subseteq Positions /\ FigureParts \subseteq Positions
      /\ SetItems \cap FigureParts = {} /\ FigureOf \in [FigureParts -> Figures]
      /\ Components(f) \subseteq FigureParts /\ Components(f) \in SUBSET Positions
      /\ \A a \in FigureParts : a \in Components(f) <=> FigureOf[a] = f
  BY RepliesKeyed, KeysAssumption DEF IInv, Positions, Components
<1>1. /\ figures' = [figures EXCEPT ![f] = [exists |-> TRUE, set |-> NoSet]]
      /\ sets' = sets /\ parts' = parts
  BY DEF MinifigureAdd
<1>2. PICK at \in Placements(rows, Components(f)) :
         allocs' = [a \in Positions |->
                      IF a \in Components(f)
                      THEN [Placed(allocs, at)[a] EXCEPT !.owned = Placed(allocs, at)[a].required]
                      ELSE allocs[a]]
  BY DEF MinifigureAdd
<1>3. ASSUME NEW a \in Positions
      PROVE  Placed(allocs, at)[a] \in AllocRow
  <2>1. Settles(rows, at, a, Placed(allocs, at)[a])
    BY <1>0, PlacedRows
  <2> QED BY <1>0, <2>1 DEF Settles, Lands, TypeOK
<1>4. allocs' \in [Positions -> AllocRow]
  <2> DEFINE placed == Placed(allocs, at)
  <2>1. \A a \in Positions : placed[a] \in AllocRow
    BY <1>3
  <2> HIDE DEF placed
  <2>2. \A a \in Positions : [placed[a] EXCEPT !.owned = placed[a].required] \in AllocRow
    BY <2>1 DEF AllocRow
  <2> QED BY <1>0, <1>2, <2>2 DEF TypeOK, placed
<1>5. /\ figures' \in [Figures -> [exists: BOOLEAN, set: Sets \cup {NoSet}]]
      /\ figures'[f].exists /\ \A g \in Figures : figures[g].exists => figures'[g].exists
  BY <1>0, <1>1 DEF TypeOK
<1>6. IInv'
  BY <1>1, <1>4, <1>5 DEF IInv, TypeOK, PresenceMarker, OwnedWithinQuantity
<1>7. \A a \in Positions : a \notin Components(f) => allocs'[a] = allocs[a]
  BY <1>2
<1>8. ItemsApart'
  BY <1>0, <1>7 DEF Grounded, ItemsApart
<1>9. ComponentsHaveFigure'
  BY <1>0, <1>5, <1>7 DEF Grounded, ComponentsHaveFigure
<1> QED BY <1>6, <1>8, <1>9 DEF Grounded

LEMMA InitSyncInv == SyncInit => SyncInv
<1> SUFFICES ASSUME SyncInit PROVE SyncInv
  OBVIOUS
<1>1. Init /\ newly = {} /\ answer = Untold
  BY DEF SyncInit
<1>2. \A a \in Positions : ~allocs[a].exists
  BY <1>1 DEF Init, BlankAlloc
<1>3. Grounded
  BY <1>2 DEF Grounded, ItemsApart, ComponentsHaveFigure, Positions
<1>4. SessionTypes
  BY <1>1 DEF SessionTypes, Untold, Told
<1> QED BY <1>1, <1>3, <1>4, InitIInv DEF SyncInv

LEMMA StepSyncInv == SyncInv /\ [SyncNext]_syncVars => SyncInv'
<1> SUFFICES ASSUME SyncInv, [SyncNext]_syncVars PROVE SyncInv'
  OBVIOUS
<1>0. /\ IInv /\ Grounded /\ SessionTypes /\ TypeOK
      /\ sets \in [Sets -> {"absent", "live", "trashed"}]
  BY DEF SyncInv, IInv, TypeOK
<1>1. CASE CatalogRequest
  <2>1. Next /\ newly' = {s \in newly : sets'[s] # "absent"} /\ answer' = Untold
    BY <1>1 DEF CatalogRequest
  <2>2. IInv' /\ Grounded'
    BY <1>0, <2>1, StepIInv, RequestGrounded
  <2>3. SessionTypes'
    BY <1>0, <2>1 DEF SessionTypes, Untold, Told
  <2> QED BY <2>2, <2>3 DEF SyncInv
<1>2. ASSUME NEW s \in Sets, CreateNewlyPurchased(s)
      PROVE  SyncInv'
  <2>1. CreateSet(s) /\ newly' = newly \cup {s} /\ answer' = Untold
    BY <1>2 DEF CreateNewlyPurchased
  <2>2. Next
    BY <2>1 DEF Next, TrashRequest
  <2>3. IInv' /\ Grounded'
    BY <1>0, <2>2, StepIInv, RequestGrounded
  <2>4. SessionTypes'
    BY <1>0, <2>1 DEF SessionTypes, Untold, Told, CreateSet
  <2> QED BY <2>3, <2>4 DEF SyncInv
<1>3. ASSUME NEW s \in Sets, NEW rows \in InventoryReplies, NEW reply \in FigureReplies,
             NEW bulk \in BOOLEAN, SyncRebrickable(s, rows, reply, bulk)
      PROVE  SyncInv'
  <2>1. PICK initialize : Synchronize(s, rows, reply, initialize)
    BY <1>3 DEF SyncRebrickable
  <2>2. sets' = sets /\ newly' \subseteq newly /\ answer'.told = "synchronized"
    BY <1>3 DEF SyncRebrickable, Told
  <2>3. IInv' /\ Grounded'
    BY <1>0, <2>1, <2>2, SynchronizeKeeps
  <2>4. SessionTypes'
    BY <1>0, <2>2 DEF SessionTypes
  <2> QED BY <2>3, <2>4 DEF SyncInv
<1>4. ASSUME NEW s \in Sets, NEW reply \in FigureReplies,
             SyncRateLimited(s, reply) \/ SyncRefused(s, reply)
      PROVE  SyncInv'
  <2>1. /\ sets' = sets /\ figures' = figures /\ allocs' = allocs /\ parts' = parts
        /\ newly' = newly /\ answer'.told \in {"rate_limited", "refused"}
    BY <1>4 DEF SyncRateLimited, SyncRefused, vars, Untold, Told
  <2> QED BY <1>0, <2>1 DEF SyncInv, IInv, TypeOK, PresenceMarker, OwnedWithinQuantity,
                            Grounded, ItemsApart, ComponentsHaveFigure, SessionTypes
<1>5. ASSUME NEW s \in Sets, NEW rows \in InventoryReplies, NEW reply \in FigureReplies,
             BatchSetImportOne(s, rows, reply)
      PROVE  SyncInv'
  <2>1. /\ Synchronize(s, rows, reply, TRUE) /\ sets' = [sets EXCEPT ![s] = "live"]
        /\ newly' = newly /\ answer'.told = "imported"
    BY <1>5 DEF BatchSetImportOne, Untold, Told
  <2>2. IInv' /\ Grounded'
    BY <1>0, <2>1, SynchronizeKeeps
  <2>3. SessionTypes'
    BY <1>0, <2>1 DEF SessionTypes
  <2> QED BY <2>2, <2>3 DEF SyncInv
<1>6. ASSUME NEW f \in Figures, NEW rows \in InventoryReplies, MinifigureAdd(f, rows)
      PROVE  SyncInv'
  <2>1. sets' = sets /\ newly' = newly /\ answer'.told = "imported"
    BY <1>6 DEF MinifigureAdd, Untold, Told
  <2>2. IInv' /\ Grounded'
    BY <1>0, <1>6, MinifigureKeeps
  <2>3. SessionTypes'
    BY <1>0, <2>1 DEF SessionTypes
  <2> QED BY <2>2, <2>3 DEF SyncInv
<1>7. CASE UNCHANGED syncVars
  BY <1>0, <1>7 DEF syncVars, SyncInv, IInv, TypeOK, PresenceMarker, OwnedWithinQuantity,
                    Grounded, ItemsApart, ComponentsHaveFigure, SessionTypes
<1> QED BY <1>1, <1>2, <1>3, <1>4, <1>5, <1>6, <1>7 DEF SyncNext

\* The pending sets and the answer have their types, and the catalog keeps its
\* own and the constraint on the Parts through refreshes and imports
\* (synchronize_set, create_standalone_minifigure).
THEOREM SyncTypesHold == SyncSpec => []SyncTypeOK
<1>1. SyncInv => SyncTypeOK
  BY DEF SyncInv, IInv, SessionTypes, SyncTypeOK
<1> QED BY <1>1, InitSyncInv, StepSyncInv, PTL DEF SyncSpec
-----------------------------------------------------------------------------
(***************************************************************************)
(* A refresh that initializes nothing keeps the state of the user.         *)
(***************************************************************************)
LEMMA RefreshStep ==
    ASSUME SyncInv, NEW s \in Sets, NEW rows \in InventoryReplies,
           NEW reply \in FigureReplies, NEW bulk \in BOOLEAN,
           SyncRebrickable(s, rows, reply, bulk), newly' = newly
    PROVE  /\ ItemsStored(s, rows, allocs') /\ ComponentsStored(reply.figures, allocs')
           /\ Reconciles(s, rows, Stale(rows, Slots(s)), parts')
           /\ answer' = Told("synchronized", s, rows, reply)
<1>0. TypeOK /\ Grounded /\ IInv /\ Keyed(rows) /\ IsFiniteSet(rows)
  BY RepliesKeyed DEF SyncInv, IInv
<1>1. ~(s \in newly /\ ~bulk)
  BY DEF SyncRebrickable
<1> DEFINE initialize == s \in newly /\ ~bulk
<1>2. Synchronize(s, rows, reply, initialize) /\ answer' = Told("synchronized", s, rows, reply)
  BY DEF SyncRebrickable
<1>i. ~initialize
  BY <1>1
<1> HIDE DEF initialize
<1>3. ItemsStored(s, rows, allocs') /\ ComponentsStored(reply.figures, allocs')
  BY <1>0, <1>2, <1>i, SynchronizeStores
<1> PICK new : new = parts'
  OBVIOUS
<1>4. new \in ReconciledParts(s, rows, Stale(rows, Slots(s)))
  BY <1>2 DEF Synchronize
<1>5. Reconciles(s, rows, Stale(rows, Slots(s)), new)
  BY <1>0, <1>4, ReconciledRows
<1> QED BY <1>2, <1>3, <1>5

LEMMA RefreshKeepsUserState ==
    ASSUME TypeOK, NEW s, NEW rows, NEW found, NEW stale, ItemsStored(s, rows, allocs'),
           ComponentsStored(found, allocs'), Reconciles(s, rows, stale, parts')
    PROVE  UserStateKept
<1>1. ASSUME NEW a \in Positions, allocs[a].exists
      PROVE  allocs'[a].exists /\ allocs'[a].owned = allocs[a].owned
  <2>1. /\ a \in SetItems \/ a \in FigureParts
        /\ allocs[a] \in AllocRow
    BY DEF Positions, TypeOK
  <2>2. LET closed == [allocs[a] EXCEPT !.required = 0]
        IN  closed.exists = allocs[a].exists /\ closed.owned = allocs[a].owned
    BY <2>1 DEF AllocRow
  <2>3. CASE a \in SetItems
    BY <1>1, <2>2, <2>3 DEF ItemsStored, Lands
  <2>4. CASE a \in FigureParts
    BY <1>1, <2>4 DEF ComponentsStored, Lands
  <2> QED BY <2>1, <2>3, <2>4
<1>2. ASSUME NEW p \in Parts
      PROVE  \E quantity \in {parts'[p].quantity} :
                parts'[p] = [parts[p] EXCEPT !.quantity = quantity]
  <2>1. PICK quantity \in Nat : parts'[p] = [parts[p] EXCEPT !.quantity = quantity]
    BY DEF Reconciles
  <2>2. parts'[p].quantity = quantity
    BY <2>1 DEF TypeOK, PartRow
  <2> QED BY <2>1, <2>2
<1> QED BY <1>1, <1>2 DEF UserStateKept

\* A mirror of an item is one of the Parts that are looked up for it.
LEMMA MirrorIsFound ==
    ASSUME TypeOK, NEW p \in Parts, NEW a \in SetItems, MirrorShows(p, a)
    PROVE  /\ allocs[a].exists /\ SetOf[a] = parts[p].set /\ parts[p].set \in Sets
           /\ p \in Reconciled(SetOf[a], KeyElement(allocs[a].ident), allocs[a].ident)
<1>0. SetItems \cap FigureParts = {} /\ SetOf \in [SetItems -> Sets]
  BY KeysAssumption
<1>1. /\ a \in Matching(allocs, parts[p], FALSE) /\ parts[p].state = "live"
  BY DEF MirrorShows
<1>2. /\ a \in Eligible(allocs, parts[p], FALSE)
      /\ \/ /\ allocs[a].ident.element # NoElement
            /\ allocs[a].ident.element = parts[p].ident.element
         \/ /\ allocs[a].ident.element = NoElement
            /\ allocs[a].ident.number \in parts[p].ident.numbers
  BY <1>1 DEF Matching, BestMatches
<1>3. /\ allocs[a].exists /\ SetOf[a] = parts[p].set
      /\ allocs[a].ident.color = parts[p].ident.color
  BY <1>2 DEF Eligible, HomeSet
<1>4. parts[p].ident \in PartIdents
  BY DEF TypeOK, PartRow
<1>5. parts[p].ident.numbers \subseteq {parts[p].ident.element, NumberOf[parts[p].ident]}
  BY <1>4, RepliesAssumption
<1>6. \/ parts[p].ident.element = KeyElement(allocs[a].ident)
      \/ NumberOf[parts[p].ident] = allocs[a].ident.number
  BY <1>2, <1>5 DEF KeyElement
<1> QED BY <1>0, <1>1, <1>3, <1>6 DEF Reconciled

\* The item that a mirror shows, after the refresh of its set that names it.
LEMMA NamedItem ==
    ASSUME SyncInv, NEW s \in Sets, NEW rows, NEW a \in Slots(s), allocs[a].exists,
           ItemsStored(s, rows, allocs'), allocs'[a].required > 0,
           allocs'[a].ident = allocs[a].ident
    PROVE  \E row \in rows : /\ Key(allocs[a]) = Key(row) /\ row.ident = allocs[a].ident
                             /\ allocs'[a].required = row.required
                             /\ allocs'[a].owned = allocs[a].owned
<1>1. a \in SetItems /\ a \in Positions /\ allocs[a] \in AllocRow
  BY DEF Slots, Positions, SyncInv, IInv, TypeOK
<1>2. allocs'[a] # [allocs[a] EXCEPT !.required = 0]
  BY <1>1 DEF AllocRow
<1>3. PICK row \in rows : Lands(row, allocs[a], allocs'[a])
  BY <1>1, <1>2 DEF ItemsStored
<1> QED BY <1>3 DEF Lands

LEMMA FirstAlone ==
    ASSUME NEW p \in Parts, NEW candidates, NEW rank \in Orders(Parts),
           p \in candidates, candidates \ {p} = {}
    PROVE  IsFirst(p, candidates, rank)
<1>1. rank[p] \in 1..Cardinality(Parts) /\ Cardinality(Parts) \in Nat
  BY KeysAssumption, FS_CardinalityType DEF Orders
<1> QED BY <1>1 DEF IsFirst

\* An item that the refresh closes was open and has a key the reply lacks.
LEMMA StaleIsClosed ==
    ASSUME SyncInv, NEW s \in Sets, NEW rows, ItemsStored(s, rows, allocs'),
           NEW b \in Stale(rows, Slots(s))
    PROVE  /\ b \in SetItems /\ allocs[b].exists /\ allocs[b].required > 0
           /\ allocs'[b].required = 0
<1>1. /\ b \in SetItems /\ allocs[b].exists /\ allocs[b].required > 0
      /\ Key(allocs[b]) \notin Keys(rows) /\ b \in Slots(s)
      /\ allocs[b] \in AllocRow
  BY DEF Stale, Kept, Slots, SyncInv, IInv, TypeOK, Positions
<1>2. \A row \in rows : ~Lands(row, allocs[b], allocs'[b])
  BY <1>1 DEF Lands, Keys
<1>3. allocs'[b] = [allocs[b] EXCEPT !.required = 0]
  BY <1>1, <1>2 DEF ItemsStored
<1> QED BY <1>1, <1>3 DEF AllocRow
\* The Part of a set that is refreshed: its item is the only row that decides.
LEMMA MirrorOfRefreshedSet ==
    ASSUME SyncInv, NEW s \in Sets, NEW rows, Keyed(rows), NEW p \in Parts, NEW a \in SetItems,
           ItemsStored(s, rows, allocs'), Reconciles(s, rows, Stale(rows, Slots(s)), parts'),
           MirrorShows(p, a), parts[p].set = s,
           allocs'[a].required > 0, allocs'[a].ident = allocs[a].ident,
           answer'.rows = rows, answer'.set = s,
           ~DropsAnotherRow(p, a), ~NamesAnotherRow(p, a), ~HasRivals(p, a)
    PROVE  /\ parts'[p].quantity = Larger(allocs'[a].required, allocs'[a].owned)
           /\ allocs'[a].owned = allocs[a].owned
<1>0. TypeOK
  BY DEF SyncInv, IInv
<1>1. /\ allocs[a].exists /\ SetOf[a] = s /\ a \in Slots(s)
      /\ p \in Reconciled(s, KeyElement(allocs[a].ident), allocs[a].ident)
  BY <1>0, MirrorIsFound DEF Slots
<1>2. PICK row \in rows : /\ Key(allocs[a]) = Key(row) /\ row.ident = allocs[a].ident
                          /\ allocs'[a].required = row.required
                          /\ allocs'[a].owned = allocs[a].owned
  BY <1>1, NamedItem
<1>3. PICK rank \in Orders(Parts), order \in Orders(rows) :
         parts'[p] = [parts[p] EXCEPT !.quantity =
            ReconciledQuantity(p, Seen(s, rows, p, rank),
                               Dropped(s, Stale(rows, Slots(s)), p, rank), order)]
  BY DEF Reconciles
<1>4. Dropped(s, Stale(rows, Slots(s)), p, rank) = {}
  <2> SUFFICES ASSUME NEW b \in Dropped(s, Stale(rows, Slots(s)), p, rank) PROVE FALSE
    OBVIOUS
  <2>1. /\ b \in Stale(rows, Slots(s))
        /\ p \in Reconciled(parts[p].set, allocs[b].ident.element, allocs[b].ident)
    BY DEF Dropped, IsFirst
  <2>2. /\ b \in SetItems /\ allocs[b].exists /\ allocs[b].required > 0
        /\ allocs'[b].required = 0
    BY <2>1, StaleIsClosed
  <2>3. b # a
    BY <2>2
  <2> QED BY <2>1, <2>2, <2>3 DEF DropsAnotherRow
<1>5. Seen(s, rows, p, rank) = {row}
  <2>1. HasRivals(p, a) <=>
           Reconciled(s, KeyElement(allocs[a].ident), allocs[a].ident) \ {p} # {}
    BY DEF HasRivals
  <2>2. IsFirst(p, Reconciled(s, KeyElement(row.ident), row.ident), rank)
    BY <1>1, <1>2, <2>1, FirstAlone
  <2>3. row \in Seen(s, rows, p, rank)
    BY <2>2 DEF Seen
  <2>4. ASSUME NEW other \in Seen(s, rows, p, rank)
        PROVE  other = row
    <3>1. other \in rows /\ p \in Reconciled(s, KeyElement(other.ident), other.ident)
      BY DEF Seen, IsFirst
    <3>2. Key(other) = Key(allocs[a])
      BY <3>1 DEF NamesAnotherRow
    <3> QED BY <1>2, <3>1, <3>2 DEF Keyed
  <2> QED BY <2>3, <2>4
<1>6. ReconciledQuantity(p, {row}, {}, order) = Larger(row.required, parts[p].owned)
  <2>1. IsFiniteSet({row}) /\ order[row] \in 1..Cardinality(rows)
    BY FS_Singleton DEF Orders
  <2>2. (CHOOSE r \in {row} : \A other \in {row} : order[other] <= order[r]) = row
    BY <2>1
  <2> QED BY <2>2 DEF ReconciledQuantity
<1>7. parts[p].owned = allocs[a].owned /\ parts[p] \in PartRow
  BY <1>0 DEF MirrorShows, TypeOK
<1>8. parts'[p].quantity = Larger(row.required, parts[p].owned)
  BY <1>3, <1>4, <1>5, <1>6, <1>7 DEF PartRow
<1> QED BY <1>2, <1>7, <1>8

\* The Part of another set, and its item, are not touched.
LEMMA MirrorOfOtherSet ==
    ASSUME SyncInv, NEW s \in Sets, NEW rows, NEW p \in Parts, NEW a \in SetItems,
           ItemsStored(s, rows, allocs'), Reconciles(s, rows, Stale(rows, Slots(s)), parts'),
           MirrorShows(p, a), parts[p].set # s
    PROVE  /\ parts'[p].quantity = Larger(allocs'[a].required, allocs'[a].owned)
           /\ allocs'[a].owned = allocs[a].owned
<1>0. TypeOK /\ parts[p] \in PartRow
  BY DEF SyncInv, IInv, TypeOK
<1>1. SetOf[a] # s /\ a \notin Slots(s)
  BY <1>0, MirrorIsFound DEF Slots
<1>2. allocs'[a] = allocs[a]
  BY <1>1 DEF ItemsStored, Stale, Kept
<1>3. PICK rank \in Orders(Parts), order \in Orders(rows) :
         parts'[p] = [parts[p] EXCEPT !.quantity =
            ReconciledQuantity(p, Seen(s, rows, p, rank),
                               Dropped(s, Stale(rows, Slots(s)), p, rank), order)]
  BY DEF Reconciles
<1>4. \A element, ident : p \notin Reconciled(s, element, ident)
  BY DEF Reconciled
<1>5. Seen(s, rows, p, rank) = {} /\ Dropped(s, Stale(rows, Slots(s)), p, rank) = {}
  BY <1>4 DEF Seen, Dropped, IsFirst
<1>6. ReconciledQuantity(p, {}, {}, order) = parts[p].quantity
  BY DEF ReconciledQuantity
<1>7. parts'[p].quantity = parts[p].quantity
  BY <1>0, <1>3, <1>5, <1>6 DEF PartRow
<1> QED BY <1>2, <1>7 DEF MirrorShows

LEMMA RefreshKeepsMirrors ==
    ASSUME SyncInv, NEW s \in Sets, NEW rows, Keyed(rows),
           ItemsStored(s, rows, allocs'), Reconciles(s, rows, Stale(rows, Slots(s)), parts'),
           UserStateKept, answer'.rows = rows, answer'.set = s
    PROVE  MirrorsKept
<1> SUFFICES ASSUME NEW p \in Parts, NEW a \in SetItems,
                    MirrorShows(p, a), allocs'[a].required > 0,
                    allocs'[a].ident = allocs[a].ident,
                    ~DropsAnotherRow(p, a), ~NamesAnotherRow(p, a), ~HasRivals(p, a),
                    (Matching(allocs, parts[p], FALSE) = {a})'
             PROVE  MirrorShows(p, a)'
  BY DEF MirrorsKept
<1>1. /\ parts'[p].quantity = Larger(allocs'[a].required, allocs'[a].owned)
      /\ allocs'[a].owned = allocs[a].owned
  BY MirrorOfRefreshedSet, MirrorOfOtherSet
<1>2. parts'[p].state = parts[p].state /\ parts'[p].owned = parts[p].owned
  <2>1. parts[p] \in PartRow
    BY DEF SyncInv, IInv, TypeOK
  <2>2. PICK quantity : parts'[p] = [parts[p] EXCEPT !.quantity = quantity]
    BY DEF UserStateKept
  <2> QED BY <2>1, <2>2 DEF PartRow
<1> QED BY <1>1, <1>2 DEF MirrorShows

\* Only a refresh is told "synchronized".
LEMMA OnlyRefreshSynchronizes ==
    ASSUME SyncNext, answer'.told = "synchronized"
    PROVE  \E s \in Sets, rows \in InventoryReplies, reply \in FigureReplies, bulk \in BOOLEAN :
              SyncRebrickable(s, rows, reply, bulk)
<1>1. Untold.told = "none"
  BY DEF Untold, Told
<1>2. ~CatalogRequest /\ ~ \E s \in Sets : CreateNewlyPurchased(s)
  BY <1>1 DEF CatalogRequest, CreateNewlyPurchased
<1>3. ~ \E s \in Sets, reply \in FigureReplies : SyncRateLimited(s, reply) \/ SyncRefused(s, reply)
  BY DEF SyncRateLimited, SyncRefused, Untold, Told
<1>4. ~ \E s \in Sets, rows \in InventoryReplies, reply \in FigureReplies :
           BatchSetImportOne(s, rows, reply)
  BY DEF BatchSetImportOne, Untold, Told
<1>5. ~ \E f \in Figures, rows \in InventoryReplies : MinifigureAdd(f, rows)
  BY DEF MinifigureAdd, Untold, Told
<1> QED BY <1>2, <1>3, <1>4, <1>5 DEF SyncNext

\* A refresh that initializes nothing keeps every owned amount, status and
\* found piece, also on rows that Rebrickable dropped, and keeps a mirror that
\* shows its row in agreement with it (synchronize_set,
\* _reconcile_missing_part_requirement).
THEOREM RefreshKeepsUser == SyncSpec => SyncKeepsUserState
<1> DEFINE Kind == answer'.told = "synchronized" /\ newly' = newly =>
                      UserStateKept /\ MirrorsKept
<1>1. SyncInv /\ [SyncNext]_syncVars => [Kind]_syncVars
  <2> SUFFICES ASSUME SyncInv, SyncNext, answer'.told = "synchronized", newly' = newly
               PROVE  UserStateKept /\ MirrorsKept
    OBVIOUS
  <2>1. PICK s \in Sets, rows \in InventoryReplies, reply \in FigureReplies, bulk \in BOOLEAN :
           SyncRebrickable(s, rows, reply, bulk)
    BY OnlyRefreshSynchronizes
  <2>2. /\ ItemsStored(s, rows, allocs') /\ ComponentsStored(reply.figures, allocs')
        /\ Reconciles(s, rows, Stale(rows, Slots(s)), parts')
        /\ answer' = Told("synchronized", s, rows, reply)
    BY <2>1, RefreshStep
  <2>3. TypeOK /\ Keyed(rows) /\ answer'.rows = rows /\ answer'.set = s
    BY <2>2, RepliesKeyed DEF SyncInv, IInv, Told
  <2>4. UserStateKept
    BY <2>2, <2>3, RefreshKeepsUserState
  <2> QED BY <2>2, <2>3, <2>4, RefreshKeepsMirrors
<1> QED BY <1>1, InitSyncInv, StepSyncInv, PTL DEF SyncSpec, SyncKeepsUserState, Kind
-----------------------------------------------------------------------------
(***************************************************************************)
(* After a refresh the catalog holds what the reply says.                  *)
(***************************************************************************)
\* The reference fields of the positions after a step.
AsStored(new) ==
    /\ new \in [Positions -> AllocRow] /\ allocs' \in [Positions -> AllocRow]
    /\ \A a \in Positions : SameReference(allocs'[a], new[a])

LEMMA OpenItem ==
    ASSUME SyncInv, NEW s \in Sets, NEW rows, NEW new, ItemsStored(s, rows, new),
           NEW a \in Slots(s), new[a].exists, new[a].required > 0
    PROVE  \E row \in rows : Lands(row, allocs[a], new[a])
<1>1. a \in SetItems /\ allocs[a] \in AllocRow
  BY DEF Slots, Positions, SyncInv, IInv, TypeOK
<1>2. new[a] # [allocs[a] EXCEPT !.required = 0]
  BY <1>1 DEF AllocRow
<1>3. ~ /\ new[a] = allocs[a]
        /\ allocs[a].exists => allocs[a].required = 0
  OBVIOUS
<1> QED BY <1>1, <1>2, <1>3 DEF ItemsStored

LEMMA ItemsAsTold ==
    ASSUME SyncInv, NEW s \in Sets, NEW rows, Keyed(rows), NEW new,
           ItemsStored(s, rows, new), AsStored(new)
    PROVE  /\ OpenRows(s)' = {row \in rows : row.required > 0}
           /\ OneRowPerKey(s)'
<1> DEFINE Reference(a) == [ident |-> allocs'[a].ident, spare |-> allocs'[a].spare,
                            required |-> allocs'[a].required]
           open == {a \in Slots(s) : allocs'[a].exists /\ allocs'[a].required > 0}
<1>0. /\ \A a \in Slots(s) : a \in SetItems /\ a \in Positions /\ SetOf[a] = s
      /\ \A a \in Positions : SameReference(allocs'[a], new[a])
  BY DEF Slots, Positions, AsStored
<1>1. OpenRows(s)' = {Reference(a) : a \in open}
  BY DEF OpenRows, Kept
<1>2. ASSUME NEW a \in Slots(s), NEW row \in rows, Lands(row, allocs[a], new[a])
      PROVE  Reference(a) = row
  <2>1. /\ allocs'[a].ident = row.ident /\ allocs'[a].spare = row.spare
        /\ allocs'[a].required = row.required
    BY <1>0, <1>2 DEF Lands, SameReference
  <2>2. row \in Reply
    BY DEF Keyed
  <2> QED BY <2>1, <2>2 DEF Reply
<1>3. ASSUME NEW a \in open
      PROVE  \E row \in rows : row.required > 0 /\ Reference(a) = row
  <2>1. a \in Slots(s) /\ new[a].exists /\ new[a].required > 0
    BY <1>0 DEF SameReference
  <2>2. PICK row \in rows : Lands(row, allocs[a], new[a])
    BY <2>1, OpenItem
  <2>3. row.required > 0
    BY <2>1, <2>2 DEF Lands
  <2> QED BY <1>2, <2>1, <2>2, <2>3
<1>4. ASSUME NEW row \in rows, row.required > 0
      PROVE  \E a \in open : Reference(a) = row
  <2>1. PICK a \in Slots(s) : Lands(row, allocs[a], new[a])
    BY DEF ItemsStored
  <2>2. a \in open
    BY <1>0, <1>4, <2>1 DEF Lands, SameReference
  <2> QED BY <1>2, <2>1, <2>2
<1>5. {Reference(a) : a \in open} = {row \in rows : row.required > 0}
  <2> HIDE DEF Reference, open
  <2> QED BY <1>3, <1>4
<1>6. ASSUME NEW a \in Slots(s), NEW b \in Slots(s), allocs'[a].exists, allocs'[b].exists,
             Key(allocs'[a]) = Key(allocs'[b])
      PROVE  a = b
  <2>1. /\ new[a].exists /\ new[b].exists
        /\ Key(new[a]) = Key(allocs'[a]) /\ Key(new[b]) = Key(allocs'[b])
    BY <1>0, <1>6 DEF SameReference, Key
  <2> QED BY <1>0, <1>6, <2>1 DEF ItemsStored
<1>7. OneRowPerKey(s)'
  BY <1>6 DEF OneRowPerKey, Kept
<1> QED BY <1>1, <1>5, <1>7

LEMMA KeysAtLeastOne ==
    ASSUME NEW rows, Keyed(rows)
    PROVE  /\ Keys(AtLeastOne(rows)) = Keys(rows)
           /\ \A row \in AtLeastOne(rows) : row.required > 0
<1>1. ASSUME NEW row \in rows
      PROVE  LET new == [row EXCEPT !.required = Larger(row.required, 1)]
             IN  Key(new) = Key(row) /\ new.required > 0
  BY <1>1 DEF Keyed, Reply, Key, Larger
<1>2. ASSUME NEW row \in rows
      PROVE  [row EXCEPT !.required = Larger(row.required, 1)] \in AtLeastOne(rows)
  BY DEF AtLeastOne
<1>3. ASSUME NEW new \in AtLeastOne(rows)
      PROVE  \E row \in rows : new = [row EXCEPT !.required = Larger(row.required, 1)]
  BY DEF AtLeastOne
<1>4. \A row \in AtLeastOne(rows) : row.required > 0
  BY <1>1, <1>3
<1>5. ASSUME NEW key \in Keys(AtLeastOne(rows))
      PROVE  key \in Keys(rows)
  BY <1>1, <1>3 DEF Keys
<1>6. ASSUME NEW key \in Keys(rows)
      PROVE  key \in Keys(AtLeastOne(rows))
  <2>1. PICK row \in rows : key = Key(row)
    BY DEF Keys
  <2> QED BY <1>1, <1>2, <2>1 DEF Keys
<1> QED BY <1>4, <1>5, <1>6

LEMMA FigureAsTold ==
    ASSUME SyncInv, NEW reply \in FigureReplies, NEW new, AsStored(new),
           ComponentsStored(reply.figures, new), ~DropsComponent(reply.figures),
           NEW f \in DOMAIN reply.figures, figures'[f].exists
    PROVE  HasComponents(f, AtLeastOne(reply.figures[f]))'
<1> DEFINE rows == AtLeastOne(reply.figures[f])
           open == {a \in Components(f) : allocs'[a].exists /\ allocs'[a].required > 0}
<1>0. /\ \A a \in Components(f) : a \in FigureParts /\ a \in Positions /\ FigureOf[a] = f
      /\ \A a \in Positions : SameReference(allocs'[a], new[a])
      /\ allocs \in [Positions -> AllocRow] /\ new \in [Positions -> AllocRow]
      /\ allocs' \in [Positions -> AllocRow]
      /\ Keyed(reply.figures[f]) /\ f \in Figures
  BY RepliesKeyed DEF Components, Positions, AsStored, SyncInv, IInv, TypeOK
<1>1. /\ OpenComponents(f)' = open
  BY DEF OpenComponents, Kept
<1>2. /\ Keys(rows) = Keys(reply.figures[f]) /\ \A row \in rows : row.required > 0
  BY <1>0, KeysAtLeastOne
<1> HIDE DEF rows
<1>3. ASSUME NEW row \in rows
      PROVE  \E a \in open : /\ Key(allocs'[a]) = Key(row)
                             /\ allocs'[a] = Refreshed(allocs'[a], row)
  <2>1. PICK a \in Components(f) : Lands(row, allocs[a], new[a])
    BY DEF ComponentsStored, rows
  <2>2. /\ allocs'[a].exists /\ allocs'[a].required = row.required
        /\ allocs'[a].ident = row.ident /\ allocs'[a].spare = row.spare
    BY <1>0, <2>1 DEF Lands, SameReference
  <2>3. a \in open /\ Key(allocs'[a]) = Key(row)
    BY <1>2, <2>2 DEF Key
  <2>4. allocs'[a] = Refreshed(allocs'[a], row)
    <3>1. allocs'[a] \in AllocRow
      BY <1>0
    <3> QED BY <2>2, <3>1 DEF Refreshed, AllocRow
  <2> QED BY <2>3, <2>4
<1>4. ASSUME NEW a \in open
      PROVE  Key(allocs'[a]) \in Keys(rows)
  <2>1. /\ a \in FigureParts /\ FigureOf[a] = f /\ a \in Components(f)
        /\ new[a].exists /\ new[a].required > 0 /\ Key(allocs'[a]) = Key(new[a])
    BY <1>0 DEF SameReference, Key
  <2>2. CASE \E row \in rows : Lands(row, allocs[a], new[a])
    BY <2>1, <2>2 DEF Lands, Keys
  <2>3. CASE new[a] = allocs[a]
    <3>1. figures[f].exists
      BY <2>1, <2>3 DEF SyncInv, Grounded, ComponentsHaveFigure
    <3>2. a \notin Stale(reply.figures[f], Components(f))
      BY <3>1 DEF DropsComponent
    <3>3. Key(allocs[a]) \in Keys(reply.figures[f])
      BY <2>1, <2>3, <3>2 DEF Stale, Kept
    <3> QED BY <1>2, <2>1, <2>3, <3>3
  <2> QED BY <2>1, <2>2, <2>3 DEF ComponentsStored, rows
<1>5. Keys({allocs'[a] : a \in open}) = Keys(rows)
  <2> HIDE DEF open
  <2>1. Keys({allocs'[a] : a \in open}) = {Key(allocs'[a]) : a \in open}
    BY DEF Keys
  <2>2. ASSUME NEW key \in Keys(rows)
        PROVE  key \in {Key(allocs'[a]) : a \in open}
    <3>1. PICK row \in rows : key = Key(row)
      BY DEF Keys
    <3>2. PICK a \in open : Key(allocs'[a]) = Key(row)
      BY <1>3
    <3> QED BY <3>1, <3>2
  <2>3. {Key(allocs'[a]) : a \in open} \subseteq Keys(rows)
    BY <1>4
  <2> QED BY <2>1, <2>2, <2>3
<1>6. \A row \in rows : \E a \in open : allocs'[a] = Refreshed(allocs'[a], row)
  BY <1>3
<1> HIDE DEF open
<1>7. HasComponents(f, rows)'
  BY <1>1, <1>5, <1>6 DEF HasComponents, Refreshed, rows, AtLeastOne
<1> QED BY <1>7 DEF rows
\* Without a reply about figures they, and what is required of them, stay.
LEMMA FiguresUntouched ==
    ASSUME SyncInv, NEW s \in Sets, NEW found, DOMAIN found = {}, NEW new, AsStored(new),
           ComponentsStored(found, new), figures' = Attached(found, s)
    PROVE  /\ figures' = figures
           /\ \A a \in FigureParts : allocs'[a].required = allocs[a].required
<1>1. figures' = figures
  BY DEF Attached, SyncInv, IInv, TypeOK
<1>2. \A a \in FigureParts : a \in Positions /\ new[a] = allocs[a]
  BY DEF ComponentsStored, Positions
<1> QED BY <1>1, <1>2 DEF AsStored, SameReference

\* After a refresh the open requirements of the set are those of the reply,
\* each once, and every figure of the reply is in the set with its components
\* and no other open ones; without a reply of figures they stay
\* (synchronize_set, _synchronize_minifigure_components).
THEOREM RefreshMatchesReply == SyncSpec => SyncMatchesReply
<1> DEFINE Kind == answer'.told = "synchronized" =>
                     /\ RowsAsTold' /\ FiguresAsTold'
                     /\ answer'.figures.code = "unavailable" =>
                          /\ figures' = figures
                          /\ \A a \in FigureParts : allocs'[a].required = allocs[a].required
<1>1. SyncInv /\ [SyncNext]_syncVars => [Kind]_syncVars
  <2> SUFFICES ASSUME SyncInv, SyncNext, answer'.told = "synchronized"
               PROVE  /\ RowsAsTold' /\ FiguresAsTold'
                      /\ answer'.figures.code = "unavailable" =>
                           /\ figures' = figures
                           /\ \A a \in FigureParts : allocs'[a].required = allocs[a].required
    OBVIOUS
  <2>1. PICK s \in Sets, rows \in InventoryReplies, reply \in FigureReplies, bulk \in BOOLEAN :
           SyncRebrickable(s, rows, reply, bulk)
    BY OnlyRefreshSynchronizes
  <2>2. PICK initialize : /\ Synchronize(s, rows, reply, initialize)
                          /\ answer' = Told("synchronized", s, rows, reply)
    BY <2>1 DEF SyncRebrickable
  <2>3. /\ ~DropsComponent(reply.figures) /\ figures' = Attached(reply.figures, s)
        /\ answer'.rows = rows /\ answer'.set = s /\ answer'.figures = reply
    BY <2>2 DEF Synchronize, Told
  <2>4. TypeOK /\ Grounded /\ Keyed(rows)
    BY RepliesKeyed DEF SyncInv, IInv
  <2>5. PICK new : /\ ItemsStored(s, rows, new) /\ ComponentsStored(reply.figures, new)
                   /\ AsStored(new)
    BY <2>2, <2>4, SynchronizeStores DEF AsStored
  <2>6. RowsAsTold'
    BY <2>3, <2>4, <2>5, ItemsAsTold DEF RowsAsTold
  <2>7. FiguresAsTold'
    <3>1. ASSUME NEW f \in DOMAIN reply.figures
          PROVE  HasComponents(f, AtLeastOne(reply.figures[f]))'
      <4>1. figures'[f].exists
        BY <2>3, <2>4, AttachedFigures
      <4> QED BY <2>3, <2>5, <4>1, FigureAsTold
    <3> QED BY <2>3, <3>1 DEF FiguresAsTold
  <2>8. answer'.figures.code = "unavailable" =>
           /\ figures' = figures
           /\ \A a \in FigureParts : allocs'[a].required = allocs[a].required
    <3> SUFFICES ASSUME reply.code = "unavailable"
                 PROVE  /\ figures' = figures
                        /\ \A a \in FigureParts : allocs'[a].required = allocs[a].required
      BY <2>3
    <3>1. DOMAIN reply.figures = {}
      BY RepliesAssumption
    <3> QED BY <2>3, <2>5, <3>1, FiguresUntouched
  <2> QED BY <2>6, <2>7, <2>8
<1> QED BY <1>1, InitSyncInv, StepSyncInv, PTL DEF SyncSpec, SyncMatchesReply, Kind
-----------------------------------------------------------------------------
(***************************************************************************)
(* The pages agree.                                                        *)
(***************************************************************************)
\* The dashboard, the set list and its color filter, the figure list and its
\* cards, the labels and the page of a set show the same shortages after every
\* sequence of catalog requests (dashboard_collection_data, with_set_completeness,
\* minifigure_list, label_studio, set_detail).
THEOREM BooksAgreeAfterRequests == Spec => []BooksAgree
<1>1. Init => IInv /\ Grounded
  <2>1. Init => \A a \in Positions : ~allocs[a].exists
    BY DEF Init, BlankAlloc
  <2>2. Init => Grounded
    BY <2>1 DEF Grounded, ItemsApart, ComponentsHaveFigure, Positions
  <2> QED BY <2>2, InitIInv
<1>2. IInv /\ Grounded /\ [Next]_vars => (IInv /\ Grounded)'
  <2> SUFFICES ASSUME IInv, Grounded, [Next]_vars PROVE IInv' /\ Grounded'
    OBVIOUS
  <2>1. CASE Next
    BY <2>1, StepIInv, RequestGrounded
  <2>2. CASE UNCHANGED vars
    BY <2>2, StepIInv DEF vars, Grounded, ItemsApart, ComponentsHaveFigure
  <2> QED BY <2>1, <2>2
<1>3. IInv /\ Grounded => BooksAgree
  BY RowsMakeBooksAgree DEF IInv, Grounded
<1> QED BY <1>1, <1>2, <1>3, PTL DEF Spec

\* They agree as well when refreshes and imports from Rebrickable add, requote
\* and close rows in between.
THEOREM BooksAgreeAfterRefreshes == SyncSpec => []BooksAgree
<1>1. SyncInv => BooksAgree
  BY RowsMakeBooksAgree DEF SyncInv, IInv, Grounded
<1> QED BY <1>1, InitSyncInv, StepSyncInv, PTL DEF SyncSpec

-----------------------------------------------------------------------------
(***************************************************************************)
(* The import of a file.  Between two rows of it the catalog is as sound   *)
(* as between two requests.                                                *)
(***************************************************************************)
\* No two live sets of these have one number.
UniqueIn(states) ==
    \A s, t \in Sets : states[s] = "live" /\ states[t] = "live" /\ SetNumber[s] = SetNumber[t]
                         => s = t

FigureRow == [exists: BOOLEAN, set: Sets \cup {NoSet}]

\* A row of the file leaves the two constraints of the database as they were.
Apart(st) ==
    /\ \A a \in SetItems : st.allocs[a].exists = allocs[a].exists /\ Key(st.allocs[a]) = Key(allocs[a])
    /\ \A a \in FigureParts : st.allocs[a].exists => st.figures[FigureOf[a]].exists

\* What the import has in hand between two rows of a file
Between ==
    {st \in [ok: BOOLEAN, full: BOOLEAN, sets: [Sets -> {"absent", "live", "trashed"}],
             figures: [Figures -> FigureRow], allocs: [Positions -> AllocRow],
             parts: [Parts -> PartRow]] :
       UniqueIn(st.sets) /\ Apart(st) /\ \A p \in Parts : Sound(st.parts[p])}

\* A batch is applied at most once, and never before it is committed.
BatchFields ==
    /\ DOMAIN batch = {"file", "duplicates", "committed", "applied"}
    /\ batch.applied \in {0, 1}
    /\ ~batch.committed => batch.file \in Files /\ batch.applied = 0

\* The inductive invariant of the import
BInv ==
    /\ IInv /\ Grounded /\ NumbersUnique /\ BatchFields
    /\ confirms \in [Requests -> Strategies \cup {"idle"}]

\* SetToSeq lists each member of a finite set.
LEMMA SequenceOf ==
    ASSUME NEW S, IsFiniteSet(S)
    PROVE  SetToSeq(S) \in [1..Cardinality(S) -> S] /\ Cardinality(S) \in Nat
<1>1. PICK n \in Nat : ExistsBijection(1..n, S)
  BY FS_NatBijection
<1>2. Cardinality(S) = n
  BY <1>1, FS_CountingElements
<1>3. \E f \in [1..n -> S] : IsInjective(f)
  BY <1>1 DEF ExistsBijection, Bijection, Injection, IsInjective
<1> QED BY <1>1, <1>2, <1>3 DEF SetToSeq

LEMMA HomeType ==
    ASSUME NEW st, NEW number
    PROVE  HomeOf(st, number) \in Sets \cup {NoSet}
BY DEF HomeOf, LiveOf

LEMMA UnchangedBetween == ASSUME IInv, Grounded, NumbersUnique PROVE Unchanged \in Between
<1>1. /\ sets \in [Sets -> {"absent", "live", "trashed"}] /\ figures \in [Figures -> FigureRow]
      /\ allocs \in [Positions -> AllocRow] /\ parts \in [Parts -> PartRow]
  BY DEF IInv, TypeOK, FigureRow
<1>2. \A p \in Parts : Sound(parts[p])
  BY <1>1, SoundRows DEF IInv, PresenceMarker, OwnedWithinQuantity
<1>3. UniqueIn(sets)
  BY DEF NumbersUnique, UniqueIn
<1>4. /\ Unchanged.sets = sets /\ Unchanged.parts = parts
      /\ Unchanged \in [ok: BOOLEAN, full: BOOLEAN, sets: [Sets -> {"absent", "live", "trashed"}],
             figures: [Figures -> FigureRow], allocs: [Positions -> AllocRow],
             parts: [Parts -> PartRow]]
  BY <1>1 DEF Unchanged
<1>5. Apart(Unchanged)
  BY DEF Unchanged, Apart, Grounded, ComponentsHaveFigure
<1> QED BY <1>2, <1>3, <1>4, <1>5 DEF Between

LEMMA FullBetween ==
    ASSUME NEW st \in Between
    PROVE  [st EXCEPT !.full = TRUE] \in Between /\ [st EXCEPT !.ok = FALSE] \in Between
BY DEF Between, Apart

\* A set is created where no live set has its number.
LEMMA ImportSetBetween ==
    ASSUME NEW st \in Between, NEW number
    PROVE  ImportSet(st, number) \in Between
<1> DEFINE new == {s \in Sets : st.sets[s] = "absent" /\ SetNumber[s] = number}
           s == CHOOSE t \in new : TRUE
<1>1. CASE LiveOf(st, number) # {}
  BY <1>1 DEF ImportSet
<1>2. CASE LiveOf(st, number) = {} /\ new = {}
  BY <1>2, FullBetween DEF ImportSet
<1>3. CASE LiveOf(st, number) = {} /\ new # {}
  <2>1. s \in Sets /\ SetNumber[s] = number
    BY <1>3
  <2>2. ImportSet(st, number) = [st EXCEPT !.sets[s] = "live"]
    BY <1>3 DEF ImportSet
  <2> HIDE DEF s, new
  <2>3. \A t \in Sets : st.sets[t] = "live" => SetNumber[t] # SetNumber[s]
    BY <1>3, <2>1 DEF LiveOf
  <2> DEFINE states == [st.sets EXCEPT ![s] = "live"]
             after == [st EXCEPT !.sets = states]
  <2>4. states \in [Sets -> {"absent", "live", "trashed"}]
    BY DEF Between
  <2>5. UniqueIn(states)
    BY <2>1, <2>3 DEF UniqueIn, Between
  <2>6. ImportSet(st, number) = after
    BY <2>2
  <2> HIDE DEF states
  <2>7. after \in Between
    BY <2>4, <2>5 DEF Between, Apart
  <2> QED BY <2>6, <2>7
<1> QED BY <1>1, <1>2, <1>3

LEMMA NewRowType ==
    ASSUME NEW row \in PartOfFile, NEW home \in Sets \cup {NoSet}
    PROVE  NewRow(row, home) \in PartRow /\ NewRow(row, home).owned = row.owned
<1>1. BlankPart \in PartRow
  BY BlankRowsOK DEF Sound
<1> QED BY <1>1 DEF NewRow, PartRow, PartOfFile

LEMMA ReplacedRowType ==
    ASSUME NEW old \in PartRow, NEW row \in PartOfFile, NEW strategy
    PROVE  ReplacedRow(old, row, strategy) \in PartRow
<1> DEFINE merge == strategy = "merge"
           quantity == row.quantity + (IF merge THEN old.quantity ELSE 0)
           sum == row.owned + (IF merge THEN old.owned ELSE 0)
           owned == IF sum < quantity THEN sum ELSE quantity
           status == IF owned < quantity THEN "missing" ELSE "found"
<1>1. quantity \in Nat /\ sum \in Nat /\ row.ident \in PartIdents
  BY DEF PartRow, PartOfFile
<1>2. owned \in Nat /\ status \in Statuses
  BY <1>1 DEF Statuses
<1>3. ReplacedRow(old, row, strategy) =
        [old EXCEPT !.ident = row.ident, !.quantity = quantity, !.owned = owned, !.status = status]
  BY DEF ReplacedRow
<1> HIDE DEF quantity, owned, status
<1> QED BY <1>1, <1>2, <1>3 DEF PartRow

\* set_part_owned_quantity writes a sound Part and amounts of its positions only.
LEMMA StoredBetween ==
    ASSUME NEW st \in Between, NEW p \in Parts, NEW row \in PartRow
    PROVE  Stored(st, p, row) \in Between
<1> DEFINE matches == Matching(st.allocs, row, FALSE)
           maximum == IF matches = {} THEN row.quantity
                      ELSE st.allocs[CHOOSE a \in matches : TRUE].required
           rows == [a \in Positions |-> IF a \in matches THEN [st.allocs[a] EXCEPT !.owned = row.owned]
                                        ELSE st.allocs[a]]
           new == Written(row, maximum, row.owned, Missing(maximum, row.owned))
           after == [st EXCEPT !.allocs = rows, !.parts[p] = new]
<1>1. matches \in SUBSET Positions
  BY MatchingType
<1>2. st.allocs \in [Positions -> AllocRow] /\ row.owned \in Nat /\ row.quantity \in Nat
  BY DEF Between, PartRow
<1>3. Stored(st, p, row) = IF Cardinality(matches) > 1 \/ row.owned > maximum
                           THEN [st EXCEPT !.ok = FALSE] ELSE after
  BY DEF Stored
<1>4. CASE Cardinality(matches) > 1 \/ row.owned > maximum
  BY <1>3, <1>4, FullBetween
<1>5. CASE ~(Cardinality(matches) > 1 \/ row.owned > maximum)
  <2>1. maximum \in Nat
    <3>1. CASE matches = {}
      BY <1>2, <3>1
    <3>2. CASE matches # {}
      <4>1. (CHOOSE a \in matches : TRUE) \in Positions
        BY <1>1, <3>2
      <4> QED BY <1>2, <3>2, <4>1 DEF AllocRow
    <3> QED BY <3>1, <3>2
  <2> HIDE DEF matches, maximum
  <2>2. row.owned <= maximum
    BY <1>2, <1>5, <2>1
  <2>3. Sound(new)
    BY <1>2, <2>1, <2>2, WrittenSound
  <2>4. rows \in [Positions -> AllocRow]
    BY <1>2 DEF AllocRow
  <2>6. /\ SetItems \subseteq Positions /\ FigureParts \subseteq Positions
        /\ \A a \in Positions : /\ rows[a].exists = st.allocs[a].exists
                               /\ Key(rows[a]) = Key(st.allocs[a])
    BY <1>2 DEF Positions, AllocRow, Key
  <2> HIDE DEF new, rows
  <2>7. Apart(after)
    BY <2>6 DEF Between, Apart
  <2>5. after \in Between
    BY <2>3, <2>4, <2>7 DEF Between, Sound
  <2> QED BY <1>3, <1>5, <2>5
<1> QED BY <1>4, <1>5

\* The first row in the order of the database is one of them.
LEMMA FirstOfKind ==
    ASSUME NEW S \in SUBSET Parts, S # {}, NEW rank \in Orders(Parts)
    PROVE  (CHOOSE p \in S : \A q \in S : rank[p] <= rank[q]) \in S
<1> DEFINE T == {rank[p] : p \in S}
<1>1. T \in SUBSET Nat /\ T # {}
  <2>1. Cardinality(Parts) \in Nat
    BY KeysAssumption, FS_CardinalityType
  <2> QED BY <2>1 DEF Orders
<1>2. PICK m \in T : \A k \in T : m <= k
  BY <1>1, LeastNatural
<1> QED BY <1>2

LEMMA ImportPartBetween ==
    ASSUME NEW st \in Between, NEW row \in PartOfFile, NEW strategy, NEW rank \in Orders(Parts)
    PROVE  ImportPart(st, row, strategy, rank) \in Between
<1> DEFINE home == HomeOf(st, row.number)
           known == {p \in Parts : SameKind(st.parts[p], row) /\ st.parts[p].set = home}
           first == CHOOSE p \in known : \A q \in known : rank[p] <= rank[q]
           new == {p \in Parts : st.parts[p].state = "absent"}
           after == ImportPart(st, row, strategy, rank)
<1>1. CASE known # {} /\ KeepsPart(strategy)
  <2>1. after = st
    BY <1>1 DEF ImportPart
  <2> QED BY <2>1
<1>2. CASE known # {} /\ ~KeepsPart(strategy)
  <2>1. after = Stored(st, first, ReplacedRow(st.parts[first], row, strategy))
    BY <1>2 DEF ImportPart
  <2>2. first \in known
    BY <1>2, FirstOfKind
  <2>3. first \in Parts
    BY <2>2
  <2> HIDE DEF first
  <2>4. ReplacedRow(st.parts[first], row, strategy) \in PartRow
    BY <2>3, ReplacedRowType DEF Between
  <2> QED BY <2>1, <2>3, <2>4, StoredBetween
<1>3. CASE known = {} /\ new # {}
  <2>1. after = Stored(st, CHOOSE p \in new : TRUE, NewRow(row, home))
    BY <1>3 DEF ImportPart
  <2>2. (CHOOSE p \in new : TRUE) \in Parts
    BY <1>3
  <2>3. NewRow(row, home) \in PartRow
    BY HomeType, NewRowType
  <2> QED BY <2>1, <2>2, <2>3, StoredBetween
<1>4. CASE known = {} /\ new = {}
  <2>1. after = [st EXCEPT !.full = TRUE]
    BY <1>4 DEF ImportPart
  <2> QED BY <2>1, FullBetween
<1> QED BY <1>1, <1>2, <1>3, <1>4

FigureOfFile(figure) ==
    figure.key \in Figures /\ figure.parts \subseteq Component

\* Components are written to positions of their figure only.
LEMMA ComponentsType ==
    ASSUME NEW st \in Between, NEW figure, FigureOfFile(figure), PlacesFor(st, figure) # {}
    PROVE  /\ ComponentsWritten(st, figure) \in [Positions -> AllocRow]
           /\ \A a \in Positions : ComponentsWritten(st, figure)[a] # st.allocs[a] =>
                a \in FigureParts /\ FigureOf[a] = figure.key
<1> DEFINE at == CHOOSE at \in PlacesFor(st, figure) : TRUE
           placed == {at[row] : row \in figure.parts}
           rowAt(a) == CHOOSE row \in figure.parts : at[row] = a
<1>1. \A a \in placed : rowAt(a) \in figure.parts
  OBVIOUS
<1>2. \A row \in figure.parts :
        [exists |-> TRUE, required |-> row.required, owned |-> row.owned,
         spare |-> row.spare, ident |-> row.ident] \in AllocRow
  BY DEF FigureOfFile, Component, AllocRow
<1>3. ComponentsWritten(st, figure) =
        [a \in Positions |->
            IF a \in placed
            THEN [exists |-> TRUE, required |-> rowAt(a).required, owned |-> rowAt(a).owned,
                  spare |-> rowAt(a).spare, ident |-> rowAt(a).ident]
            ELSE st.allocs[a]]
  BY DEF ComponentsWritten
<1>4. st.allocs \in [Positions -> AllocRow]
  BY DEF Between
<1>5. at \in PlacesFor(st, figure)
  OBVIOUS
<1>6. at \in [figure.parts -> {a \in FigureParts : FigureOf[a] = figure.key}]
  <2> HIDE DEF at
  <2> QED BY <1>5 DEF PlacesFor
<1>7. \A a \in placed : a \in FigureParts /\ FigureOf[a] = figure.key
  <2> HIDE DEF at
  <2> QED BY <1>6
<1> HIDE DEF placed, rowAt
<1>8. \A a \in Positions : a \notin placed => ComponentsWritten(st, figure)[a] = st.allocs[a]
  BY <1>3
<1>9. ComponentsWritten(st, figure) \in [Positions -> AllocRow]
  BY <1>1, <1>2, <1>3, <1>4
<1> QED BY <1>7, <1>8, <1>9

LEMMA ImportFigureBetween ==
    ASSUME NEW st \in Between, NEW figure, FigureOfFile(figure), NEW strategy
    PROVE  ImportFigure(st, figure, strategy) \in Between
<1> DEFINE home == HomeOf(st, figure.number)
           stored == st.figures[figure.key]
           missing == figure.number # NoNumber /\ home = NoSet
           twice == \E row, other \in figure.parts : row # other /\ RowKey(row) = RowKey(other)
           after == ImportFigure(st, figure, strategy)
           rows == ComponentsWritten(st, figure)
           record == [exists |-> TRUE, set |-> home]
<1>1. CASE missing
  <2>1. after = [st EXCEPT !.ok = FALSE]
    BY <1>1 DEF ImportFigure
  <2> QED BY <2>1, FullBetween
<1>2. CASE ~missing /\ stored.exists /\ stored.set # home
  <2>1. after = [st EXCEPT !.full = TRUE]
    BY <1>2 DEF ImportFigure
  <2> QED BY <2>1, FullBetween
<1>3. CASE ~missing /\ stored.exists /\ stored.set = home /\ KeepsFigure(strategy)
  <2>1. after = st
    BY <1>3 DEF ImportFigure
  <2> QED BY <2>1
<1>4. CASE ~missing /\ ~(stored.exists /\ stored.set # home)
             /\ ~(stored.exists /\ stored.set = home /\ KeepsFigure(strategy))
  <2>1. after = IF twice THEN [st EXCEPT !.ok = FALSE]
                ELSE IF PlacesFor(st, figure) = {} THEN [st EXCEPT !.full = TRUE]
                ELSE [st EXCEPT !.figures[figure.key] = record, !.allocs = rows]
    BY <1>4 DEF ImportFigure
  <2>2. record \in FigureRow
    BY HomeType DEF FigureRow
  <2> HIDE DEF record, rows, twice
  <2>3. ASSUME PlacesFor(st, figure) # {}
        PROVE  [st EXCEPT !.figures[figure.key] = record, !.allocs = rows] \in Between
    <3> DEFINE records == [st.figures EXCEPT ![figure.key] = record]
               written == [st EXCEPT !.figures = records, !.allocs = rows]
    <3>1. /\ rows \in [Positions -> AllocRow]
          /\ \A a \in Positions : rows[a] # st.allocs[a] =>
               a \in FigureParts /\ FigureOf[a] = figure.key
      BY <2>3, ComponentsType DEF rows
    <3>2. /\ records \in [Figures -> FigureRow] /\ records[figure.key].exists
          /\ \A f \in Figures : st.figures[f].exists => records[f].exists
      BY <2>2 DEF Between, FigureOfFile, record
    <3>3. /\ SetItems \subseteq Positions /\ FigureParts \subseteq Positions
          /\ SetItems \cap FigureParts = {} /\ FigureOf \in [FigureParts -> Figures]
      BY KeysAssumption DEF Positions
    <3> HIDE DEF records
    <3>4. Apart(written)
      BY <3>1, <3>2, <3>3 DEF Between, Apart
    <3>5. written \in Between
      BY <3>1, <3>2, <3>4 DEF Between
    <3> QED BY <3>5 DEF records
  <2> QED BY <2>1, <2>3, FullBetween
<1> QED BY <1>1, <1>2, <1>3, <1>4

-----------------------------------------------------------------------------
(***************************************************************************)
(* The loops over the sets, the Parts and the figures of a file.           *)
(***************************************************************************)
SetsImported(file) == FoldLeft(ImportSet, Unchanged, SetToSeq(file.sets))
PartsImported(file, strategy, rank, before) ==
    FoldLeft(LAMBDA st, row : IF Done(st) THEN st ELSE ImportPart(st, row, strategy, rank),
             before, file.parts)
FiguresImported(file, strategy, before) ==
    FoldLeft(LAMBDA st, figure : IF Done(st) THEN st ELSE ImportFigure(st, figure, strategy),
             before, SetToSeq(file.figures))

\* The rows of a file are of the kinds that the parser makes.
LEMMA FiniteFile ==
    ASSUME NEW file \in Files
    PROVE  /\ IsFiniteSet(file.sets) /\ IsFiniteSet(file.figures)
           /\ \A figure \in file.figures : FigureOfFile(figure)
           /\ file.parts \in Seq(PartOfFile)
<1>1. IsFiniteSet({SetNumber[s] : s \in Sets})
  BY KeysAssumption, FiniteImage
<1>2. file.sets \subseteq {SetNumber[s] : s \in Sets}
  BY FilesAssumption DEF Numbers
<1>3. IsFiniteSet(file.sets)
  BY <1>1, <1>2, FS_Subset
<1> QED BY <1>3, FilesAssumption DEF FigureOfFile

\* The loop over the sets
LEMMA SetsLoop ==
    ASSUME NEW file \in Files, NEW Good, Unchanged \in Good,
           \A st \in Good, number \in file.sets : ImportSet(st, number) \in Good
    PROVE  SetsImported(file) \in Good
<1> DEFINE rows == SetToSeq(file.sets)
           I == DOMAIN rows
           last == [s \in SUBSET I |-> Max(s)]
           H == [p \in I \X Good |-> ImportSet(p[2], rows[p[1]])]
           Loop(iter) == [s \in SUBSET I |-> IF s = {} THEN Unchanged
                            ELSE ImportSet(iter[s \ {Max(s)}], rows[Max(s)])]
           it == CHOOSE iter : iter = Loop(iter)
<1>1. SetsImported(file) = it[I]
  BY DEF SetsImported, FoldLeft, MapThenFoldSet
<1>2. I = 1..Len(rows) /\ Len(rows) \in Nat /\ \A i \in I : rows[i] \in file.sets
  <2>1. IsFiniteSet(file.sets)
    BY FiniteFile
  <2>2. rows \in [1..Cardinality(file.sets) -> file.sets] /\ Cardinality(file.sets) \in Nat
    BY <2>1, SequenceOf
  <2>3. rows \in Seq(file.sets)
    BY <2>2
  <2> HIDE DEF rows
  <2> QED BY <2>1, <2>3
<1> HIDE DEF rows
<1>f. IsFiniteSet(I)
  BY <1>2, FS_Interval
<1>3. \A s \in SUBSET I : s # {} => last[s] = Max(s) /\ last[s] \in s
  <2>1. \A s \in SUBSET I : s # {} => Max(s) \in s
    BY <1>2, LastOf
  <2> QED BY <2>1
<1>4. \A i \in I, st \in Good : ImportSet(st, rows[i]) \in Good
  BY <1>2
<1>5. H \in [I \X Good -> Good]
  BY <1>4
<1>6. it = Loop(it)
  <2> HIDE DEF last, H, I
  <2>1. \A s \in SUBSET I : s # {} => last[s] \in s
    BY <1>3
  <2>2. Unchanged \in Good
    OBVIOUS
  <2>3. PICK iter \in [SUBSET I -> Good] : FoldSolves(iter, H, Unchanged, last, SUBSET I)
    BY <1>f, <1>5, <2>1, <2>2, FoldSolved
  <2>4. ASSUME NEW s \in SUBSET I, s # {}
        PROVE  H[<<last[s], iter[s \ {last[s]}]>>]
                 = ImportSet(iter[s \ {Max(s)}], rows[Max(s)])
    <3>1. last[s] = Max(s) /\ last[s] \in I /\ iter[s \ {last[s]}] \in Good
      BY <1>3, <2>3, <2>4
    <3> QED BY <3>1 DEF H
  <2>5. iter = Loop(iter)
    BY <2>3, <2>4 DEF FoldSolves
  <2> QED BY <2>5
<1> HIDE DEF it, last, I
<1>7. it[{}] \in Good
  BY <1>6
<1>8. ASSUME NEW s \in SUBSET I, s # {}, it[s \ {last[s]}] \in Good
      PROVE  it[s] \in Good
  <2>1. it[s] = ImportSet(it[s \ {last[s]}], rows[last[s]]) /\ last[s] \in I
    BY <1>3, <1>6, <1>8
  <2> QED BY <1>4, <1>8, <2>1
<1>9. it[I] \in Good
  <2>1. \A s \in SUBSET I : s # {} => last[s] \in s
    BY <1>3
  <2>2. \A s \in SUBSET I : s # {} /\ it[s \ {last[s]}] \in Good => it[s] \in Good
    BY <1>8
  <2> QED BY <1>f, <1>7, <2>1, <2>2, FoldStays, ZenonT(60)
<1> QED BY <1>1, <1>9

\* The loop over the Parts
LEMMA PartsLoop ==
    ASSUME NEW file \in Files, NEW strategy, NEW rank, NEW Good, NEW before \in Good,
           \A st \in Good, row \in PartOfFile : ImportPart(st, row, strategy, rank) \in Good
    PROVE  PartsImported(file, strategy, rank, before) \in Good
<1> DEFINE rows == file.parts
           I == DOMAIN rows
           last == [s \in SUBSET I |-> Max(s)]
           Step(st, i) == IF Done(st) THEN st ELSE ImportPart(st, rows[i], strategy, rank)
           H == [p \in I \X Good |-> Step(p[2], p[1])]
           Loop(iter) == [s \in SUBSET I |-> IF s = {} THEN before
                            ELSE Step(iter[s \ {Max(s)}], Max(s))]
           it == CHOOSE iter : iter = Loop(iter)
<1>1. PartsImported(file, strategy, rank, before) = it[I]
  BY DEF PartsImported, FoldLeft, MapThenFoldSet
<1>2. I = 1..Len(rows) /\ Len(rows) \in Nat /\ \A i \in I : rows[i] \in PartOfFile
  BY FiniteFile
<1> HIDE DEF rows
<1>f. IsFiniteSet(I)
  BY <1>2, FS_Interval
<1>3. \A s \in SUBSET I : s # {} => last[s] = Max(s) /\ last[s] \in s
  <2>1. \A s \in SUBSET I : s # {} => Max(s) \in s
    BY <1>2, LastOf
  <2> QED BY <2>1
<1>4. \A i \in I, st \in Good : Step(st, i) \in Good
  BY <1>2
<1>5. H \in [I \X Good -> Good]
  BY <1>4
<1>6. it = Loop(it)
  <2> HIDE DEF last, H, I
  <2>1. \A s \in SUBSET I : s # {} => last[s] \in s
    BY <1>3
  <2>2. before \in Good
    OBVIOUS
  <2>3. PICK iter \in [SUBSET I -> Good] : FoldSolves(iter, H, before, last, SUBSET I)
    BY <1>f, <1>5, <2>1, <2>2, FoldSolved
  <2>4. ASSUME NEW s \in SUBSET I, s # {}
        PROVE  H[<<last[s], iter[s \ {last[s]}]>>]
                 = Step(iter[s \ {Max(s)}], Max(s))
    <3>1. last[s] = Max(s) /\ last[s] \in I /\ iter[s \ {last[s]}] \in Good
      BY <1>3, <2>3, <2>4
    <3> QED BY <3>1 DEF H
  <2>5. iter = Loop(iter)
    BY <2>3, <2>4 DEF FoldSolves
  <2> QED BY <2>5
<1> HIDE DEF it, last, I
<1>7. it[{}] \in Good
  BY <1>6
<1>8. ASSUME NEW s \in SUBSET I, s # {}, it[s \ {last[s]}] \in Good
      PROVE  it[s] \in Good
  <2>1. it[s] = Step(it[s \ {last[s]}], last[s]) /\ last[s] \in I
    BY <1>3, <1>6, <1>8
  <2> QED BY <1>4, <1>8, <2>1
<1>9. it[I] \in Good
  <2>1. \A s \in SUBSET I : s # {} => last[s] \in s
    BY <1>3
  <2>2. \A s \in SUBSET I : s # {} /\ it[s \ {last[s]}] \in Good => it[s] \in Good
    BY <1>8
  <2> QED BY <1>f, <1>7, <2>1, <2>2, FoldStays, ZenonT(60)
<1> QED BY <1>1, <1>9

\* The loop over the figures
LEMMA FiguresLoop ==
    ASSUME NEW file \in Files, NEW strategy, NEW Good, NEW before \in Good,
           \A st \in Good : \A figure \in file.figures : ImportFigure(st, figure, strategy) \in Good
    PROVE  FiguresImported(file, strategy, before) \in Good
<1> DEFINE rows == SetToSeq(file.figures)
           I == DOMAIN rows
           last == [s \in SUBSET I |-> Max(s)]
           Step(st, i) == IF Done(st) THEN st ELSE ImportFigure(st, rows[i], strategy)
           H == [p \in I \X Good |-> Step(p[2], p[1])]
           Loop(iter) == [s \in SUBSET I |-> IF s = {} THEN before
                            ELSE Step(iter[s \ {Max(s)}], Max(s))]
           it == CHOOSE iter : iter = Loop(iter)
<1>1. FiguresImported(file, strategy, before) = it[I]
  BY DEF FiguresImported, FoldLeft, MapThenFoldSet
<1>2. I = 1..Len(rows) /\ Len(rows) \in Nat /\ \A i \in I : rows[i] \in file.figures
  <2>1. IsFiniteSet(file.figures)
    BY FiniteFile
  <2>2. rows \in [1..Cardinality(file.figures) -> file.figures] /\ Cardinality(file.figures) \in Nat
    BY <2>1, SequenceOf
  <2>3. rows \in Seq(file.figures)
    BY <2>2
  <2> HIDE DEF rows
  <2> QED BY <2>1, <2>3
<1> HIDE DEF rows
<1>f. IsFiniteSet(I)
  BY <1>2, FS_Interval
<1>3. \A s \in SUBSET I : s # {} => last[s] = Max(s) /\ last[s] \in s
  <2>1. \A s \in SUBSET I : s # {} => Max(s) \in s
    BY <1>2, LastOf
  <2> QED BY <2>1
<1>4. \A i \in I, st \in Good : Step(st, i) \in Good
  BY <1>2
<1>5. H \in [I \X Good -> Good]
  BY <1>4
<1>6. it = Loop(it)
  <2> HIDE DEF last, H, I
  <2>1. \A s \in SUBSET I : s # {} => last[s] \in s
    BY <1>3
  <2>2. before \in Good
    OBVIOUS
  <2>3. PICK iter \in [SUBSET I -> Good] : FoldSolves(iter, H, before, last, SUBSET I)
    BY <1>f, <1>5, <2>1, <2>2, FoldSolved
  <2>4. ASSUME NEW s \in SUBSET I, s # {}
        PROVE  H[<<last[s], iter[s \ {last[s]}]>>]
                 = Step(iter[s \ {Max(s)}], Max(s))
    <3>1. last[s] = Max(s) /\ last[s] \in I /\ iter[s \ {last[s]}] \in Good
      BY <1>3, <2>3, <2>4
    <3> QED BY <3>1 DEF H
  <2>5. iter = Loop(iter)
    BY <2>3, <2>4 DEF FoldSolves
  <2> QED BY <2>5
<1> HIDE DEF it, last, I
<1>7. it[{}] \in Good
  BY <1>6
<1>8. ASSUME NEW s \in SUBSET I, s # {}, it[s \ {last[s]}] \in Good
      PROVE  it[s] \in Good
  <2>1. it[s] = Step(it[s \ {last[s]}], last[s]) /\ last[s] \in I
    BY <1>3, <1>6, <1>8
  <2> QED BY <1>4, <1>8, <2>1
<1>9. it[I] \in Good
  <2>1. \A s \in SUBSET I : s # {} => last[s] \in s
    BY <1>3
  <2>2. \A s \in SUBSET I : s # {} /\ it[s \ {last[s]}] \in Good => it[s] \in Good
    BY <1>8
  <2> QED BY <1>f, <1>7, <2>1, <2>2, FoldStays, ZenonT(60)
<1> QED BY <1>1, <1>9

\* Whatever file is imported by whatever strategy, the rows stay sound.
LEMMA ImportedBetween ==
    ASSUME IInv, Grounded, NumbersUnique, NEW file \in Files, NEW strategy,
           NEW rank \in Orders(Parts)
    PROVE  Imported(file, strategy, rank) \in Between
<1> DEFINE withSets == SetsImported(file)
           withParts == PartsImported(file, strategy, rank, withSets)
<1>1. withSets \in Between
  BY UnchangedBetween, ImportSetBetween, SetsLoop
<1>2. withParts \in Between
  BY <1>1, ImportPartBetween, PartsLoop
<1>3. FiguresImported(file, strategy, withParts) \in Between
  <2>1. \A before \in Between : \A figure \in file.figures :
          ImportFigure(before, figure, strategy) \in Between
    BY FiniteFile, ImportFigureBetween
  <2> HIDE DEF withParts
  <2> QED BY <1>2, <2>1, FiguresLoop
<1>4. Imported(file, strategy, rank) = FiguresImported(file, strategy, withParts)
  BY DEF Imported, SetsImported, PartsImported, FiguresImported
<1> QED BY <1>3, <1>4

\* The transaction of a confirmation keeps the invariant, whoever it is.
LEMMA ConfirmKeeps ==
    ASSUME BInv, NEW r \in Requests, Confirm(r)
    PROVE  BInv'
<1> USE DEF BInv
<1>1. ~batch.committed /\ batch.file \in Files /\ batch.applied = 0
  BY DEF Confirm, Locked, BatchFields
<1>2. PICK rank \in Orders(Parts) :
        LET st == Imported(batch.file, confirms[r], rank)
        IN  sets' = st.sets /\ figures' = st.figures /\ allocs' = st.allocs /\ parts' = st.parts
  BY DEF Confirm
<1> DEFINE st == Imported(batch.file, confirms[r], rank)
<1>3. st \in Between
  BY <1>1, ImportedBetween
<1>4. sets' = st.sets /\ figures' = st.figures /\ allocs' = st.allocs /\ parts' = st.parts
  BY <1>2
<1> HIDE DEF st
<1>5. /\ sets' \in [Sets -> {"absent", "live", "trashed"}] /\ figures' \in [Figures -> FigureRow]
      /\ allocs' \in [Positions -> AllocRow] /\ parts' \in [Parts -> PartRow]
      /\ UniqueIn(sets') /\ \A p \in Parts : Sound(parts'[p])
      /\ \A a \in SetItems : allocs'[a].exists = allocs[a].exists /\ Key(allocs'[a]) = Key(allocs[a])
      /\ \A a \in FigureParts : allocs'[a].exists => figures'[FigureOf[a]].exists
  BY <1>3, <1>4 DEF Between, Apart
<1>6. IInv'
  BY <1>5, SoundRows DEF IInv, TypeOK, PresenceMarker, OwnedWithinQuantity, FigureRow
<1>7. NumbersUnique'
  BY <1>5 DEF NumbersUnique, UniqueIn
<1>8. BatchFields'
  BY <1>1 DEF Confirm, BatchFields
<1>9. (confirms \in [Requests -> Strategies \cup {"idle"}])'
  BY DEF Confirm
<1>10. Grounded'
  BY <1>5 DEF Grounded, ItemsApart, ComponentsHaveFigure
<1> QED BY <1>6, <1>7, <1>8, <1>9, <1>10

LEMMA RowsSame ==
    ASSUME IInv, Grounded, NumbersUnique, UNCHANGED vars
    PROVE  IInv' /\ Grounded' /\ NumbersUnique'
<1>1. IInv'
  BY StepIInv
<1> QED BY <1>1 DEF vars, NumbersUnique, Grounded, ItemsApart, ComponentsHaveFigure

LEMMA StepBInv == BInv /\ [ImportNext]_importVars => BInv'
<1> SUFFICES ASSUME BInv, [ImportNext]_importVars PROVE BInv'
  OBVIOUS
<1> USE DEF BInv
<1>1. CASE RequestBetween
  <2>1. Next /\ NumbersUnique' /\ UNCHANGED <<batch, confirms>>
    BY <1>1 DEF RequestBetween
  <2>2. IInv' /\ Grounded'
    BY <2>1, StepIInv, RequestGrounded
  <2> QED BY <2>1, <2>2 DEF BatchFields
<1>2. ASSUME NEW file \in Files, Preview(file) PROVE BInv'
  <2>1. UNCHANGED <<vars, confirms>>
    BY <1>2 DEF Preview
  <2>2. BatchFields'
    BY <1>2 DEF Preview, BatchFields
  <2> QED BY <2>1, <2>2, RowsSame
<1>3. ASSUME NEW r \in Requests, NEW strategy \in Strategies, LookAt(r, strategy) PROVE BInv'
  <2>1. UNCHANGED <<vars, batch>> /\ confirms' = [confirms EXCEPT ![r] = strategy]
    BY <1>3 DEF LookAt
  <2> QED BY <2>1, RowsSame DEF BatchFields
<1>4. ASSUME NEW r \in Requests, ConfirmFails(r) PROVE BInv'
  <2>1. UNCHANGED <<vars, batch>> /\ confirms' = [confirms EXCEPT ![r] = "idle"]
    BY <1>4 DEF ConfirmFails
  <2> QED BY <2>1, RowsSame DEF BatchFields
<1>5. CASE UNCHANGED importVars
  <2>1. UNCHANGED <<vars, batch, confirms>>
    BY <1>5 DEF importVars, vars
  <2> QED BY <2>1, RowsSame DEF BatchFields
<1> QED BY <1>1, <1>2, <1>3, <1>4, <1>5, ConfirmKeeps DEF ImportNext

LEMMA InitBInv == ImportInit => BInv
<1> SUFFICES ASSUME ImportInit PROVE BInv
  OBVIOUS
<1>1. IInv
  BY InitIInv DEF ImportInit
<1>2. NumbersUnique
  BY DEF ImportInit, Init, NumbersUnique
<1>3. BatchFields
  BY DEF ImportInit, NoBatch, BatchFields
<1>4. Grounded
  <2>1. \A a \in Positions : ~allocs[a].exists
    BY DEF ImportInit, Init, BlankAlloc
  <2> QED BY <2>1 DEF Grounded, ItemsApart, ComponentsHaveFigure, Positions
<1> QED BY <1>1, <1>2, <1>3, <1>4 DEF BInv, ImportInit

\* Whoever confirms a batch, and however often, its rows are written once, and
\* the catalog keeps its types and its set numbers unique.
THEOREM BatchesAppliedOnce == ImportSpec => []BatchAppliedOnce
<1>1. BInv => BatchAppliedOnce
  BY DEF BInv, IInv, BatchFields, BatchAppliedOnce, ImportTypeOK
<1> QED BY <1>1, InitBInv, StepBInv, PTL DEF ImportSpec

\* The pages go on to show the same shortages after every import.
THEOREM BooksAgreeAfterImports == ImportSpec => []BooksAgree
<1>1. BInv => BooksAgree
  BY RowsMakeBooksAgree DEF BInv, IInv, Grounded
<1> QED BY <1>1, InitBInv, StepBInv, PTL DEF ImportSpec

-----------------------------------------------------------------------------
(***************************************************************************)
(* An import that skips what is on file.                                   *)
(***************************************************************************)
\* Nothing on file has changed but positions that a Part of the file mirrors.
Skipped(st) ==
    /\ \A p \in Parts : parts[p].state # "absent" => st.parts[p] = parts[p]
    /\ \A f \in Figures : figures[f].exists => st.figures[f] = figures[f]
    /\ \A a \in Positions : allocs[a].exists /\ st.allocs[a] # allocs[a] =>
         \E p \in Parts : /\ parts[p].state = "absent" /\ st.parts[p].state # "absent"
                          /\ a \in Matching(allocs, st.parts[p], FALSE)

\* Until the figures, the file has changed nothing but amounts of positions.
BeforeFigures == {st \in Between : Skipped(st) /\ SameIdentities(allocs, st.allocs)}
AmongFigures == {st \in Between : Skipped(st)}

LEMMA SameTables ==
    ASSUME NEW st, NEW after \in Between, after.parts = st.parts, after.figures = st.figures,
           after.allocs = st.allocs
    PROVE  /\ st \in BeforeFigures => after \in BeforeFigures
           /\ st \in AmongFigures => after \in AmongFigures
BY DEF BeforeFigures, AmongFigures, Skipped, SameIdentities

LEMMA FlagsOnly ==
    ASSUME NEW st \in Between
    PROVE  \A after \in {[st EXCEPT !.full = TRUE], [st EXCEPT !.ok = FALSE]} :
             after.parts = st.parts /\ after.figures = st.figures /\ after.allocs = st.allocs
BY DEF Between

LEMMA UnchangedSkips == ASSUME BInv PROVE Unchanged \in BeforeFigures
<1>1. Unchanged \in Between
  BY UnchangedBetween DEF BInv
<1>2. Unchanged.parts = parts /\ Unchanged.figures = figures /\ Unchanged.allocs = allocs
  BY DEF Unchanged
<1> QED BY <1>1, <1>2 DEF BeforeFigures, Skipped, SameIdentities

LEMMA SetSkips ==
    ASSUME NEW st \in BeforeFigures, NEW number
    PROVE  ImportSet(st, number) \in BeforeFigures
<1> DEFINE after == ImportSet(st, number)
<1>1. st \in Between /\ after \in Between
  BY ImportSetBetween DEF BeforeFigures
<1>2. after.parts = st.parts /\ after.figures = st.figures /\ after.allocs = st.allocs
  <2> DEFINE s == CHOOSE t \in {u \in Sets : st.sets[u] = "absent" /\ SetNumber[u] = number} : TRUE
             new == [st EXCEPT !.sets[s] = "live"]
  <2>1. after \in {st, [st EXCEPT !.full = TRUE], new}
    BY DEF ImportSet
  <2> HIDE DEF after, s
  <2>2. new.parts = st.parts /\ new.figures = st.figures /\ new.allocs = st.allocs
    BY <1>1 DEF Between
  <2> HIDE DEF new
  <2> QED BY <1>1, <2>1, <2>2, FlagsOnly
<1> HIDE DEF after
<1>3. after \in BeforeFigures
  BY <1>1, <1>2, SameTables
<1> QED BY <1>3 DEF after

\* A row that is not on file yet is created and written to what it mirrors.
LEMMA NewPartSkips ==
    ASSUME NEW st \in BeforeFigures, NEW p \in Parts, st.parts[p].state = "absent",
           NEW row \in PartRow, row.state = "live"
    PROVE  Stored(st, p, row) \in BeforeFigures
<1> DEFINE matches == Matching(st.allocs, row, FALSE)
           maximum == IF matches = {} THEN row.quantity
                      ELSE st.allocs[CHOOSE a \in matches : TRUE].required
           rows == [a \in Positions |-> IF a \in matches THEN [st.allocs[a] EXCEPT !.owned = row.owned]
                                        ELSE st.allocs[a]]
           new == Written(row, maximum, row.owned, Missing(maximum, row.owned))
           after == [st EXCEPT !.allocs = rows, !.parts[p] = new]
<1>0. st \in Between /\ Skipped(st) /\ SameIdentities(allocs, st.allocs)
      /\ st.allocs \in [Positions -> AllocRow]
  BY DEF BeforeFigures, Between
<1>1. Stored(st, p, row) \in Between
  BY <1>0, StoredBetween
<1>2. Stored(st, p, row) = IF Cardinality(matches) > 1 \/ row.owned > maximum
                           THEN [st EXCEPT !.ok = FALSE] ELSE after
  BY DEF Stored
<1>3. CASE Cardinality(matches) > 1 \/ row.owned > maximum
  <2>1. Stored(st, p, row) = [st EXCEPT !.ok = FALSE]
    BY <1>2, <1>3
  <2> QED BY <1>0, <1>1, <2>1, FlagsOnly, SameTables
<1>4. CASE ~(Cardinality(matches) > 1 \/ row.owned > maximum)
  <2>1. after \in Between
    BY <1>1, <1>2, <1>4
  <2>2. SameIdentity(new, row) /\ new.state = row.state
    <3> HIDE DEF matches, maximum
    <3> QED BY WrittenIdentity
  <2>3. /\ after.figures = st.figures /\ after.allocs = rows /\ after.parts[p] = new
        /\ \A q \in Parts : q # p => after.parts[q] = st.parts[q]
    <3> HIDE DEF rows, new
    <3> QED BY <1>0 DEF Between
  <2>4. /\ \A a \in Positions : a \notin matches => rows[a] = st.allocs[a]
        /\ \A a \in Positions : /\ rows[a].exists = st.allocs[a].exists
                                /\ rows[a].spare = st.allocs[a].spare
                                /\ rows[a].ident = st.allocs[a].ident
    BY <1>0 DEF AllocRow
  <2>5. SameIdentities(allocs, rows)
    BY <1>0, <2>4 DEF SameIdentities
  <2>6. Matching(allocs, new, FALSE) = matches
    <3>1. SameIdentity(row, new) /\ SameIdentities(st.allocs, allocs)
      BY <1>0, <2>2 DEF SameIdentity, SameIdentities
    <3>2. SameMatches(st.allocs, row, allocs, new)
      BY <3>1, MatchingSame
    <3> QED BY <3>2 DEF SameMatches, Matched
  <2> HIDE DEF matches, maximum, rows, new, after
  <2>7. parts[p].state = "absent"
    BY <1>0 DEF Skipped
  <2>8. \A q \in Parts : parts[q].state # "absent" => after.parts[q] = parts[q]
    BY <1>0, <2>3, <2>7 DEF Skipped
  <2>9. \A f \in Figures : figures[f].exists => after.figures[f] = figures[f]
    BY <1>0, <2>3 DEF Skipped
  <2>10. ASSUME NEW a \in Positions, allocs[a].exists, after.allocs[a] # allocs[a]
         PROVE  \E q \in Parts : /\ parts[q].state = "absent" /\ after.parts[q].state # "absent"
                                 /\ a \in Matching(allocs, after.parts[q], FALSE)
    <3>1. CASE a \in matches
      BY <2>2, <2>3, <2>6, <2>7, <3>1
    <3>2. CASE a \notin matches
      <4>1. st.allocs[a] # allocs[a]
        BY <2>3, <2>4, <2>10, <3>2
      <4>2. PICK q \in Parts : /\ parts[q].state = "absent" /\ st.parts[q].state # "absent"
                               /\ a \in Matching(allocs, st.parts[q], FALSE)
        BY <1>0, <2>10, <4>1 DEF Skipped
      <4>3. after.parts[q] = st.parts[q]
        BY <2>3, <4>2
      <4> QED BY <4>2, <4>3
    <3> QED BY <3>1, <3>2
  <2>11. Skipped(after)
    BY <2>8, <2>9, <2>10 DEF Skipped
  <2>12. after \in BeforeFigures
    BY <2>1, <2>3, <2>5, <2>11 DEF BeforeFigures
  <2> QED BY <1>2, <1>4, <2>12
<1> QED BY <1>3, <1>4

LEMMA PartSkips ==
    ASSUME NEW st \in BeforeFigures, NEW row \in PartOfFile, NEW rank \in Orders(Parts)
    PROVE  ImportPart(st, row, "skip", rank) \in BeforeFigures
<1> DEFINE home == HomeOf(st, row.number)
           known == {p \in Parts : SameKind(st.parts[p], row) /\ st.parts[p].set = home}
           new == {p \in Parts : st.parts[p].state = "absent"}
           after == ImportPart(st, row, "skip", rank)
<1>0. KeepsPart("skip") /\ st \in Between
  BY DEF KeepsPart, BeforeFigures
<1>1. CASE known # {}
  <2>1. after = st
    BY <1>0, <1>1 DEF ImportPart
  <2> QED BY <2>1
<1>2. CASE known = {} /\ new # {}
  <2>1. after = Stored(st, CHOOSE p \in new : TRUE, NewRow(row, home))
    BY <1>2 DEF ImportPart
  <2>2. (CHOOSE p \in new : TRUE) \in new
    BY <1>2
  <2>3. NewRow(row, home) \in PartRow
    BY HomeType, NewRowType
  <2>4. NewRow(row, home).state = "live"
    BY DEF NewRow, BlankPart
  <2> QED BY <2>1, <2>2, <2>3, <2>4, NewPartSkips
<1>3. CASE known = {} /\ new = {}
  <2>1. after = [st EXCEPT !.full = TRUE]
    BY <1>3 DEF ImportPart
  <2> QED BY <1>0, <2>1, FullBetween, FlagsOnly, SameTables
<1> QED BY <1>1, <1>2, <1>3

\* Only a figure that is not on file is created, and its components with it.
LEMMA FigureSkips ==
    ASSUME BInv, NEW st \in AmongFigures, NEW figure, FigureOfFile(figure)
    PROVE  ImportFigure(st, figure, "skip") \in AmongFigures
<1> DEFINE home == HomeOf(st, figure.number)
           stored == st.figures[figure.key]
           missing == figure.number # NoNumber /\ home = NoSet
           twice == \E row, other \in figure.parts : row # other /\ RowKey(row) = RowKey(other)
           rows == ComponentsWritten(st, figure)
           record == [exists |-> TRUE, set |-> home]
           created == [st EXCEPT !.figures[figure.key] = record, !.allocs = rows]
           after == ImportFigure(st, figure, "skip")
<1>0. KeepsFigure("skip") /\ st \in Between /\ after \in Between /\ Skipped(st)
  BY ImportFigureBetween DEF KeepsFigure, AmongFigures
<1>1. CASE after \in {st, [st EXCEPT !.ok = FALSE], [st EXCEPT !.full = TRUE]}
  <2> HIDE DEF after
  <2>1. after.parts = st.parts /\ after.figures = st.figures /\ after.allocs = st.allocs
    BY <1>0, <1>1, FlagsOnly
  <2>2. after \in AmongFigures
    BY <1>0, <2>1, SameTables
  <2> QED BY <2>2 DEF after
<1>2. CASE after \notin {st, [st EXCEPT !.ok = FALSE], [st EXCEPT !.full = TRUE]}
  <2>1. ~missing /\ ~stored.exists
    <3>1. CASE missing
      BY <1>2, <3>1 DEF ImportFigure
    <3>2. CASE ~missing /\ stored.exists /\ stored.set # home
      BY <1>2, <3>2 DEF ImportFigure
    <3>3. CASE ~missing /\ stored.exists /\ stored.set = home
      BY <1>0, <1>2, <3>3 DEF ImportFigure
    <3> QED BY <3>1, <3>2, <3>3
  <2>2. after = IF twice THEN [st EXCEPT !.ok = FALSE]
                ELSE IF PlacesFor(st, figure) = {} THEN [st EXCEPT !.full = TRUE]
                ELSE created
    BY <2>1 DEF ImportFigure
  <2>3. after = created /\ PlacesFor(st, figure) # {}
    BY <1>2, <2>2
  <2>4. \A a \in Positions : rows[a] # st.allocs[a] => a \in FigureParts /\ FigureOf[a] = figure.key
    BY <1>0, <2>3, ComponentsType
  <2> HIDE DEF rows, record, after, home
  <2>5. created.parts = st.parts /\ created.allocs = rows
        /\ \A f \in Figures : f # figure.key => created.figures[f] = st.figures[f]
    BY <1>0 DEF Between
  <2> HIDE DEF created
  <2>6. ~figures[figure.key].exists
    BY <1>0, <2>1 DEF Skipped, FigureOfFile
  <2>7. \A a \in Positions : allocs[a].exists => rows[a] = st.allocs[a]
    BY <2>4, <2>6 DEF BInv, Grounded, ComponentsHaveFigure
  <2>8. \A f \in Figures : figures[f].exists => created.figures[f] = figures[f]
    BY <1>0, <2>5, <2>6 DEF Skipped
  <2>9. Skipped(created)
    <3>1. \A p \in Parts : parts[p].state # "absent" => created.parts[p] = parts[p]
      BY <1>0, <2>5 DEF Skipped
    <3>2. ASSUME NEW a \in Positions, allocs[a].exists, created.allocs[a] # allocs[a]
          PROVE  \E p \in Parts : /\ parts[p].state = "absent" /\ created.parts[p].state # "absent"
                                  /\ a \in Matching(allocs, created.parts[p], FALSE)
      <4>1. st.allocs[a] # allocs[a]
        BY <2>5, <2>7, <3>2
      <4>2. PICK p \in Parts : /\ parts[p].state = "absent" /\ st.parts[p].state # "absent"
                               /\ a \in Matching(allocs, st.parts[p], FALSE)
        BY <1>0, <3>2, <4>1 DEF Skipped
      <4> QED BY <2>5, <4>2
    <3> QED BY <2>8, <3>1, <3>2 DEF Skipped
  <2>10. after \in AmongFigures
    BY <1>0, <2>3, <2>9 DEF AmongFigures
  <2> QED BY <2>10 DEF after
<1> QED BY <1>1, <1>2

LEMMA ImportedSkips ==
    ASSUME BInv, NEW file \in Files, NEW rank \in Orders(Parts)
    PROVE  Imported(file, "skip", rank) \in AmongFigures
<1> DEFINE withSets == SetsImported(file)
           withParts == PartsImported(file, "skip", rank, withSets)
<1>1. withSets \in BeforeFigures
  BY UnchangedSkips, SetSkips, SetsLoop
<1>2. withParts \in BeforeFigures
  BY <1>1, PartSkips, PartsLoop
<1>3. withParts \in AmongFigures
  BY <1>2 DEF BeforeFigures, AmongFigures
<1>4. FiguresImported(file, "skip", withParts) \in AmongFigures
  <2>1. \A before \in AmongFigures : \A figure \in file.figures :
          ImportFigure(before, figure, "skip") \in AmongFigures
    BY FiniteFile, FigureSkips
  <2> HIDE DEF withParts
  <2> QED BY <1>3, <2>1, FiguresLoop
<1>5. Imported(file, "skip", rank) = FiguresImported(file, "skip", withParts)
  BY DEF Imported, SetsImported, PartsImported, FiguresImported
<1> QED BY <1>4, <1>5

\* "SKIP keeps what is on file": for every file, however many Parts of one kind
\* it has, and whatever the catalog holds (import_confirm).
THEOREM SkipKeepsRows == ImportSpec => SkipLeavesRows
<1>1. ASSUME BInv, [ImportNext]_importVars, Applies("skip")
      PROVE  /\ \A p \in Parts : parts[p].state # "absent" => parts'[p] = parts[p]
             /\ \A f \in Figures : figures[f].exists => figures'[f] = figures[f]
             /\ \A a \in Positions : allocs[a].exists /\ allocs'[a] # allocs[a] =>
                  \E p \in Parts : /\ parts[p].state = "absent"
                                   /\ a \in Matching(allocs, parts'[p], FALSE)
  <2>1. PICK r \in Requests : confirms[r] = "skip" /\ confirms'[r] = "idle"
    BY <1>1 DEF Applies
  <2>2. batch' # batch /\ confirms' # confirms
    BY <1>1, <2>1 DEF Applies
  <2>3. PICK q \in Requests : Confirm(q)
    BY <1>1, <2>2 DEF ImportNext, importVars, RequestBetween, Preview, LookAt, ConfirmFails
  <2>4. q = r
    BY <2>1, <2>3 DEF Confirm, BInv
  <2>5. batch.file \in Files
    BY <1>1, <2>3 DEF Confirm, Locked, BInv, BatchFields
  <2>6. PICK rank \in Orders(Parts) :
          LET st == Imported(batch.file, confirms[q], rank)
          IN  sets' = st.sets /\ figures' = st.figures /\ allocs' = st.allocs /\ parts' = st.parts
    BY <2>3 DEF Confirm
  <2> DEFINE st == Imported(batch.file, "skip", rank)
  <2>7. st \in AmongFigures
    BY <1>1, <2>5, ImportedSkips
  <2>8. figures' = st.figures /\ allocs' = st.allocs /\ parts' = st.parts
    BY <2>1, <2>4, <2>6
  <2> HIDE DEF st
  <2> QED BY <2>7, <2>8 DEF AmongFigures, Skipped
<1>2. BInv /\ [ImportNext]_importVars =>
        [Applies("skip") =>
           /\ \A p \in Parts : parts[p].state # "absent" => parts'[p] = parts[p]
           /\ \A f \in Figures : figures[f].exists => figures'[f] = figures[f]
           /\ \A a \in Positions : allocs[a].exists /\ allocs'[a] # allocs[a] =>
                \E p \in Parts : /\ parts[p].state = "absent"
                                 /\ a \in Matching(allocs, parts'[p], FALSE)]_importVars
  BY <1>1
<1> QED BY <1>2, InitBInv, StepBInv, PTL DEF ImportSpec, SkipLeavesRows

-----------------------------------------------------------------------------
(***************************************************************************)
(* What the repair of diverging mirrors leaves, for every catalog, every   *)
(* history of audit events and every interleaving of requests with the     *)
(* command.                                                                *)
(***************************************************************************)
Event == [row: Parts \cup Positions, value: Nat, fresh: BOOLEAN]

\* One event per row.
OneEach(events) == \A i, j \in DOMAIN events : events[i].row = events[j].row => i = j

-----------------------------------------------------------------------------
(***************************************************************************)
(* The recursion that keeps the events of some rows.                       *)
(***************************************************************************)
Extended(kept, events, rows, i) ==
    IF i = 0 THEN <<>>
    ELSE IF events[i].row \in rows THEN Append(kept[i - 1], events[i]) ELSE kept[i - 1]
Filters(kept, events, rows, n) == kept = [i \in 0..n |-> Extended(kept, events, rows, i)]
Filtering(events, rows) == CHOOSE kept : Filters(kept, events, rows, Len(events))

LEMMA KeptIsFiltering ==
    ASSUME NEW events, NEW rows
    PROVE  EventsOf(events, rows) = Filtering(events, rows)[Len(events)]
BY DEF EventsOf, Filtering, Filters, Extended

\* The recursion has a solution, so the chosen one is one.
LEMMA FilterExists ==
    ASSUME NEW events, NEW rows
    PROVE  \A n \in Nat : \E kept : Filters(kept, events, rows, n)
<1> DEFINE Bad == {m \in Nat : ~\E kept : Filters(kept, events, rows, m)}
<1> SUFFICES ASSUME Bad # {} PROVE FALSE
  OBVIOUS
<1>1. PICK m \in Bad : \A k \in Bad : m <= k
  BY LeastNatural
<1>2. CASE m = 0
  <2> DEFINE first == [i \in 0..0 |-> <<>>]
  <2>1. first = [i \in 0..0 |-> Extended(first, events, rows, i)]
    BY DEF Extended
  <2> HIDE DEF first
  <2> QED BY <1>1, <1>2, <2>1 DEF Filters
<1>3. CASE m # 0
  <2>1. m - 1 \in Nat /\ m - 1 \notin Bad
    BY <1>1, <1>3
  <2>2. PICK kept : Filters(kept, events, rows, m - 1)
    BY <2>1
  <2> DEFINE next == [i \in 0..m |-> Extended(kept, events, rows, i)]
  <2>3. \A i \in 0..(m - 1) : i \in 0..m /\ next[i] = kept[i]
    BY <2>1, <2>2 DEF Filters
  <2>4. \A i \in 0..m : i # 0 => i - 1 \in 0..(m - 1)
    BY <2>1
  <2> HIDE DEF next
  <2>5. \A i \in 0..m : Extended(next, events, rows, i) = Extended(kept, events, rows, i)
    BY <2>3, <2>4 DEF Extended
  <2>6. next = [i \in 0..m |-> Extended(next, events, rows, i)]
    BY <2>5 DEF next
  <2> QED BY <1>1, <2>6 DEF Filters
<1> QED BY <1>2, <1>3

LEMMA FilterUnfolds ==
    ASSUME NEW events \in Seq(Event), NEW rows
    PROVE  \A i \in 0..Len(events) :
              Filtering(events, rows)[i] = Extended(Filtering(events, rows), events, rows, i)
<1>1. Len(events) \in Nat
  OBVIOUS
<1>2. PICK kept : Filters(kept, events, rows, Len(events))
  BY <1>1, FilterExists, Zenon
<1>3. Filters(Filtering(events, rows), events, rows, Len(events))
  BY <1>2, Zenon DEF Filtering
<1> QED BY <1>3 DEF Filters

\* What is kept of the first n events.
Selected(s, events, rows, n) ==
    /\ s \in Seq(Event)
    /\ \A i \in DOMAIN s : \E j \in 1..n : s[i] = events[j] /\ events[j].row \in rows

LEMMA NothingSelected ==
    ASSUME NEW events, NEW rows PROVE Selected(<<>>, events, rows, 0) /\ OneEach(<<>>)
BY DEF Selected, OneEach

LEMMA SelectedMore ==
    ASSUME NEW events \in Seq(Event), NEW rows, NEW n \in 1..Len(events),
           NEW s, Selected(s, events, rows, n - 1)
    PROVE  Selected(s, events, rows, n)
BY DEF Selected

LEMMA SelectedAppend ==
    ASSUME NEW events \in Seq(Event), NEW rows, NEW n \in 1..Len(events),
           OneEach(events), events[n].row \in rows,
           NEW s, Selected(s, events, rows, n - 1), OneEach(s)
    PROVE  Selected(Append(s, events[n]), events, rows, n) /\ OneEach(Append(s, events[n]))
<1> DEFINE t == Append(s, events[n])
<1>1. s \in Seq(Event) /\ events[n] \in Event
  BY DEF Selected
<1>2. /\ t \in Seq(Event) /\ Len(t) = Len(s) + 1 /\ Len(s) \in Nat
      /\ \A i \in 1..Len(s) : t[i] = s[i]
      /\ t[Len(s) + 1] = events[n]
  BY <1>1
<1>3. DOMAIN t = 1..(Len(s) + 1) /\ DOMAIN s = 1..Len(s) /\ DOMAIN events = 1..Len(events)
  BY <1>1, <1>2
<1>4. \A i \in 1..Len(s) : \E j \in 1..(n - 1) : s[i] = events[j] /\ events[j].row \in rows
  BY <1>1 DEF Selected
<1>5. \A j \in 1..(n - 1) : j \in 1..n /\ j \in DOMAIN events /\ j # n
  BY <1>3
<1>n. n \in 1..n /\ n \in DOMAIN events
  BY <1>3
<1> HIDE DEF t
<1>6. ASSUME NEW i \in DOMAIN t
      PROVE  \E j \in 1..n : t[i] = events[j] /\ events[j].row \in rows
  <2>1. CASE i \in 1..Len(s)
    BY <1>2, <1>4, <1>5, <2>1
  <2>2. CASE i = Len(s) + 1
    BY <1>2, <1>n, <2>2
  <2> QED BY <1>2, <1>3, <2>1, <2>2
<1>7. \A i \in 1..Len(s) : t[i].row # events[n].row
  BY <1>2, <1>4, <1>5, <1>n DEF OneEach
<1>8. ASSUME NEW i \in DOMAIN t, NEW j \in DOMAIN t, t[i].row = t[j].row
      PROVE  i = j
  <2>1. CASE i \in 1..Len(s) /\ j \in 1..Len(s)
    BY <1>2, <1>3, <1>8, <2>1 DEF OneEach
  <2>2. CASE i = Len(s) + 1 /\ j = Len(s) + 1
    BY <2>2
  <2>3. CASE i \in 1..Len(s) /\ j = Len(s) + 1
    BY <1>2, <1>7, <1>8, <2>3
  <2>4. CASE i = Len(s) + 1 /\ j \in 1..Len(s)
    BY <1>2, <1>7, <1>8, <2>4
  <2> QED BY <1>2, <1>3, <2>1, <2>2, <2>3, <2>4
<1> QED BY <1>2, <1>6, <1>8 DEF Selected, OneEach, t

\* The events of the rows asked for, at most one of each.
LEMMA KeptEvents ==
    ASSUME NEW events \in Seq(Event), NEW rows, OneEach(events)
    PROVE  /\ EventsOf(events, rows) \in Seq(Event)
           /\ \A i \in DOMAIN EventsOf(events, rows) :
                 \E j \in DOMAIN events : /\ EventsOf(events, rows)[i] = events[j]
                                          /\ events[j].row \in rows
           /\ OneEach(EventsOf(events, rows))
<1> DEFINE f == Filtering(events, rows)
           Good(n) == Selected(f[n], events, rows, n) /\ OneEach(f[n])
           Bad == {n \in 0..Len(events) : ~Good(n)}
<1>0. Len(events) \in Nat /\ DOMAIN events = 1..Len(events)
  OBVIOUS
<1>1. Bad = {}
  <2> SUFFICES ASSUME Bad # {} PROVE FALSE
    OBVIOUS
  <2>0. Bad \in SUBSET Nat
    BY <1>0
  <2>1. PICK n \in Bad : \A k \in Bad : n <= k
    <3> HIDE DEF Bad
    <3> QED BY <2>0, LeastNatural
  <2>2. n \in 0..Len(events) /\ f[n] = Extended(f, events, rows, n)
    BY FilterUnfolds
  <2>3. CASE n = 0
    <3>1. f[n] = <<>>
      BY <2>2, <2>3 DEF Extended
    <3> QED BY <2>1, <2>3, <3>1, NothingSelected
  <2>4. CASE n # 0
    <3>1. n - 1 \in 0..Len(events) /\ n \in 1..Len(events) /\ n - 1 < n
      BY <1>0, <2>2, <2>4
    <3>2. n - 1 \notin Bad
      <4> HIDE DEF Bad
      <4> QED BY <1>0, <2>1, <2>2, <3>1
    <3>3. Good(n - 1)
      BY <3>1, <3>2
    <3>4. f[n] = IF events[n].row \in rows THEN Append(f[n - 1], events[n]) ELSE f[n - 1]
      BY <2>2, <2>4 DEF Extended
    <3> HIDE DEF f
    <3>5. CASE events[n].row \in rows
      <4>1. Good(n)
        BY <3>1, <3>3, <3>4, <3>5, SelectedAppend
      <4> QED BY <2>1, <4>1
    <3>6. CASE events[n].row \notin rows
      <4>1. Good(n)
        BY <3>1, <3>3, <3>4, <3>6, SelectedMore
      <4> QED BY <2>1, <4>1
    <3> QED BY <3>5, <3>6
  <2> QED BY <2>3, <2>4
<1>2. Good(Len(events))
  BY <1>0, <1>1
<1>3. EventsOf(events, rows) = f[Len(events)]
  BY KeptIsFiltering
<1> HIDE DEF f
<1> QED BY <1>0, <1>2, <1>3 DEF Selected

-----------------------------------------------------------------------------
(***************************************************************************)
(* No request lets a position own more than it requires.                   *)
(***************************************************************************)
WithinRequired(as) == \A a \in Positions : as[a].exists => as[a].owned <= as[a].required

LEMMA SetPartOwnedWithin ==
    ASSUME IInv, NEW p \in Parts, NEW row \in PartRow, NEW quantity \in Nat,
           WithinRequired(allocs), SetPartOwnedQuantity(p, row, quantity)
    PROVE  WithinRequired(allocs')
<1> DEFINE M == Matching(allocs, row, FALSE)
           maximum == IF M = {} THEN row.quantity ELSE allocs[CHOOSE a \in M : TRUE].required
<1>1. /\ Cardinality(M) <= 1 /\ quantity <= maximum
      /\ allocs' = [a \in Positions |-> IF a \in M THEN [allocs[a] EXCEPT !.owned = quantity]
                                        ELSE allocs[a]]
  BY DEF SetPartOwnedQuantity
<1>2. M \in SUBSET Positions
  BY MatchingType
<1>t. allocs \in [Positions -> AllocRow]
  BY DEF IInv, TypeOK
<1>3. \A a \in M : maximum = allocs[a].required
  <2> SUFFICES ASSUME NEW a \in M PROVE maximum = allocs[a].required
    OBVIOUS
  <2> HIDE DEF M
  <2>1. PICK b \in Positions : M = {b}
    BY <1>1, <1>2, AtMostOne
  <2> QED BY <2>1
<1> HIDE DEF M, maximum
<1>4. ASSUME NEW a \in Positions, allocs'[a].exists
      PROVE  allocs'[a].owned <= allocs'[a].required
  <2>1. CASE a \in M
    <3>1. allocs'[a] = [allocs[a] EXCEPT !.owned = quantity]
      BY <1>1, <2>1
    <3>2. allocs'[a].owned = quantity /\ allocs'[a].required = maximum
      BY <1>3, <1>t, <2>1, <3>1 DEF AllocRow
    <3> QED BY <1>1, <3>2
  <2>2. CASE a \notin M
    BY <1>1, <1>4, <2>2 DEF WithinRequired
  <2> QED BY <2>1, <2>2
<1> QED BY <1>4 DEF WithinRequired

LEMMA SetAuthoritativeWithin ==
    ASSUME NEW as \in [Positions -> AllocRow], NEW a \in Positions, NEW quantity \in Nat,
           \A b \in Positions \ {a} : as[b] = allocs[b],
           WithinRequired(allocs), SetAuthoritativeOwned(as, a, quantity)
    PROVE  WithinRequired(allocs')
<1>1. quantity <= as[a].required /\ allocs' = [as EXCEPT ![a].owned = quantity]
  BY DEF SetAuthoritativeOwned
<1>2. allocs'[a].owned = quantity /\ allocs'[a].required = as[a].required
  BY <1>1 DEF AllocRow
<1>3. \A b \in Positions \ {a} : allocs'[b] = allocs[b]
  BY <1>1
<1> QED BY <1>1, <1>2, <1>3 DEF WithinRequired

LEMMA SetAllWithin ==
    ASSUME TypeOK, NEW touched, NEW goal \in {AsRequired, AsNone},
           WithinRequired(allocs), SetAllAuthoritativeOwned(touched, goal)
    PROVE  WithinRequired(allocs')
<1>1. allocs' = [a \in Positions |->
                   IF a \in touched THEN [allocs[a] EXCEPT !.owned = goal[a]] ELSE allocs[a]]
  BY DEF SetAllAuthoritativeOwned
<1>2. \A a \in Positions : goal[a] <= allocs[a].required
  BY DEF AsRequired, AsNone, TypeOK, AllocRow
<1>3. \A a \in Positions :
        IF a \in touched THEN allocs'[a].owned = goal[a] /\ allocs'[a].required = allocs[a].required
        ELSE allocs'[a] = allocs[a]
  BY <1>1 DEF TypeOK, AllocRow
<1> QED BY <1>2, <1>3 DEF WithinRequired

LEMMA QuantityRequestWithin ==
    ASSUME IInv, NEW row \in Parts \cup Positions, NEW quantity \in AskedQuantities,
           WithinRequired(allocs), QuantityRequest(row, quantity)
    PROVE  WithinRequired(allocs')
<1>0. /\ quantity \in Nat /\ SetItems \subseteq Positions /\ FigureParts \subseteq Positions
      /\ allocs \in [Positions -> AllocRow]
  BY FormsAssumption DEF AskedQuantities, PartForm, PositionForm, Positions, IInv, TypeOK
<1>1. CASE row \in Parts /\ MissingPartQuantity(row, quantity)
  <2>1. parts[row] \in PartRow
    BY <1>1 DEF IInv, TypeOK
  <2> QED BY <1>0, <1>1, <2>1, SetPartOwnedWithin DEF MissingPartQuantity
<1>2. CASE row \in SetItems /\ SetInventoryQuantity(row, quantity)
  BY <1>0, <1>2, SetAuthoritativeWithin DEF SetInventoryQuantity
<1>3. CASE row \in FigureParts /\ MinifigurePartQuantity(row, quantity)
  BY <1>0, <1>3, SetAuthoritativeWithin DEF MinifigurePartQuantity
<1> QED
  BY <1>1, <1>2, <1>3 DEF QuantityRequest

LEMMA PartRequestWithin ==
    ASSUME IInv, WithinRequired(allocs), PartRequest
    PROVE  WithinRequired(allocs')
<1>0. \A form \in PartForms : form \in PartForm /\ form.owned \in Nat
  BY FormsAssumption DEF PartForm
<1>2. ASSUME NEW p \in Parts, NEW form \in PartForms, CreatePart(p, form)
      PROVE  WithinRequired(allocs')
  BY <1>0, <1>2, FormRowType, SetPartOwnedWithin DEF CreatePart
<1>3. ASSUME NEW p \in Parts, NEW form \in PartForms, EditPart(p, form)
      PROVE  WithinRequired(allocs')
  <2>1. PICK sent \in PartForm : /\ SetPartOwnedQuantity(p, FormRow(sent), sent.owned)
                                 /\ sent.owned \in Nat
    BY <1>3, EditSends DEF IInv
  <2> QED BY <2>1, FormRowType, SetPartOwnedWithin
<1>4. CASE UNCHANGED allocs
  BY <1>4
<1> QED
  BY <1>2, <1>3, <1>4 DEF PartRequest, MissingPartsBulk, MissingPartStatus

LEMMA PositionRequestWithin ==
    ASSUME IInv, WithinRequired(allocs), PositionRequest
    PROVE  WithinRequired(allocs')
<1>0. /\ SetItems \subseteq Positions /\ TypeOK
      /\ allocs \in [Positions -> AllocRow]
  BY DEF Positions, IInv, TypeOK
<1>2. ASSUME NEW a \in SetItems, NEW form \in PositionForms, SaveSetItem(a, form)
      PROVE  WithinRequired(allocs')
  <2>1. PICK as : /\ as = [allocs EXCEPT ![a] = FormAlloc(form)]
                  /\ SetAuthoritativeOwned(as, a, form.owned)
    BY <1>2 DEF SaveSetItem
  <2>2. as \in [Positions -> AllocRow] /\ \A b \in Positions \ {a} : as[b] = allocs[b]
    BY <1>0, <2>1, FormAllocType
  <2> QED BY <1>0, <2>1, <2>2, FormAllocType, SetAuthoritativeWithin
<1>3. ASSUME NEW s \in Sets, SetInventoryComplete(s) \/ SetInventoryMissing(s)
      PROVE  WithinRequired(allocs')
  BY <1>0, <1>3, SetAllWithin DEF SetInventoryComplete, SetInventoryMissing
<1>5. ASSUME MarkAllSparesMissing
      PROVE  WithinRequired(allocs')
  BY <1>0, <1>5, SetAllWithin DEF MarkAllSparesMissing
<1>6. ASSUME MarkAllSparesPresent
      PROVE  WithinRequired(allocs')
  <2>1. \A a \in Positions : allocs'[a] \in {allocs[a], [allocs[a] EXCEPT !.owned = allocs[a].required]}
    BY <1>6 DEF MarkAllSparesPresent
  <2>2. \A a \in Positions :
          \/ allocs'[a] = allocs[a]
          \/ allocs'[a].owned = allocs[a].required /\ allocs'[a].required = allocs[a].required
    BY <1>0, <2>1 DEF AllocRow
  <2>3. \A a \in Positions : allocs[a].required <= allocs[a].required
    BY <1>0 DEF AllocRow
  <2> QED BY <2>2, <2>3 DEF WithinRequired
<1>7. ASSUME NEW s \in Sets, NEW new \in SUBSET Parts,
             NEW creator \in [new -> SetItems], CreateMissing(s, creator)
      PROVE  WithinRequired(allocs')
  BY <1>7 DEF CreateMissing
<1> QED
  BY <1>2, <1>3, <1>5, <1>6, <1>7 DEF PositionRequest

LEMMA WithoutWithin ==
    ASSUME NEW gone, WithinRequired(allocs), allocs' = Without(allocs, gone)
    PROVE  WithinRequired(allocs')
<1>1. \A a \in Positions : allocs'[a] = IF a \in gone THEN BlankAlloc ELSE allocs[a]
  BY DEF Without
<1>2. ~BlankAlloc.exists
  BY DEF BlankAlloc
<1> QED BY <1>1, <1>2 DEF WithinRequired

LEMMA FigureRequestWithin ==
    ASSUME IInv, WithinRequired(allocs), FigureRequest
    PROVE  WithinRequired(allocs')
<1>0. /\ FigureParts \subseteq Positions /\ TypeOK
      /\ allocs \in [Positions -> AllocRow]
  BY DEF Positions, IInv, TypeOK
<1>1. ASSUME NEW f \in Figures, NEW s \in Sets \cup {NoSet}, SaveFigure(f, s)
      PROVE  WithinRequired(allocs')
  BY <1>1 DEF SaveFigure
<1>2. ASSUME NEW f \in Figures, DeleteFigure(f)
      PROVE  WithinRequired(allocs')
  BY <1>2, WithoutWithin DEF DeleteFigure
<1>3. ASSUME NEW a \in FigureParts, NEW form \in PositionForms, SaveFigurePart(a, form)
      PROVE  WithinRequired(allocs')
  <2>1. PICK as : /\ as = [allocs EXCEPT ![a] = FormAlloc(form)]
                  /\ SetAuthoritativeOwned(as, a, form.owned)
    BY <1>3 DEF SaveFigurePart
  <2>2. as \in [Positions -> AllocRow] /\ \A b \in Positions \ {a} : as[b] = allocs[b]
    BY <1>0, <2>1, FormAllocType
  <2> QED BY <1>0, <2>1, <2>2, FormAllocType, SetAuthoritativeWithin
<1>5. ASSUME NEW f \in Figures, FigureInventoryComplete(f) \/ FigureInventoryMissing(f)
      PROVE  WithinRequired(allocs')
  BY <1>0, <1>5, SetAllWithin DEF FigureInventoryComplete, FigureInventoryMissing
<1> QED
  BY <1>1, <1>2, <1>3, <1>5 DEF FigureRequest

LEMMA TrashRequestWithin ==
    ASSUME WithinRequired(allocs), TrashRequest
    PROVE  WithinRequired(allocs')
<1>1. CASE UNCHANGED allocs
  BY <1>1
<1>2. ASSUME NEW s \in Sets, DeleteSet(s)
      PROVE  WithinRequired(allocs')
  BY <1>2, WithoutWithin DEF DeleteSet
<1> QED
  BY <1>1, <1>2 DEF TrashRequest, CreateSet, TrashSet, RestoreSet, TrashPart, RestorePart, DeletePart

-----------------------------------------------------------------------------
(***************************************************************************)
(* The inductive invariant: that of the catalog, positions within what     *)
(* they require, at most one event per stored row, and a plan about Parts. *)
(***************************************************************************)
EventsOfRows == /\ edits \in Seq(Event)
                /\ OneEach(edits)
                /\ \A i \in DOMAIN edits : edits[i].row \in StoredRows

PlanRecord == [pending |-> plan.pending, filter |-> plan.filter, resolve |-> plan.resolve,
               requests |-> plan.requests, tokens |-> plan.tokens]
PlanOfParts == /\ plan = PlanRecord
               /\ plan.resolve \in BOOLEAN
               /\ DOMAIN plan.tokens \subseteq Parts

OutcomeTold == outcome.told \in {"none", "nothing", "applied", "refused"}

RInv == IInv /\ WithinRequired(allocs) /\ EventsOfRows /\ PlanOfParts /\ OutcomeTold

LEMMA StoredLater ==
    ASSUME TypeOK, \A p \in Parts : parts'[p].state = parts[p].state,
           \A a \in Positions : allocs'[a].exists = allocs[a].exists
    PROVE  StoredRows' = StoredRows
BY DEF StoredRows, RowStored, Positions

\* The three recorded requests write amounts of stored rows only.
LEMMA QuantityRequestRows ==
    ASSUME IInv, NEW row \in Parts \cup Positions, NEW quantity \in AskedQuantities,
           QuantityRequest(row, quantity)
    PROVE  StoredRows' = StoredRows /\ row \in StoredRows
<1>0. /\ quantity \in Nat /\ SetItems \subseteq Positions /\ FigureParts \subseteq Positions
      /\ allocs \in [Positions -> AllocRow] /\ parts \in [Parts -> PartRow] /\ TypeOK
  BY FormsAssumption DEF AskedQuantities, PartForm, PositionForm, Positions, IInv, TypeOK
<1>1. CASE row \in Parts /\ MissingPartQuantity(row, quantity)
  <2>1. parts[row] \in PartRow /\ parts[row].state = "live"
    BY <1>0, <1>1 DEF MissingPartQuantity
  <2>2. SetPartOwnedQuantity(row, parts[row], quantity)
    BY <1>1 DEF MissingPartQuantity
  <2>3. PICK maximum, M : PartWritten(row, parts[row], quantity, maximum, M)
    BY <1>0, <1>1, <2>1, <2>2, SetPartOwnedWrites
  <2>4. \A p \in Parts : parts'[p].state = parts[p].state
    BY <2>3 DEF PartWritten
  <2>5. \A a \in Positions : allocs'[a].exists = allocs[a].exists
    BY <1>0, <2>2 DEF SetPartOwnedQuantity, AllocRow
  <2> QED BY <1>0, <1>1, <2>1, <2>4, <2>5, StoredLater DEF StoredRows, RowStored
<1>2. ASSUME row \in Positions, SetAuthoritativeOwned(allocs, row, quantity)
      PROVE  StoredRows' = StoredRows /\ row \in StoredRows
  <2>1. allocs[row].exists /\ allocs' = [allocs EXCEPT ![row].owned = quantity]
    BY <1>2 DEF SetAuthoritativeOwned, Writable
  <2>2. \A a \in Positions : allocs'[a].exists = allocs[a].exists
    BY <1>0, <2>1 DEF AllocRow
  <2>3. PICK written, touched, peak : parts' = Resynchronized(written, parts, touched, peak)
    BY <1>2 DEF SetAuthoritativeOwned
  <2>4. \A p \in Parts : parts'[p].state = parts[p].state
    BY <1>0, <2>3, ResynchronizedQuiet
  <2>5. row \notin Parts
    BY <1>2, RowsAssumption
  <2> QED BY <1>0, <1>2, <2>1, <2>2, <2>4, <2>5, StoredLater DEF StoredRows, RowStored
<1> QED
  BY <1>0, <1>1, <1>2 DEF QuantityRequest, SetInventoryQuantity, MinifigurePartQuantity

LEMMA RecordedEvents ==
    ASSUME EventsOfRows, NEW row \in StoredRows, NEW quantity \in Nat, StoredRows' = StoredRows,
           edits' = Recorded(row, quantity)
    PROVE  EventsOfRows'
<1> DEFINE rows == (Parts \cup Positions) \ {row}
           kept == EventsOf(edits, rows)
           new == [row |-> row, value |-> quantity, fresh |-> TRUE]
<1>1. /\ kept \in Seq(Event) /\ OneEach(kept)
      /\ \A i \in DOMAIN kept : \E j \in DOMAIN edits : kept[i] = edits[j] /\ edits[j].row \in rows
  BY KeptEvents DEF EventsOfRows
<1>2. new \in Event /\ new.row = row
  BY DEF Event, StoredRows
<1>3. edits' = Append(kept, new)
  BY DEF Recorded
<1>4. \A i \in DOMAIN kept : kept[i].row \in StoredRows /\ kept[i].row # row
  <2> HIDE DEF kept
  <2> QED BY <1>1 DEF EventsOfRows
<1> HIDE DEF kept, new, rows
<1>5. /\ edits' \in Seq(Event) /\ DOMAIN edits' = 1..(Len(kept) + 1) /\ Len(kept) \in Nat
      /\ DOMAIN kept = 1..Len(kept)
      /\ \A i \in 1..Len(kept) : edits'[i] = kept[i]
      /\ edits'[Len(kept) + 1] = new
  BY <1>1, <1>2, <1>3
<1>6. \A i \in DOMAIN edits' : i \in DOMAIN kept \/ i = Len(kept) + 1
  BY <1>5
<1>7. OneEach(edits')
  BY <1>1, <1>2, <1>4, <1>5, <1>6 DEF OneEach
<1>8. \A i \in DOMAIN edits' : edits'[i].row \in StoredRows
  BY <1>2, <1>4, <1>5, <1>6
<1> QED BY <1>5, <1>7, <1>8 DEF EventsOfRows, OneEach

LEMMA KeptRows ==
    ASSUME EventsOfRows, edits' = EventsOf(edits, StoredRows')
    PROVE  EventsOfRows'
<1>1. PICK rows : rows = StoredRows'
  OBVIOUS
<1>2. PICK kept : kept = EventsOf(edits, rows)
  OBVIOUS
<1>3. /\ kept \in Seq(Event) /\ OneEach(kept)
      /\ \A i \in DOMAIN kept : \E j \in DOMAIN edits : kept[i] = edits[j] /\ edits[j].row \in rows
  BY <1>2, KeptEvents DEF EventsOfRows
<1>4. edits' = kept
  BY <1>1, <1>2
<1>5. \A i \in DOMAIN kept : kept[i].row \in rows
  BY <1>3
<1> QED BY <1>1, <1>3, <1>4, <1>5 DEF EventsOfRows, OneEach

LEMMA PrintedEvents ==
    ASSUME EventsOfRows, edits' = Printed(edits), StoredRows' = StoredRows
    PROVE  EventsOfRows'
<1>1. edits \in Seq(Event) /\ DOMAIN edits = 1..Len(edits) /\ Len(edits) \in Nat
  BY DEF EventsOfRows
<1>2. \A i \in DOMAIN edits : edits[i] \in Event
  BY <1>1
<1>3. \A i \in DOMAIN edits : edits'[i] \in Event /\ edits'[i].row = edits[i].row
  BY <1>2 DEF Printed, Event
<1>4. edits' = [i \in 1..Len(edits) |-> edits'[i]]
  BY <1>1 DEF Printed
<1>5. edits' \in Seq(Event) /\ DOMAIN edits' = DOMAIN edits
  BY <1>1, <1>3, <1>4
<1> QED BY <1>3, <1>5 DEF EventsOfRows, OneEach

LEMMA ExpiredEvents ==
    ASSUME EventsOfRows, edits # <<>>, edits' = Tail(edits), StoredRows' = StoredRows
    PROVE  EventsOfRows'
<1>1. /\ edits' \in Seq(Event) /\ Len(edits') = Len(edits) - 1 /\ Len(edits) \in Nat \ {0}
      /\ \A i \in 1..(Len(edits) - 1) : edits'[i] = edits[i + 1]
  BY DEF EventsOfRows
<1>2. DOMAIN edits' = 1..(Len(edits) - 1) /\ DOMAIN edits = 1..Len(edits)
  BY <1>1 DEF EventsOfRows
<1>3. \A i \in DOMAIN edits' : i \in Int /\ i + 1 \in DOMAIN edits /\ edits'[i] = edits[i + 1]
  BY <1>1, <1>2
<1>4. \A i, j \in DOMAIN edits' : edits'[i].row = edits'[j].row => i = j
  <2> SUFFICES ASSUME NEW i \in DOMAIN edits', NEW j \in DOMAIN edits',
                      edits'[i].row = edits'[j].row
               PROVE  i = j
    OBVIOUS
  <2>1. i + 1 = j + 1
    BY <1>3 DEF EventsOfRows, OneEach
  <2> QED BY <1>3, <2>1
<1> QED BY <1>1, <1>3, <1>4 DEF EventsOfRows, OneEach

-----------------------------------------------------------------------------
(***************************************************************************)
(* What a run that applies writes.                                         *)
(***************************************************************************)
LEMMA PartClass ==
    ASSUME NEW p, NEW resolve, Classification(p, resolve) = "part"
    PROVE  ~Agrees(p) /\ PartIsProven(p)
<1>1. CASE Agrees(p)
  BY <1>1 DEF Classification
<1>2. CASE ~Agrees(p) /\ PartIsProven(p)
  BY <1>2
<1>3. CASE ~Agrees(p) /\ ~PartIsProven(p) /\ AllocationIsProven(p)
  BY <1>3 DEF Classification
<1>4. CASE ~Agrees(p) /\ ~PartIsProven(p) /\ ~AllocationIsProven(p)
  BY <1>4 DEF Classification
<1> QED BY <1>1, <1>2, <1>3, <1>4

LEMMA AllocationClass ==
    ASSUME NEW p, NEW resolve, Classification(p, resolve) = "allocation"
    PROVE  AllocationIsProven(p)
<1>1. CASE Agrees(p)
  BY <1>1 DEF Classification
<1>2. CASE ~Agrees(p) /\ PartIsProven(p)
  BY <1>2 DEF Classification
<1>3. CASE ~Agrees(p) /\ ~PartIsProven(p) /\ AllocationIsProven(p)
  BY <1>3
<1>4. CASE ~Agrees(p) /\ ~PartIsProven(p) /\ ~AllocationIsProven(p)
  BY <1>4 DEF Classification
<1> QED BY <1>1, <1>2, <1>3, <1>4

\* Without the blanket approval only a proven side is written.
LEMMA ProvenClass ==
    ASSUME NEW p, NEW resolve, ~resolve, WouldWrite(Classification(p, resolve))
    PROVE  Classification(p, resolve) \in {"part", "allocation"}
<1>1. CASE Agrees(p)
  BY <1>1 DEF Classification, WouldWrite
<1>2. CASE ~Agrees(p) /\ PartIsProven(p)
  BY <1>2 DEF Classification
<1>3. CASE ~Agrees(p) /\ ~PartIsProven(p) /\ AllocationIsProven(p)
  BY <1>3 DEF Classification
<1>4. CASE ~Agrees(p) /\ ~PartIsProven(p) /\ ~AllocationIsProven(p)
  BY <1>4 DEF Classification, WouldWrite
<1> QED BY <1>1, <1>2, <1>3, <1>4

\* A total is handed to the only position, which requires as much.
LEMMA ProvenPart ==
    ASSUME NEW p \in Parts, PartIsProven(p)
    PROVE  \E a \in Positions : Group(p) = {a} /\ parts[p].owned <= allocs[a].required
<1>1. Group(p) \in SUBSET Positions
  BY MatchingType DEF Group
<1>2. Cardinality(Group(p)) = 1
  BY DEF PartIsProven
<1>3. Group(p) # {}
  BY <1>2, FS_EmptySet
<1>4. PICK a \in Positions : Group(p) = {a}
  BY <1>1, <1>2, <1>3, AtMostOne
<1>5. Deciding(p).value = parts[p].owned
  BY DEF PartIsProven, Stands, Owned
<1>6. Deciding(p).value <= allocs[a].required
  BY <1>4 DEF PartIsProven
<1> QED BY <1>4, <1>5, <1>6

LEMMA CandidateParts == ASSUME PlanOfParts PROVE Candidates \subseteq Parts /\ IsFiniteSet(Candidates)
<1>1. Candidates \subseteq Parts
  BY DEF Candidates, PlanOfParts
<1> QED BY <1>1, KeysAssumption, FS_Subset

\* One of the givers is the last one.
LEMMA LastGiver ==
    ASSUME PlanOfParts, NEW order \in Orders(Candidates), NEW a, Givers(a) # {}
    PROVE  (CHOOSE p \in Givers(a) : \A q \in Givers(a) : order[q] <= order[p]) \in Givers(a)
<1> DEFINE n == Cardinality(Candidates)
           After == {n - order[p] : p \in Givers(a)}
<1>1. n \in Nat
  BY CandidateParts, FS_CardinalityType
<1>2. \A p \in Givers(a) : order[p] \in 1..n
  BY DEF Givers, Orders
<1> HIDE DEF n
<1>3. After \in SUBSET Nat /\ After # {}
  BY <1>1, <1>2
<1>4. PICK m \in After : \A k \in After : m <= k
  <2> HIDE DEF After
  <2> QED BY <1>3, LeastNatural
<1>5. PICK p \in Givers(a) : m = n - order[p]
  BY <1>4
<1>6. \A q \in Givers(a) : n - order[p] <= n - order[q]
  BY <1>4, <1>5
<1>7. \A q \in Givers(a) : order[q] <= order[p]
  BY <1>1, <1>2, <1>6
<1> QED BY <1>7

AppliedTo(a) ==
    IF Givers(a) = {} THEN allocs'[a] = allocs[a]
    ELSE \E giver \in Givers(a) : allocs'[a] = [allocs[a] EXCEPT !.owned = parts[giver].owned]

LEMMA ApplyWrites ==
    ASSUME PlanOfParts, Apply
    PROVE  /\ \A p \in Parts : parts'[p] = IF p \in Candidates THEN Repaired(p) ELSE parts[p]
           /\ \A a \in Positions : AppliedTo(a)
           /\ DOMAIN parts' = Parts /\ parts' = [p \in Parts |-> parts'[p]]
           /\ allocs' = [a \in Positions |-> allocs'[a]]
           /\ UNCHANGED <<sets, figures, edits>>
<1>1. /\ parts' = [p \in Parts |-> IF p \in Candidates THEN Repaired(p) ELSE parts[p]]
      /\ UNCHANGED <<sets, figures, edits>>
  BY DEF Apply
<1>2. PICK order \in Orders(Candidates) :
         allocs' = [a \in Positions |->
                      IF Givers(a) = {} THEN allocs[a]
                      ELSE [allocs[a] EXCEPT !.owned =
                              parts[CHOOSE p \in Givers(a) :
                                      \A q \in Givers(a) : order[q] <= order[p]].owned]]
  BY DEF Apply
<1>3. ASSUME NEW a \in Positions PROVE AppliedTo(a)
  <2>1. CASE Givers(a) = {}
    BY <1>2, <2>1 DEF AppliedTo
  <2>2. CASE Givers(a) # {}
    <3> DEFINE giver == CHOOSE p \in Givers(a) : \A q \in Givers(a) : order[q] <= order[p]
    <3>1. giver \in Givers(a)
      BY <2>2, LastGiver
    <3>2. allocs'[a] = [allocs[a] EXCEPT !.owned = parts[giver].owned]
      BY <1>2, <2>2
    <3> HIDE DEF giver
    <3> QED BY <2>2, <3>1, <3>2 DEF AppliedTo
  <2> QED BY <2>1, <2>2
<1>4. allocs' = [a \in Positions |-> allocs'[a]]
  BY <1>2
<1>5. DOMAIN parts' = Parts /\ parts' = [p \in Parts |-> parts'[p]]
  BY <1>1
<1> QED BY <1>1, <1>3, <1>4, <1>5

\* A giver's classification, now and when it was printed.
LEMMA GiverOf ==
    ASSUME PlanOfParts, NEW a \in Positions, NEW p \in Givers(a)
    PROVE  /\ p \in Candidates /\ p \in Parts
           /\ Classification(p, plan.resolve) = "part"
           /\ Group(p) = {a} /\ parts[p].owned <= allocs[a].required
<1>1. p \in Candidates /\ p \in Parts /\ a \in Group(p)
      /\ Classification(p, plan.resolve) = "part"
  BY CandidateParts DEF Givers
<1>2. PartIsProven(p)
  BY <1>1, PartClass
<1>3. PICK b \in Positions : Group(p) = {b} /\ parts[p].owned <= allocs[b].required
  BY <1>1, <1>2, ProvenPart
<1> QED BY <1>1, <1>3

LEMMA FinalType ==
    ASSUME TypeOK, NEW p \in Parts, NEW class
    PROVE  FinalOwned(p, class) \in Nat
<1>1. parts[p].owned \in Nat /\ Group(p) \in SUBSET Positions
  BY MatchingType DEF TypeOK, PartRow, Group
<1>2. OwnedSum(allocs, Group(p)) \in Nat
  BY <1>1, SumsAreQuantities DEF TypeOK
<1> QED BY <1>1, <1>2 DEF FinalOwned

\* A repaired Part has its owned amount, its identity and its state.
LEMMA RepairedRow ==
    ASSUME TypeOK, NEW p \in Parts
    PROVE  /\ Sound(Repaired(p))
           /\ Repaired(p).owned = FinalOwned(p, Classification(p, plan.resolve))
           /\ Repaired(p).state = parts[p].state /\ Repaired(p).set = parts[p].set
           /\ SameIdentity(Repaired(p), parts[p])
<1> DEFINE final == FinalOwned(p, Classification(p, plan.resolve))
           quantity == Larger(RequiredSum(allocs, Group(p)), final)
           present == ExpectedPresent(final, parts[p].unassigned)
<1>1. Repaired(p) = [parts[p] EXCEPT !.quantity = quantity, !.owned = final, !.present = present]
  BY DEF Repaired
<1>2. final \in Nat
  BY FinalType
<1>3. RequiredSum(allocs, Group(p)) \in Nat
  BY MatchingType, SumsAreQuantities DEF TypeOK, Group
<1>p. parts[p] \in PartRow
  BY DEF TypeOK
<1> HIDE DEF final
<1>4. quantity \in Nat /\ final <= quantity
  BY <1>2, <1>3 DEF Larger
<1>5. present \in BOOLEAN
  BY DEF ExpectedPresent
<1>r. present = ExpectedPresent(final, parts[p].unassigned)
  OBVIOUS
<1> HIDE DEF quantity, present
<1>6. /\ Repaired(p).owned = final /\ Repaired(p).quantity = quantity
      /\ Repaired(p).present = present /\ Repaired(p).unassigned = parts[p].unassigned
      /\ Repaired(p).state = parts[p].state /\ Repaired(p).set = parts[p].set
      /\ Repaired(p).ident = parts[p].ident
  BY <1>1, <1>p DEF PartRow
<1>7. Repaired(p) \in PartRow
  BY <1>1, <1>2, <1>4, <1>5, <1>p DEF PartRow
<1> QED BY <1>4, <1>6, <1>7, <1>r DEF Sound, Clean, SameIdentity, final

LEMMA ApplyKeepsRows ==
    ASSUME RInv, Apply
    PROVE  IInv' /\ WithinRequired(allocs') /\ StoredRows' = StoredRows
<1>0. PlanOfParts /\ TypeOK
  BY DEF RInv, IInv
<1>w. /\ \A p \in Parts : parts'[p] = IF p \in Candidates THEN Repaired(p) ELSE parts[p]
      /\ \A a \in Positions : AppliedTo(a)
      /\ parts' = [p \in Parts |-> parts'[p]] /\ allocs' = [a \in Positions |-> allocs'[a]]
      /\ UNCHANGED <<sets, figures, edits>>
  BY <1>0, ApplyWrites
<1>1. ASSUME NEW p \in Parts PROVE Sound(parts'[p]) /\ parts'[p].state = parts[p].state
  <2>1. Sound(parts[p])
    BY SoundRows DEF RInv, IInv, TypeOK, PresenceMarker, OwnedWithinQuantity
  <2> QED BY <1>0, <1>w, <2>1, RepairedRow
<1>2. ASSUME NEW a \in Positions
      PROVE  /\ allocs'[a] \in AllocRow /\ allocs'[a].exists = allocs[a].exists
             /\ allocs'[a].exists => allocs'[a].owned <= allocs'[a].required
  <2>a. allocs[a] \in AllocRow
    BY <1>0 DEF TypeOK
  <2>1. CASE Givers(a) = {}
    BY <1>w, <2>a, <2>1 DEF AppliedTo, RInv, WithinRequired
  <2>2. CASE Givers(a) # {}
    <3>1. PICK giver \in Givers(a) :
            allocs'[a] = [allocs[a] EXCEPT !.owned = parts[giver].owned]
      BY <1>w, <2>2 DEF AppliedTo
    <3>2. giver \in Parts /\ parts[giver].owned <= allocs[a].required
      BY <1>0, GiverOf
    <3>3. parts[giver].owned \in Nat
      BY <1>0, <3>2 DEF TypeOK, PartRow
    <3> QED BY <2>a, <3>1, <3>2, <3>3 DEF AllocRow
  <2> QED BY <2>1, <2>2
<1>3. allocs' \in [Positions -> AllocRow]
  BY <1>2, <1>w
<1>4. parts' \in [Parts -> PartRow]
  BY <1>1, <1>w DEF Sound
<1>5. IInv'
  BY <1>0, <1>1, <1>3, <1>4, <1>w DEF IInv, TypeOK, PresenceMarker, OwnedWithinQuantity, Sound, Clean
<1>6. WithinRequired(allocs')
  BY <1>2 DEF WithinRequired
<1> QED BY <1>0, <1>1, <1>2, <1>5, <1>6, StoredLater

-----------------------------------------------------------------------------
LEMMA InitRInv == ReconcileInit => RInv
<1> SUFFICES ASSUME ReconcileInit PROVE RInv
  OBVIOUS
<1>1. Init /\ edits = <<>> /\ plan = Idle /\ outcome = NotEnded
  BY DEF ReconcileInit
<1>2. IInv
  BY <1>1, InitIInv
<1>3. ~BlankAlloc.exists
  BY DEF BlankAlloc
<1>4. \A a \in Positions : allocs[a] = BlankAlloc
  BY <1>1 DEF Init
<1>5. WithinRequired(allocs)
  BY <1>3, <1>4 DEF WithinRequired
<1>6. EventsOfRows
  BY <1>1 DEF EventsOfRows, OneEach
<1>7. PlanOfParts
  BY <1>1 DEF PlanOfParts, PlanRecord, Idle
<1>8. OutcomeTold
  BY <1>1 DEF OutcomeTold, NotEnded
<1> QED BY <1>2, <1>5, <1>6, <1>7, <1>8 DEF RInv

\* A request while the command runs leaves its plan alone.
LEMMA PassesPlan == ASSUME PlanOfParts, Passes PROVE PlanOfParts' /\ OutcomeTold'
<1>1. PlanOfParts'
  BY DEF Passes, PlanOfParts, PlanRecord
<1>2. OutcomeTold'
  BY DEF Passes, OutcomeTold, NotEnded
<1> QED BY <1>1, <1>2

LEMMA IdlePlan == ASSUME plan' = Idle PROVE PlanOfParts'
BY DEF PlanOfParts, PlanRecord, Idle

\* Where the rows stay, so does what is said about them.
LEMMA SameRows ==
    ASSUME IInv, WithinRequired(allocs), UNCHANGED vars
    PROVE  IInv' /\ WithinRequired(allocs)' /\ StoredRows' = StoredRows
<1>1. IInv'
  BY StepIInv
<1> QED BY <1>1 DEF vars, StoredRows, RowStored, WithinRequired

LEMMA StepRInv == RInv /\ [ReconcileNext]_reconcileVars => RInv'
<1> SUFFICES ASSUME RInv, [ReconcileNext]_reconcileVars PROVE RInv'
  OBVIOUS
<1>0. IInv /\ WithinRequired(allocs) /\ EventsOfRows /\ PlanOfParts /\ OutcomeTold
  BY DEF RInv
<1>1. ASSUME NEW row \in Parts \cup Positions, NEW quantity \in AskedQuantities,
             RecordedRequest(row, quantity)
      PROVE  RInv'
  <2>1. Passes /\ QuantityRequest(row, quantity) /\ edits' = Recorded(row, quantity)
    BY <1>1 DEF RecordedRequest
  <2>2. Next
    BY <2>1 DEF Next
  <2>3. IInv'
    BY <1>0, <2>2, StepIInv
  <2>4. WithinRequired(allocs)'
    BY <1>0, <2>1, QuantityRequestWithin DEF WithinRequired
  <2>5. quantity \in Nat
    BY FormsAssumption DEF AskedQuantities, PartForm, PositionForm
  <2>6. EventsOfRows'
    BY <1>0, <2>1, <2>5, QuantityRequestRows, RecordedEvents
  <2>7. PlanOfParts' /\ OutcomeTold'
    BY <1>0, <2>1, PassesPlan
  <2> QED BY <2>3, <2>4, <2>6, <2>7 DEF RInv
<1>2. ASSUME UnrecordedRequest PROVE RInv'
  <2>1. /\ Passes /\ edits' = EventsOf(edits, StoredRows')
        /\ PartRequest \/ PositionRequest \/ FigureRequest \/ TrashRequest
    BY <1>2 DEF UnrecordedRequest
  <2>2. Next
    BY <2>1 DEF Next
  <2>3. IInv'
    BY <1>0, <2>2, StepIInv
  <2>4. WithinRequired(allocs)'
    BY <1>0, <2>1, PartRequestWithin, PositionRequestWithin, FigureRequestWithin,
       TrashRequestWithin DEF WithinRequired
  <2>5. EventsOfRows'
    BY <1>0, <2>1, KeptRows
  <2>6. PlanOfParts' /\ OutcomeTold'
    BY <1>0, <2>1, PassesPlan
  <2> QED BY <2>3, <2>4, <2>5, <2>6 DEF RInv
<1>3. ASSUME ExpireEdits PROVE RInv'
  <2>1. edits # <<>> /\ Passes /\ edits' = Tail(edits) /\ UNCHANGED vars
    BY <1>3 DEF ExpireEdits
  <2> QED BY <1>0, <2>1, SameRows, ExpiredEvents, PassesPlan DEF RInv
<1>4. ASSUME NEW filter \in AskedFilters, NEW resolve \in BOOLEAN, Classify(filter, resolve)
      PROVE  RInv'
  <2>1. /\ edits' = Printed(edits) /\ outcome' = NotEnded /\ UNCHANGED vars
        /\ plan' = [pending |-> TRUE, filter |-> filter, resolve |-> resolve, requests |-> 0,
                    tokens |-> [p \in Divergent(filter) |->
                                 [Token(p, resolve) EXCEPT !.event.fresh = FALSE]]]
    BY <1>4 DEF Classify
  <2>2. Divergent(filter) \subseteq Parts
    BY DEF Divergent
  <2> DEFINE tokens == [p \in Divergent(filter) |->
                          [Token(p, resolve) EXCEPT !.event.fresh = FALSE]]
  <2>3. DOMAIN tokens = Divergent(filter)
    OBVIOUS
  <2>4. plan' = [pending |-> TRUE, filter |-> filter, resolve |-> resolve, requests |-> 0,
                 tokens |-> tokens]
    BY <2>1
  <2> HIDE DEF tokens
  <2>5. PlanOfParts'
    BY <2>2, <2>3, <2>4 DEF PlanOfParts, PlanRecord
  <2>6. OutcomeTold'
    BY <2>1 DEF OutcomeTold, NotEnded
  <2> QED BY <1>0, <2>1, <2>5, <2>6, SameRows, PrintedEvents DEF RInv
<1>5. ASSUME ApplyNothing \/ Refuse PROVE RInv'
  <2>1. plan' = Idle /\ UNCHANGED <<vars, edits>>
    BY <1>5 DEF ApplyNothing, Refuse
  <2>2. OutcomeTold'
    BY <1>5 DEF ApplyNothing, Refuse, Ended, OutcomeTold
  <2>3. EventsOfRows'
    BY <1>0, <2>1, SameRows DEF EventsOfRows, OneEach
  <2> QED BY <1>0, <2>1, <2>2, <2>3, SameRows, IdlePlan DEF RInv
<1>6. ASSUME Apply PROVE RInv'
  <2>1. plan' = Idle /\ edits' = edits
    BY <1>6 DEF Apply
  <2>2. OutcomeTold'
    BY <1>6 DEF Apply, Ended, OutcomeTold
  <2>3. IInv' /\ WithinRequired(allocs') /\ StoredRows' = StoredRows
    BY <1>6, ApplyKeepsRows
  <2>4. EventsOfRows'
    BY <1>0, <2>1, <2>3 DEF EventsOfRows, OneEach
  <2> QED BY <2>1, <2>2, <2>3, <2>4, IdlePlan DEF RInv, WithinRequired
<1>7. ASSUME UNCHANGED reconcileVars PROVE RInv'
  <2>1. UNCHANGED vars /\ UNCHANGED <<edits, plan, outcome>>
    BY <1>7 DEF reconcileVars, vars
  <2>2. IInv' /\ WithinRequired(allocs)' /\ StoredRows' = StoredRows
    BY <1>0, <2>1, SameRows
  <2>3. EventsOfRows' /\ PlanOfParts' /\ OutcomeTold'
    BY <1>0, <2>1, <2>2 DEF EventsOfRows, OneEach, PlanOfParts, PlanRecord, OutcomeTold
  <2> QED BY <2>2, <2>3 DEF RInv
<1> QED BY <1>1, <1>2, <1>3, <1>4, <1>5, <1>6, <1>7 DEF ReconcileNext

LEMMA RInvHolds == ReconcileSpec => []RInv
BY InitRInv, StepRInv, PTL DEF ReconcileSpec

LEMMA RInvSound == RInv => RowsStaySound
<1> SUFFICES ASSUME RInv PROVE RowsStaySound
  OBVIOUS
<1>1. /\ TypeOK /\ PresenceMarker /\ OwnedWithinQuantity /\ WithinRequired(allocs)
      /\ EventsOfRows /\ PlanOfParts /\ OutcomeTold
  BY DEF RInv, IInv
<1>2. \A i \in DOMAIN edits : RowStored(edits[i].row) /\ edits[i].value \in Nat
  <2> SUFFICES ASSUME NEW i \in DOMAIN edits PROVE RowStored(edits[i].row) /\ edits[i].value \in Nat
    OBVIOUS
  <2>1. edits[i] \in Event /\ edits[i].row \in StoredRows
    BY <1>1 DEF EventsOfRows
  <2>2. RowStored(edits[i].row)
    BY <2>1, Zenon DEF StoredRows
  <2> QED BY <2>1, <2>2 DEF Event
<1>3. ReconcileTypeOK
  BY <1>1, <1>2 DEF ReconcileTypeOK, EventsOfRows, OneEach, PlanOfParts, OutcomeTold
<1> QED BY <1>1, <1>3 DEF RowsStaySound, PositionsWithinRequirement, WithinRequired

\* The repair writes past every form and service, and still leaves rows as
\* sound as theirs.
THEOREM RepairKeepsRowsSound == ReconcileSpec => []RowsStaySound
BY RInvHolds, RInvSound, PTL

-----------------------------------------------------------------------------
(***************************************************************************)
(* A run that applies writes what it printed.                              *)
(***************************************************************************)
LEMMA OnlyApplyApplies ==
    ASSUME [ReconcileNext]_reconcileVars, outcome'.told = "applied"
    PROVE  Apply \/ UNCHANGED reconcileVars
<1>1. CASE UNCHANGED reconcileVars
  BY <1>1
<1>2. CASE outcome' = NotEnded
  BY <1>2 DEF NotEnded
<1>3. CASE ApplyNothing \/ Refuse
  BY <1>3 DEF ApplyNothing, Refuse, Ended
<1> QED BY <1>1, <1>2, <1>3
  DEF ReconcileNext, RecordedRequest, UnrecordedRequest, ExpireEdits, Passes, Classify

\* The rows found again are those printed.
LEMMA SameToken ==
    ASSUME Apply, NEW p \in Candidates
    PROVE  /\ p \in DOMAIN plan.tokens /\ Audited(p)
           /\ plan.tokens[p].owned = parts[p].owned
           /\ plan.tokens[p].class = Classification(p, plan.resolve)
           /\ plan.tokens[p].final = FinalOwned(p, Classification(p, plan.resolve))
           /\ plan.tokens[p].rows = [a \in Group(p) |-> <<allocs[a].required, allocs[a].owned>>]
           /\ WouldWrite(Classification(p, plan.resolve))
<1>1. p \in DOMAIN plan.tokens /\ WouldWrite(plan.tokens[p].class)
  BY DEF Candidates
<1>2. Audited(p) /\ Token(p, plan.resolve) = plan.tokens[p]
  BY <1>1 DEF Apply, NothingChanged
<1> DEFINE class == Classification(p, plan.resolve)
           rows == [a \in Group(p) |-> <<allocs[a].required, allocs[a].owned>>]
           final == FinalOwned(p, class)
<1>3. plan.tokens[p] = [quantity |-> parts[p].quantity, owned |-> parts[p].owned,
                        rows |-> rows, class |-> class, event |-> Deciding(p),
                        final |-> final]
  BY <1>2 DEF Token
<1> HIDE DEF class, rows, final
<1>4. /\ plan.tokens[p].owned = parts[p].owned /\ plan.tokens[p].class = class
      /\ plan.tokens[p].final = final /\ plan.tokens[p].rows = rows
  BY <1>3
<1> QED BY <1>1, <1>2, <1>4 DEF class, rows, final

PartAsPrinted(p) == /\ p \in DOMAIN plan.tokens
                    /\ parts[p].owned = plan.tokens[p].owned
                    /\ parts'[p].owned = plan.tokens[p].final
PositionAsPrinted(a) ==
    \E p \in DOMAIN plan.tokens :
        /\ plan.tokens[p].class = "part" /\ DOMAIN plan.tokens[p].rows = {a}
        /\ plan.tokens[p].rows[a] = <<allocs[a].required, allocs[a].owned>>
        /\ allocs'[a].owned = plan.tokens[p].final

LEMMA ApplyAsPrinted ==
    ASSUME RInv, Apply
    PROVE  /\ \A p \in Parts : parts'[p] # parts[p] => PartAsPrinted(p)
           /\ \A a \in Positions : allocs'[a] # allocs[a] => PositionAsPrinted(a)
<1>0. PlanOfParts /\ TypeOK
  BY DEF RInv, IInv
<1>w. /\ \A p \in Parts : parts'[p] = IF p \in Candidates THEN Repaired(p) ELSE parts[p]
      /\ \A a \in Positions : AppliedTo(a)
  BY <1>0, ApplyWrites
<1>1. ASSUME NEW p \in Parts, parts'[p] # parts[p] PROVE PartAsPrinted(p)
  <2>1. p \in Candidates /\ parts'[p] = Repaired(p)
    BY <1>w, <1>1
  <2>2. parts'[p].owned = FinalOwned(p, Classification(p, plan.resolve))
    BY <1>0, <2>1, RepairedRow
  <2> QED BY <2>1, <2>2, SameToken DEF PartAsPrinted
<1>2. ASSUME NEW a \in Positions, allocs'[a] # allocs[a] PROVE PositionAsPrinted(a)
  <2>1. Givers(a) # {}
    BY <1>w, <1>2 DEF AppliedTo
  <2>2. PICK p \in Givers(a) : allocs'[a] = [allocs[a] EXCEPT !.owned = parts[p].owned]
    BY <1>w, <2>1 DEF AppliedTo
  <2>3. /\ p \in Candidates /\ Classification(p, plan.resolve) = "part" /\ Group(p) = {a}
    BY <1>0, GiverOf
  <2>4. /\ p \in DOMAIN plan.tokens
        /\ plan.tokens[p].class = Classification(p, plan.resolve)
        /\ plan.tokens[p].final = FinalOwned(p, Classification(p, plan.resolve))
        /\ plan.tokens[p].rows = [b \in Group(p) |-> <<allocs[b].required, allocs[b].owned>>]
    BY <2>3, SameToken
  <2>5. FinalOwned(p, Classification(p, plan.resolve)) = parts[p].owned
    BY <2>3 DEF FinalOwned
  <2>6. allocs'[a].owned = parts[p].owned
    BY <1>0, <2>2 DEF TypeOK, AllocRow
  <2>7. DOMAIN plan.tokens[p].rows = {a}
        /\ plan.tokens[p].rows[a] = <<allocs[a].required, allocs[a].owned>>
    BY <2>3, <2>4
  <2> QED BY <2>3, <2>4, <2>5, <2>6, <2>7 DEF PositionAsPrinted
<1> QED BY <1>1, <1>2

\* Whatever was requested since the first look, a run that applies changes
\* exactly the rows it printed, from the printed amounts to the printed ones.
THEOREM AppliesPrinted == ReconcileSpec => AppliesWhatWasPrinted
<1>1. RInv /\ [ReconcileNext]_reconcileVars =>
        [outcome'.told = "applied" /\ plan.pending =>
           /\ \A p \in Parts : parts'[p] # parts[p] => PartAsPrinted(p)
           /\ \A a \in Positions : allocs'[a] # allocs[a] => PositionAsPrinted(a)]_reconcileVars
  BY OnlyApplyApplies, ApplyAsPrinted
<1> QED BY <1>1, RInvHolds, PTL
  DEF ReconcileSpec, AppliesWhatWasPrinted, PartAsPrinted, PositionAsPrinted

-----------------------------------------------------------------------------
(***************************************************************************)
(* The newest edit, and what is left divergent.                            *)
(***************************************************************************)

\* A repair moves no match: it writes amounts only.
LEMMA GroupAfterApply ==
    ASSUME RInv, Apply, NEW p \in Parts
    PROVE  Group(p)' = Group(p) /\ parts'[p].state = parts[p].state /\ parts'[p].set = parts[p].set
<1>0. PlanOfParts /\ TypeOK
  BY DEF RInv, IInv
<1>w. /\ parts'[p] = IF p \in Candidates THEN Repaired(p) ELSE parts[p]
      /\ \A a \in Positions : AppliedTo(a)
      /\ UNCHANGED <<sets, figures, edits>>
  BY <1>0, ApplyWrites
<1>1. /\ SameIdentity(parts'[p], parts[p]) /\ parts'[p].state = parts[p].state
      /\ parts'[p].set = parts[p].set
  <2>1. CASE p \in Candidates
    BY <1>0, <1>w, <2>1, RepairedRow
  <2>2. CASE p \notin Candidates
    BY <1>w, <2>2 DEF SameIdentity
  <2> QED BY <2>1, <2>2
<1>2. \A a \in Positions : /\ allocs'[a].exists = allocs[a].exists
                           /\ allocs'[a].spare = allocs[a].spare
                           /\ allocs'[a].ident = allocs[a].ident
  <2> SUFFICES ASSUME NEW a \in Positions
               PROVE  /\ allocs'[a].exists = allocs[a].exists
                      /\ allocs'[a].spare = allocs[a].spare
                      /\ allocs'[a].ident = allocs[a].ident
    OBVIOUS
  <2>1. PICK owned : allocs'[a] \in {allocs[a], [allocs[a] EXCEPT !.owned = owned]}
    BY <1>w DEF AppliedTo
  <2> QED BY <1>0, <2>1 DEF TypeOK, AllocRow
<1>3. PICK bs, new : bs = allocs' /\ new = parts'[p]
  OBVIOUS
<1>4. SameIdentities(bs, allocs) /\ SameIdentity(new, parts[p])
  BY <1>1, <1>2, <1>3 DEF SameIdentities
<1>5. SameMatches(bs, new, allocs, parts[p])
  BY <1>4, MatchingSame
<1>6. Matching(bs, new, FALSE) = Group(p)
  BY <1>5 DEF SameMatches, Matched, Group
<1>7. Matching(allocs, parts[p], FALSE)' = Matching(allocs', parts'[p], FALSE)
  BY <1>w, MatchingNext
<1>8. Group(p)' = Group(p)
  BY <1>3, <1>6, <1>7 DEF Group
<1> QED BY <1>1, <1>8

\* Another Part that gives one of its positions an amount is a second mirror.
LEMMA SoleGiver ==
    ASSUME RInv, Apply, NEW p \in Parts, NEW a \in Group(p), NEW giver \in Givers(a),
           giver # p
    PROVE  SecondMirror(p)
<1>0. PlanOfParts /\ a \in Positions
  BY MatchingType DEF RInv, Group
<1>1. giver \in Candidates /\ giver \in Parts /\ Group(giver) = {a}
  BY <1>0, GiverOf
<1>2. Audited(giver)
  BY <1>1, SameToken
<1>3. parts[giver].state = "live"
  BY <1>2 DEF Audited
<1> QED BY <1>1, <1>3 DEF SecondMirror, Group

LEMMA SecondMirrorStays ==
    ASSUME RInv, Apply, NEW p \in Parts, SecondMirror(p)
    PROVE  SecondMirror(p)'
<1>1. PICK q \in Parts \ {p} : parts[q].state = "live" /\ Group(q) \cap Group(p) # {}
  BY DEF SecondMirror, Group
<1>2. parts'[q].state = "live" /\ Group(q)' \cap Group(p)' # {}
  BY <1>1, GroupAfterApply
<1> QED BY <1>2 DEF SecondMirror, Group

\* The deciding event of a Part is of the Part or of a position it mirrors.
LEMMA DecidingRow ==
    ASSUME EventsOfRows, NEW p, Deciding(p).row # NoSet
    PROVE  Deciding(p).row \in {p} \cup Group(p)
<1> DEFINE known == {i \in DOMAIN edits : edits[i].row \in {p} \cup Group(p)}
           last == CHOOSE i \in known : \A j \in known : j <= i
<1>1. CASE known = {}
  BY <1>1 DEF Deciding, NoEvent
<1>2. CASE known # {}
  <2>1. known \in SUBSET Nat /\ Len(edits) \in Nat /\ \A i \in known : i <= Len(edits)
    BY DEF EventsOfRows
  <2> DEFINE After == {Len(edits) - i : i \in known}
  <2> HIDE DEF known
  <2>2. After \in SUBSET Nat /\ After # {}
    <3>1. \A i \in known : Len(edits) - i \in Nat
      BY <2>1
    <3> QED BY <1>2, <3>1, Zenon
  <2>3. PICK m \in After : \A k \in After : m <= k
    <3> HIDE DEF After
    <3> QED BY <2>2, LeastNatural
  <2>4. PICK i \in known : m = Len(edits) - i
    BY <2>3
  <2>5. \A j \in known : Len(edits) - i <= Len(edits) - j
    BY <2>3, <2>4
  <2>6. \A j \in known : j <= i
    BY <2>1, <2>5
  <2>7. last \in known
    BY <2>6
  <2>8. edits[last].row \in {p} \cup Group(p)
    <3> HIDE DEF last
    <3> QED BY <2>7 DEF known
  <2>9. Deciding(p) = edits[last]
    BY <1>2 DEF Deciding, known
  <2> HIDE DEF last
  <2> QED BY <2>8, <2>9
<1> QED BY <1>1, <1>2

NewestStands(p) ==
    Audited(p) /\ ~SecondMirror(p) /\ Stands(Deciding(p))
      => Owned(Deciding(p).row)' = Deciding(p).value

LEMMA ApplyKeepsNewest ==
    ASSUME RInv, Apply, ~plan.resolve, NEW p \in Parts
    PROVE  NewestStands(p)
<1> SUFFICES ASSUME ~SecondMirror(p), Stands(Deciding(p))
             PROVE  Owned(Deciding(p).row)' = Deciding(p).value
  BY DEF NewestStands
<1>0. PlanOfParts /\ TypeOK /\ EventsOfRows
  BY DEF RInv, IInv
<1>w. /\ \A q \in Parts : parts'[q] = IF q \in Candidates THEN Repaired(q) ELSE parts[q]
      /\ \A a \in Positions : AppliedTo(a)
      /\ UNCHANGED <<sets, figures, edits>>
  BY <1>0, ApplyWrites
<1>1. PICK e : e = Deciding(p)
  OBVIOUS
<1>2. Deciding(p)' = Deciding(p)
  <2>1. Group(p)' = Group(p)
    BY GroupAfterApply
  <2> QED BY <1>w, <2>1 DEF Deciding, NoEvent
<1>3. e.row \in {p} \cup Group(p) /\ e.value = Owned(e.row)
  <2>1. Deciding(p).row # NoSet
    BY DEF Stands
  <2> QED BY <1>0, <1>1, <2>1, DecidingRow DEF Stands
<1>4. Group(p) \in SUBSET Positions
  BY MatchingType DEF Group
<1>g. SUFFICES Owned(e.row)' = e.value
  BY <1>1, <1>2 DEF Owned
<1>5. CASE e.row = p
  <2>1. e.value = parts[p].owned
    BY <1>3, <1>5 DEF Owned
  <2>2. parts'[p].owned = parts[p].owned
    <3>1. CASE p \notin Candidates
      BY <1>w, <3>1
    <3>2. CASE p \in Candidates
      <4>1. WouldWrite(Classification(p, plan.resolve))
        BY <3>2, SameToken
      <4>2. Classification(p, plan.resolve) \in {"part", "allocation"}
        BY <4>1, ProvenClass
      <4>3. Classification(p, plan.resolve) # "allocation"
        <5>1. Deciding(p).row \notin Group(p)
          BY <1>1, <1>4, <1>5, RowsAssumption
        <5> QED BY <5>1, AllocationClass DEF AllocationIsProven
      <4>4. Classification(p, plan.resolve) = "part"
        BY <4>2, <4>3
      <4>5. FinalOwned(p, Classification(p, plan.resolve)) = parts[p].owned
        BY <4>4 DEF FinalOwned
      <4> QED BY <1>0, <1>w, <3>2, <4>5, RepairedRow
    <3> QED BY <3>1, <3>2
  <2> QED BY <1>5, <2>1, <2>2 DEF Owned
<1>6. CASE e.row \in Group(p) /\ e.row # p
  <2>1. e.row \in Positions /\ e.row \notin Parts
    BY <1>4, <1>6, RowsAssumption
  <2>2. e.value = allocs[e.row].owned
    BY <1>3, <2>1 DEF Owned
  <2>3. Givers(e.row) = {}
    <3> SUFFICES ASSUME NEW giver \in Givers(e.row) PROVE FALSE
      OBVIOUS
    <3>1. giver = p
      BY <1>6, SoleGiver
    <3>2. Classification(p, plan.resolve) = "part"
      BY <1>0, <2>1, <3>1, GiverOf
    <3>3. Deciding(p).row = p
      BY <3>2, PartClass DEF PartIsProven
    <3> QED BY <1>1, <1>6, <3>3
  <2>4. allocs'[e.row] = allocs[e.row]
    BY <1>w, <2>1, <2>3 DEF AppliedTo
  <2> QED BY <2>1, <2>2, <2>4 DEF Owned
<1> QED BY <1>3, <1>5, <1>6

\* A repair never undoes the newest amount a user is known to have set.
THEOREM NewestEditSurvives == ReconcileSpec => NewestEditStands
<1>1. RInv /\ [ReconcileNext]_reconcileVars =>
        [outcome'.told = "applied" /\ plan.pending /\ ~plan.resolve =>
           \A p \in Parts : NewestStands(p)]_reconcileVars
  BY OnlyApplyApplies, ApplyKeepsNewest
<1> QED BY <1>1, RInvHolds, PTL DEF ReconcileSpec, NewestEditStands, NewestStands

\* Applied runs: what the invariant says, for one Part.
Verified(p) == p \in outcome.unresolved \/ SecondMirror(p)

LEMMA ApplyVerifies ==
    ASSUME RInv, Apply, NEW p \in Parts, Audited(p)', InScope(p, plan.filter), ~Agrees(p)',
           ~SecondMirror(p)'
    PROVE  p \in outcome'.unresolved
<1>0. PlanOfParts /\ TypeOK
  BY DEF RInv, IInv
<1>w. /\ \A q \in Parts : parts'[q] = IF q \in Candidates THEN Repaired(q) ELSE parts[q]
      /\ \A a \in Positions : AppliedTo(a)
      /\ UNCHANGED <<sets, figures, edits>>
  BY <1>0, ApplyWrites
<1>1. /\ Group(p)' = Group(p) /\ parts'[p].state = parts[p].state
      /\ parts'[p].set = parts[p].set
  BY GroupAfterApply
<1>2. Group(p) \in SUBSET Positions
  BY MatchingType DEF Group
<1>3. \A a \in Group(p) : Givers(a) \subseteq {p}
  BY SoleGiver, SecondMirrorStays
<1>4. PICK bs : bs = allocs'
  OBVIOUS
<1>d. parts'[p].owned # OwnedSum(bs, Group(p))
  BY <1>1, <1>4 DEF Agrees, Group
<1>i. IInv' /\ allocs' \in [Positions -> AllocRow]
  BY ApplyKeepsRows DEF IInv, TypeOK
<1>5. CASE p \in Candidates /\ Classification(p, plan.resolve) = "part"
  <2>1. PICK a \in Positions : Group(p) = {a}
    <3>1. PartIsProven(p)
      BY <1>5, PartClass
    <3> QED BY <3>1, ProvenPart
  <2>2. Givers(a) = {p}
    BY <1>3, <1>5, <2>1 DEF Givers
  <2>3. allocs'[a] = [allocs[a] EXCEPT !.owned = parts[p].owned]
    BY <1>w, <2>2 DEF AppliedTo
  <2>4. allocs'[a].owned = parts[p].owned
    BY <1>0, <2>3 DEF TypeOK, AllocRow
  <2>5. parts'[p].owned = parts[p].owned
    BY <1>0, <1>5, <1>w, RepairedRow DEF FinalOwned
  <2>6. OwnedSum(bs, {a}) = bs[a].owned
    BY <1>4, <1>i, SumsOfOne
  <2> QED BY <1>4, <1>d, <2>1, <2>4, <2>5, <2>6
<1>6. CASE ~(p \in Candidates /\ Classification(p, plan.resolve) = "part")
  <2>1. \A a \in Group(p) : Givers(a) = {}
    BY <1>3, <1>6 DEF Givers
  <2>2. \A a \in Group(p) : bs[a].owned = allocs[a].owned
    BY <1>2, <1>4, <1>w, <2>1 DEF AppliedTo
  <2>3. OwnedSum(bs, Group(p)) = OwnedSum(allocs, Group(p))
    BY <1>2, <2>2, OwnedSumSame
  <2>4. CASE p \in Candidates
    <3>1. parts'[p].owned = OwnedSum(allocs, Group(p))
      BY <1>0, <1>6, <1>w, <2>4, RepairedRow DEF FinalOwned
    <3> QED BY <1>d, <2>3, <3>1
  <2>5. CASE p \notin Candidates
    <3>1. parts'[p] = parts[p]
      BY <1>w, <2>5
    <3>2. ~Agrees(p)
      BY <1>d, <2>3, <3>1 DEF Agrees, Group
    <3>3. Audited(p)
      BY <1>1 DEF Audited, Group
    <3>4. p \in Divergent(plan.filter)
      BY <3>2, <3>3 DEF Divergent
    <3>5. ~WouldWrite(Classification(p, plan.resolve))
      BY <2>5, <3>4 DEF Apply, Unlocked
    <3>6. outcome'.unresolved = {q \in Divergent(plan.filter) :
                                   ~WouldWrite(Classification(q, plan.resolve))}
      BY DEF Apply, Ended
    <3> QED BY <3>4, <3>5, <3>6
  <2> QED BY <2>4, <2>5
<1> QED BY <1>5, <1>6

LEMMA StepVerifies ==
    RInv /\ AppliedRunVerifies /\ [ReconcileNext]_reconcileVars => AppliedRunVerifies'
<1> SUFFICES ASSUME RInv, AppliedRunVerifies, [ReconcileNext]_reconcileVars,
                    outcome'.told = "applied"
             PROVE  \A p \in Divergent(outcome.filter)' : Verified(p)'
  BY DEF AppliedRunVerifies, Verified
<1>1. CASE Apply
  <2>1. outcome'.filter = plan.filter
    BY <1>1 DEF Apply, Ended
  <2>2. SUFFICES ASSUME NEW p \in Divergent(outcome.filter)'
                 PROVE  Verified(p)'
    OBVIOUS
  <2>3. p \in Parts /\ Audited(p)' /\ InScope(p, outcome.filter)' /\ ~Agrees(p)'
    BY DEF Divergent
  <2>4. InScope(p, outcome.filter)' <=> outcome'.filter \in {NoSet, p, parts'[p].set}
    BY DEF InScope
  <2>5. InScope(p, plan.filter) <=> plan.filter \in {NoSet, p, parts[p].set}
    BY DEF InScope
  <2>6. parts'[p].set = parts[p].set
    BY <1>1, <2>3, GroupAfterApply
  <2>7. InScope(p, plan.filter)
    BY <2>1, <2>3, <2>4, <2>5, <2>6
  <2> QED BY <1>1, <2>3, <2>7, ApplyVerifies DEF Verified
<1>2. CASE UNCHANGED reconcileVars
  <2>1. outcome.told = "applied"
    BY <1>2 DEF reconcileVars
  <2>2. \A p \in Divergent(outcome.filter) : Verified(p)
    BY <2>1 DEF AppliedRunVerifies, Verified
  <2>3. UNCHANGED <<sets, figures, allocs, parts, outcome>>
    BY <1>2 DEF reconcileVars
  <2>4. Divergent(outcome.filter)' = Divergent(outcome.filter)
    BY <2>3 DEF Divergent, Audited, Agrees, InScope, Matching, BestMatches, Eligible, Live, HomeSet
  <2>g. \A p \in Parts : Group(p)' = Group(p)
    BY <2>3 DEF Group, Matching, BestMatches, Eligible, Live, HomeSet
  <2>s. \A p \in Parts : SecondMirror(p)' <=> SecondMirror(p)
    BY <2>3, <2>g DEF SecondMirror, Group
  <2>5. \A p \in Parts : Verified(p) => Verified(p)'
    BY <2>3, <2>s DEF Verified
  <2>6. Divergent(outcome.filter) \subseteq Parts
    BY DEF Divergent
  <2> QED BY <2>2, <2>4, <2>5, <2>6
<1> QED BY <1>1, <1>2, OnlyApplyApplies

\* After a run that applies, the verification that follows in the command finds
\* only what the run left as ambiguous and mirrors that share a position.
THEOREM RunsVerify == ReconcileSpec => []AppliedRunVerifies
<1>1. ReconcileInit => AppliedRunVerifies
  BY DEF ReconcileInit, AppliedRunVerifies, NotEnded
<1> QED BY <1>1, StepVerifies, RInvHolds, PTL DEF ReconcileSpec
=============================================================================
