---------------------- MODULE CatalogQuantities_proofs ----------------------
(***************************************************************************)
(* The invariants of the catalog rows hold in every catalog: for every     *)
(* number of sets, positions and Part rows, and every form values.         *)
(***************************************************************************)
EXTENDS CatalogReports, SumTheorems, TLAPS

\* The inductive invariant: a marker is only as good as the quantities it was
\* computed from, and the constraint needs the row's type.
IInv == TypeOK /\ PresenceMarker /\ OwnedWithinQuantity

\* A Part row as the three parts of IInv want it.
Sound(row) == /\ row \in PartRow
              /\ row.present = ExpectedPresent(row.owned, row.unassigned)
              /\ Clean(row)

LEMMA SoundRows ==
    ASSUME NEW rows \in [Parts -> PartRow]
    PROVE  (\A p \in Parts : Sound(rows[p])) <=>
           /\ \A p \in Parts : rows[p].present = ExpectedPresent(rows[p].owned, rows[p].unassigned)
           /\ \A p \in Parts : rows[p].owned <= rows[p].quantity
BY DEF Sound, Clean

\* Blank rows are well formed.
LEMMA BlankRowsOK == BlankAlloc \in AllocRow /\ Sound(BlankPart)
<1>1. (CHOOSE i \in AllocIdents : TRUE) \in AllocIdents
  BY FormsAssumption
<1>2. (CHOOSE i \in PartIdents : TRUE) \in PartIdents
  BY FormsAssumption
<1>3. BlankAlloc \in AllocRow
  BY <1>1 DEF BlankAlloc, AllocRow
<1>4. BlankPart \in PartRow
  BY <1>2 DEF BlankPart, PartRow, Statuses
<1>5. ExpectedPresent(0, 0) = FALSE
  BY DEF ExpectedPresent
<1>6. /\ BlankPart.present = FALSE /\ BlankPart.owned = 0
      /\ BlankPart.quantity = 0 /\ BlankPart.unassigned = 0
  BY DEF BlankPart
<1>7. BlankPart.present = ExpectedPresent(BlankPart.owned, BlankPart.unassigned)
  BY <1>5, <1>6
<1>8. Clean(BlankPart)
  BY <1>6 DEF Clean
<1> QED
  BY <1>3, <1>4, <1>7, <1>8 DEF Sound

\* What a write of quantity and owned leaves in the row.
LEMMA WrittenFields ==
    ASSUME NEW row \in PartRow, NEW quantity, NEW owned, NEW missing
    PROVE  LET new == Written(row, quantity, owned, missing)
           IN  /\ new.owned = owned
               /\ new.quantity = quantity
               /\ new.unassigned = row.unassigned
               /\ new.present = ExpectedPresent(owned, row.unassigned)
               /\ new.status = EffectiveStatus(row.status, missing)
<1> DEFINE present == ExpectedPresent(owned, row.unassigned)
           status == EffectiveStatus(row.status, missing)
<1>1. Written(row, quantity, owned, missing) =
        [row EXCEPT !.quantity = quantity, !.owned = owned, !.present = present,
                    !.status = status]
  BY DEF Written
<1> HIDE DEF present, status
<1>2. LET new == [row EXCEPT !.quantity = quantity, !.owned = owned,
                             !.present = present, !.status = status]
      IN  /\ new.owned = owned
          /\ new.quantity = quantity
          /\ new.unassigned = row.unassigned
          /\ new.present = present
          /\ new.status = status
  BY DEF PartRow
<1> QED
  BY <1>1, <1>2 DEF present, status

\* Writing quantity and owned keeps the marker in step with them.
LEMMA WrittenSound ==
    ASSUME NEW row \in PartRow, NEW quantity \in Nat, NEW owned \in Nat,
           NEW missing, owned <= quantity
    PROVE  Sound(Written(row, quantity, owned, missing))
<1> DEFINE present == ExpectedPresent(owned, row.unassigned)
           status == EffectiveStatus(row.status, missing)
<1>1. status \in Statuses
  BY DEF EffectiveStatus, Statuses, PartRow
<1>2. present \in BOOLEAN
  BY DEF ExpectedPresent
<1>3. Written(row, quantity, owned, missing) =
        [row EXCEPT !.quantity = quantity, !.owned = owned, !.present = present,
                    !.status = status]
  BY DEF Written
<1> HIDE DEF present, status
<1>4. Written(row, quantity, owned, missing) \in PartRow
  BY <1>1, <1>2, <1>3 DEF PartRow
<1> QED
  BY <1>4, WrittenFields DEF Sound, Clean

-----------------------------------------------------------------------------
(***************************************************************************)
(* The two services.                                                       *)
(***************************************************************************)

\* set_part_owned_quantity on a stored row that the form or the table gave.
LEMMA SetPartOwnedKeepsIInv ==
    ASSUME IInv, NEW p \in Parts, NEW row \in PartRow, NEW quantity \in Nat,
           SetPartOwnedQuantity(p, row, quantity)
    PROVE  IInv'
<1> DEFINE matches == Matching(allocs, row, FALSE)
           maximum == IF matches = {} THEN row.quantity
                      ELSE allocs[CHOOSE a \in matches : TRUE].required
<1>1. matches \subseteq Positions
  BY DEF Matching, BestMatches, Eligible
<1>2. maximum \in Nat
  <2>1. CASE matches = {}
    BY <2>1 DEF PartRow
  <2>2. CASE matches # {}
    <3>1. (CHOOSE a \in matches : TRUE) \in Positions
      BY <2>2, <1>1
    <3> QED BY <2>2, <3>1 DEF IInv, TypeOK, AllocRow
  <2> QED BY <2>1, <2>2
<1> HIDE DEF matches, maximum
<1>3. /\ quantity <= maximum
      /\ allocs' = [a \in Positions |->
                      IF a \in matches THEN [allocs[a] EXCEPT !.owned = quantity]
                      ELSE allocs[a]]
      /\ parts' = [parts EXCEPT ![p] = Written(row, maximum, quantity,
                                               Missing(maximum, quantity))]
      /\ UNCHANGED <<sets, figures>>
  BY DEF SetPartOwnedQuantity, matches, maximum
<1>4. allocs' \in [Positions -> AllocRow]
  BY <1>3 DEF IInv, TypeOK, AllocRow
<1>5. Sound(Written(row, maximum, quantity, Missing(maximum, quantity)))
  BY <1>2, <1>3, WrittenSound
<1>6. /\ parts' \in [Parts -> PartRow]
      /\ \A q \in Parts : Sound(parts'[q])
  BY <1>3, <1>5, SoundRows DEF IInv, TypeOK, PresenceMarker, OwnedWithinQuantity, Sound, Clean
<1> QED
  BY <1>3, <1>4, <1>6 DEF IInv, TypeOK, PresenceMarker, OwnedWithinQuantity, Sound, Clean

\* Rewriting mirrors from their positions: the service validates each row
\* (full_clean), the marker follows from how the row is written.
LEMMA ResynchronizedSound ==
    ASSUME NEW as, NEW rows, NEW touched, NEW peak,
           rows \in [Parts -> PartRow],
           \A p \in Parts : Sound(rows[p]),
           CleanRows(Resynchronized(as, rows, touched, peak))
    PROVE  /\ Resynchronized(as, rows, touched, peak) \in [Parts -> PartRow]
           /\ \A p \in Parts : Sound(Resynchronized(as, rows, touched, peak)[p])
<1> DEFINE new == Resynchronized(as, rows, touched, peak)
<1>1. \A p \in Parts : new[p] \in PartRow /\ Clean(new[p])
  BY DEF CleanRows
<1>2. new \in [Parts -> PartRow]
  BY <1>1 DEF Resynchronized
<1>3. ASSUME NEW p \in Parts
      PROVE  new[p].present = ExpectedPresent(new[p].owned, new[p].unassigned)
  <2>1. CASE p \in Mirrors(as, rows, touched)
    <3> DEFINE matches == Matching(as, rows[p], TRUE)
               owned == OwnedSum(as, matches)
               quantity == Larger(RequiredSum(as, matches), owned)
    <3>1. new[p] = Written(rows[p], quantity, owned, peak[p])
      BY <2>1 DEF Resynchronized
    <3> HIDE DEF new, matches, owned, quantity
    <3> QED BY <3>1, WrittenFields
  <2>2. CASE p \notin Mirrors(as, rows, touched)
    <3>1. new[p] = rows[p]
      BY <2>2 DEF Resynchronized
    <3> QED BY <3>1 DEF Sound
  <2> QED BY <2>1, <2>2
<1> QED
  BY <1>1, <1>2, <1>3 DEF Sound

\* set_authoritative_owned_quantity from positions a form may have edited.
LEMMA SetAuthoritativeKeepsIInv ==
    ASSUME IInv, NEW as \in [Positions -> AllocRow], NEW a \in Positions,
           NEW quantity \in Nat, SetAuthoritativeOwned(as, a, quantity)
    PROVE  IInv'
<1> DEFINE written == [as EXCEPT ![a].owned = quantity]
           peak == [p \in Parts |-> MissingSum(written, Matching(written, parts[p], TRUE))]
           rows == Resynchronized(written, parts, {a}, peak)
<1>1. /\ CleanRows(rows)
      /\ allocs' = written
      /\ parts' = rows
      /\ UNCHANGED <<sets, figures>>
  BY DEF SetAuthoritativeOwned
<1>2. written \in [Positions -> AllocRow]
  BY DEF AllocRow
<1>3. \A p \in Parts : Sound(parts[p])
  BY SoundRows DEF IInv, TypeOK, PresenceMarker, OwnedWithinQuantity
<1> HIDE DEF written, peak
<1>4. /\ rows \in [Parts -> PartRow]
      /\ \A p \in Parts : Sound(rows[p])
  BY <1>1, <1>3, ResynchronizedSound DEF IInv, TypeOK
<1> HIDE DEF rows
<1> QED
  BY <1>1, <1>2, <1>4 DEF IInv, TypeOK, PresenceMarker, OwnedWithinQuantity, Sound, Clean

\* The loops of the bulk requests.
LEMMA SetAllKeepsIInv ==
    ASSUME IInv, NEW touched, NEW goal \in [Positions -> Nat],
           SetAllAuthoritativeOwned(touched, goal)
    PROVE  IInv'
<1> DEFINE written == [a \in Positions |->
                         IF a \in touched THEN [allocs[a] EXCEPT !.owned = goal[a]]
                         ELSE allocs[a]]
<1>1. PICK peak : /\ CleanRows(Resynchronized(written, parts, touched, peak))
                  /\ parts' = Resynchronized(written, parts, touched, peak)
                  /\ allocs' = written
                  /\ UNCHANGED <<sets, figures>>
  BY DEF SetAllAuthoritativeOwned
<1>2. written \in [Positions -> AllocRow]
  BY DEF IInv, TypeOK, AllocRow
<1>3. \A p \in Parts : Sound(parts[p])
  BY SoundRows DEF IInv, TypeOK, PresenceMarker, OwnedWithinQuantity
<1> HIDE DEF written
<1>4. /\ parts' \in [Parts -> PartRow]
      /\ \A p \in Parts : Sound(parts'[p])
  BY <1>1, <1>3, ResynchronizedSound DEF IInv, TypeOK
<1> QED
  BY <1>1, <1>2, <1>4 DEF IInv, TypeOK, PresenceMarker, OwnedWithinQuantity, Sound, Clean

\* Both goals of the bulk requests are quantities.
LEMMA GoalsAreQuantities ==
    ASSUME TypeOK
    PROVE  AsRequired \in [Positions -> Nat] /\ AsNone \in [Positions -> Nat]
BY DEF TypeOK, AllocRow, AsRequired, AsNone

-----------------------------------------------------------------------------
(***************************************************************************)
(* The requests.                                                           *)
(***************************************************************************)

\* The form's rows are rows.
LEMMA FormRowType ==
    ASSUME NEW form \in PartForm
    PROVE  FormRow(form) \in PartRow
<1>1. ExpectedPresent(form.owned, form.unassigned) \in BOOLEAN
  BY DEF ExpectedPresent
<1> QED
  BY <1>1 DEF FormRow, PartForm, PartRow

LEMMA QuantityRequestKeepsIInv ==
    ASSUME IInv, NEW row \in Parts \cup Positions, NEW quantity \in AskedQuantities,
           QuantityRequest(row, quantity)
    PROVE  IInv'
<1>0. /\ quantity \in Nat
      /\ SetItems \subseteq Positions /\ FigureParts \subseteq Positions
      /\ allocs \in [Positions -> AllocRow]
  BY FormsAssumption DEF AskedQuantities, PartForm, PositionForm, Positions, IInv, TypeOK
<1>1. CASE row \in Parts /\ MissingPartQuantity(row, quantity)
  <2>1. parts[row] \in PartRow
    BY <1>1 DEF IInv, TypeOK
  <2> QED BY <1>0, <1>1, <2>1, SetPartOwnedKeepsIInv DEF MissingPartQuantity
<1>2. CASE row \in SetItems /\ SetInventoryQuantity(row, quantity)
  BY <1>0, <1>2, SetAuthoritativeKeepsIInv DEF SetInventoryQuantity
<1>3. CASE row \in FigureParts /\ MinifigurePartQuantity(row, quantity)
  BY <1>0, <1>3, SetAuthoritativeKeepsIInv DEF MinifigurePartQuantity
<1> QED
  BY <1>1, <1>2, <1>3 DEF QuantityRequest

\* An edit submits a form, with the stored quantity where the field is disabled.
LEMMA EditSends ==
    ASSUME TypeOK, NEW p \in Parts, NEW form \in PartForms, EditPart(p, form)
    PROVE  \E sent \in PartForm : /\ SetPartOwnedQuantity(p, FormRow(sent), sent.owned)
                                  /\ sent.owned \in Nat
<1> DEFINE sent == IF Matching(allocs, parts[p], FALSE) # {}
                   THEN [form EXCEPT !.quantity = parts[p].quantity] ELSE form
<1>0. form \in PartForm /\ form.owned \in Nat
  BY FormsAssumption DEF PartForm
<1>1. parts[p].quantity \in Nat
  BY DEF TypeOK, PartRow
<1>2. sent \in PartForm /\ sent.owned \in Nat
  <2>1. CASE Matching(allocs, parts[p], FALSE) # {}
    BY <1>0, <1>1, <2>1 DEF PartForm
  <2>2. CASE Matching(allocs, parts[p], FALSE) = {}
    BY <1>0, <2>2
  <2> QED BY <2>1, <2>2
<1>3. SetPartOwnedQuantity(p, FormRow(sent), sent.owned)
  BY DEF EditPart
<1> HIDE DEF sent
<1> QED BY <1>2, <1>3

LEMMA PartRequestKeepsIInv ==
    ASSUME IInv, PartRequest
    PROVE  IInv'
<1>0. /\ AskedQuantities \subseteq Nat
      /\ AskedStatuses \subseteq Statuses
      /\ \A form \in PartForms : form \in PartForm /\ form.owned \in Nat
  BY FormsAssumption DEF AskedQuantities, AskedStatuses, PartForm, PositionForm
<1>2. ASSUME NEW p \in Parts, NEW form \in PartForms, CreatePart(p, form)
      PROVE  IInv'
  BY <1>0, <1>2, FormRowType, SetPartOwnedKeepsIInv DEF CreatePart
<1>3. ASSUME NEW p \in Parts, NEW form \in PartForms, EditPart(p, form)
      PROVE  IInv'
  <2>1. PICK sent \in PartForm : /\ SetPartOwnedQuantity(p, FormRow(sent), sent.owned)
                                 /\ sent.owned \in Nat
    BY <1>3, EditSends DEF IInv
  <2> QED BY <2>1, FormRowType, SetPartOwnedKeepsIInv
<1>4. ASSUME NEW chosen \in SUBSET Parts, NEW status \in AskedStatuses,
             MissingPartsBulk(chosen, status)
      PROVE  IInv'
  BY <1>0, <1>4 DEF MissingPartsBulk, IInv, TypeOK, PresenceMarker, OwnedWithinQuantity, PartRow
<1>5. ASSUME NEW p \in Parts, NEW status \in AskedStatuses, MissingPartStatus(p, status)
      PROVE  IInv'
  BY <1>0, <1>5 DEF MissingPartStatus, IInv, TypeOK, PresenceMarker, OwnedWithinQuantity, PartRow
<1> QED
  BY <1>2, <1>3, <1>4, <1>5 DEF PartRequest

\* A position form gives a position row.
LEMMA FormAllocType ==
    ASSUME NEW as \in [Positions -> AllocRow], NEW a \in Positions,
           NEW form \in PositionForms
    PROVE  /\ [as EXCEPT ![a] = FormAlloc(form)] \in [Positions -> AllocRow]
           /\ form.owned \in Nat
BY FormsAssumption DEF FormAlloc, AllocRow, PositionForm

\* The Part rows once create-missing has created the missing ones.
Created(s, creator) == [p \in Parts |-> IF p \in DOMAIN creator
                                         THEN NewPart(s, creator[p]) ELSE parts[p]]

LEMMA CreatedType ==
    ASSUME TypeOK, NEW s \in Sets, NEW new \in SUBSET Parts,
           NEW creator \in [new -> SetItems], CreateMissing(s, creator)
    PROVE  Created(s, creator) \in [Parts -> PartRow]
<1>1. \A p \in DOMAIN creator : creator[p] \in ShortItems(s)
  BY DEF CreateMissing
<1>2. \A a \in ShortItems(s) : Open(a) \in Nat
  <2>1. SUFFICES ASSUME NEW a \in ShortItems(s) PROVE Open(a) \in Nat
    OBVIOUS
  <2>2. a \in Positions /\ allocs[a].owned < allocs[a].required
    BY DEF ShortItems, ItemsOf, Positions
  <2>3. allocs[a].owned \in Nat /\ allocs[a].required \in Nat
    BY <2>2 DEF TypeOK, AllocRow
  <2> QED BY <2>2, <2>3 DEF Open
<1>3. ASSUME NEW p \in Parts PROVE Created(s, creator)[p] \in PartRow
  <2>1. CASE p \in DOMAIN creator
    <3>1. Open(creator[p]) \in Nat
      BY <1>1, <1>2, <2>1
    <3>2. KeyIdent(allocs[creator[p]].ident) \in PartIdents
      <4>1. creator[p] \in Positions
        BY <2>1 DEF Positions
      <4> QED BY <4>1, KeyAssumption DEF TypeOK, AllocRow
    <3>3. Created(s, creator)[p] = NewPart(s, creator[p])
      BY <2>1 DEF Created
    <3>4. BlankPart \in PartRow
      BY BlankRowsOK DEF Sound
    <3> QED BY <3>1, <3>2, <3>3, <3>4 DEF NewPart, PartRow
  <2>2. CASE p \notin DOMAIN creator
    BY <2>2 DEF TypeOK, Created
  <2> QED BY <2>1, <2>2
<1> QED BY <1>3 DEF Created

\* create-missing: created rows are new and blank of stock, raised rows keep
\* their stock below a larger quantity, the rest is rewritten by the service.
LEMMA CreateMissingKeepsIInv ==
    ASSUME IInv, NEW s \in Sets, NEW new \in SUBSET Parts,
           NEW creator \in [new -> SetItems], CreateMissing(s, creator)
    PROVE  IInv'
<1> DEFINE short == ShortItems(s)
           created == [p \in Parts |-> IF p \in DOMAIN creator
                                       THEN NewPart(s, creator[p]) ELSE parts[p]]
           peak == [p \in Parts |-> MissingSum(allocs, Matching(allocs, created[p], TRUE))]
           rows == Resynchronized(allocs, created, short, peak)
<1>1. PICK raise \in [Parts -> short \cup {NoSet}] :
        parts' = [p \in Parts |->
                    IF raise[p] = NoSet THEN rows[p]
                    ELSE [parts[p] EXCEPT
                            !.quantity = Larger(parts[p].quantity,
                                                parts[p].owned + Open(raise[p]))]]
  BY DEF CreateMissing
<1>2. CleanRows(rows) /\ UNCHANGED <<sets, figures, allocs>>
  BY DEF CreateMissing
<1>c. \A p \in DOMAIN creator : creator[p] \in short
  BY DEF CreateMissing
<1> USE DEF IInv
<1>3. \A a \in short : Open(a) \in Nat
  <2>1. SUFFICES ASSUME NEW a \in short PROVE Open(a) \in Nat
    OBVIOUS
  <2>2. a \in Positions /\ allocs[a].owned < allocs[a].required
    BY DEF ShortItems, ItemsOf, Positions
  <2>3. allocs[a].owned \in Nat /\ allocs[a].required \in Nat
    BY <2>2 DEF TypeOK, AllocRow
  <2> QED BY <2>2, <2>3 DEF Open
<1> HIDE DEF peak, short
<1>k. \A p \in Parts : created[p] \in PartRow
  <2>1. created = Created(s, creator)
    BY DEF Created
  <2> HIDE DEF created
  <2> QED BY <2>1, CreatedType
<1>4. ASSUME NEW p \in Parts PROVE parts'[p] \in PartRow /\ Sound(parts'[p])
  <2>1. Sound(parts[p])
    BY SoundRows DEF TypeOK, PresenceMarker, OwnedWithinQuantity
  <2>2. CASE raise[p] # NoSet
    <3> DEFINE quantity == Larger(parts[p].quantity, parts[p].owned + Open(raise[p]))
    <3>1. /\ parts[p].quantity \in Nat /\ parts[p].owned \in Nat
          /\ Open(raise[p]) \in Nat
      BY <1>3, <2>2 DEF TypeOK, PartRow
    <3>2. quantity \in Nat /\ parts[p].owned <= quantity
      BY <3>1 DEF Larger, TypeOK, OwnedWithinQuantity
    <3>3. parts'[p] = [parts[p] EXCEPT !.quantity = quantity]
      BY <1>1, <2>2
    <3> HIDE DEF quantity
    <3>4. parts[p] \in PartRow
      BY DEF TypeOK
    <3> QED BY <2>1, <3>2, <3>3, <3>4 DEF Sound, Clean, PartRow
  <2>3. CASE raise[p] = NoSet
    <3>1. parts'[p] = rows[p]
      BY <1>1, <2>3
    <3>2. rows[p] \in PartRow /\ Clean(rows[p])
      BY <1>2 DEF CleanRows
    <3>3. CASE p \in Mirrors(allocs, created, short)
      <4> DEFINE matches == Matching(allocs, created[p], TRUE)
                 owned == OwnedSum(allocs, matches)
                 quantity == Larger(RequiredSum(allocs, matches), owned)
      <4>1. rows[p] = Written(created[p], quantity, owned, peak[p])
        BY <3>3 DEF Resynchronized
      <4> HIDE DEF rows, created, matches, owned, quantity
      <4>2. rows[p].present = ExpectedPresent(rows[p].owned, rows[p].unassigned)
        BY <1>k, <4>1, WrittenFields
      <4> QED BY <3>1, <3>2, <4>2 DEF Sound
    <3>4. CASE p \notin Mirrors(allocs, created, short)
      <4>1. rows[p] = created[p]
        BY <3>4 DEF Resynchronized
      <4>2. CASE p \in DOMAIN creator
        <5>1. rows[p] = NewPart(s, creator[p])
          BY <4>1, <4>2
        <5>2. /\ rows[p].present = BlankPart.present
              /\ rows[p].owned = BlankPart.owned
              /\ rows[p].unassigned = BlankPart.unassigned
          BY <5>1 DEF NewPart, BlankPart
        <5> QED BY <3>1, <3>2, <5>2, BlankRowsOK DEF Sound
      <4>3. CASE p \notin DOMAIN creator
        BY <2>1, <3>1, <4>1, <4>3 DEF Sound
      <4> QED BY <4>2, <4>3
    <3> QED BY <3>3, <3>4
  <2> QED BY <2>2, <2>3 DEF Sound
<1>5. parts' = [p \in Parts |-> parts'[p]]
  BY <1>1
<1>6. parts' \in [Parts -> PartRow]
  BY <1>4, <1>5
<1> QED
  BY <1>2, <1>4, <1>6 DEF TypeOK, PresenceMarker, OwnedWithinQuantity, Sound, Clean

LEMMA PositionRequestKeepsIInv ==
    ASSUME IInv, PositionRequest
    PROVE  IInv'
<1>0. /\ AskedQuantities \subseteq Nat
      /\ SetItems \subseteq Positions
      /\ allocs \in [Positions -> AllocRow]
  BY FormsAssumption DEF AskedQuantities, PartForm, PositionForm, Positions, IInv, TypeOK
<1>g. AsRequired \in [Positions -> Nat] /\ AsNone \in [Positions -> Nat]
  BY GoalsAreQuantities DEF IInv
<1>2. ASSUME NEW a \in SetItems, NEW form \in PositionForms, SaveSetItem(a, form)
      PROVE  IInv'
  BY <1>0, <1>2, FormAllocType, SetAuthoritativeKeepsIInv DEF SaveSetItem
<1>3. ASSUME NEW s \in Sets, SetInventoryComplete(s)
      PROVE  IInv'
  BY <1>g, <1>3, SetAllKeepsIInv DEF SetInventoryComplete
<1>4. ASSUME NEW s \in Sets, SetInventoryMissing(s)
      PROVE  IInv'
  BY <1>g, <1>4, SetAllKeepsIInv DEF SetInventoryMissing
<1>5. ASSUME MarkAllSparesMissing
      PROVE  IInv'
  BY <1>g, <1>5, SetAllKeepsIInv DEF MarkAllSparesMissing
<1>6. ASSUME MarkAllSparesPresent
      PROVE  IInv'
  <2>1. allocs' \in [Positions -> AllocRow]
    BY <1>0, <1>6 DEF MarkAllSparesPresent, AllocRow
  <2> QED BY <1>6, <2>1 DEF MarkAllSparesPresent, IInv, TypeOK, PresenceMarker, OwnedWithinQuantity
<1>7. ASSUME NEW s \in Sets, NEW new \in SUBSET Parts,
             NEW creator \in [new -> SetItems], CreateMissing(s, creator)
      PROVE  IInv'
  BY <1>7, CreateMissingKeepsIInv
<1> QED
  BY <1>2, <1>3, <1>4, <1>5, <1>6, <1>7 DEF PositionRequest

\* Emptying positions leaves rows.
LEMMA WithoutType ==
    ASSUME NEW gone, allocs \in [Positions -> AllocRow]
    PROVE  Without(allocs, gone) \in [Positions -> AllocRow]
BY BlankRowsOK DEF Without

LEMMA FigureRequestKeepsIInv ==
    ASSUME IInv, FigureRequest
    PROVE  IInv'
<1>0. /\ AskedQuantities \subseteq Nat
      /\ FigureParts \subseteq Positions
      /\ allocs \in [Positions -> AllocRow]
  BY FormsAssumption DEF AskedQuantities, PartForm, PositionForm, Positions, IInv, TypeOK
<1>g. AsRequired \in [Positions -> Nat] /\ AsNone \in [Positions -> Nat]
  BY GoalsAreQuantities DEF IInv
<1>1. ASSUME NEW f \in Figures, NEW s \in Sets \cup {NoSet}, SaveFigure(f, s)
      PROVE  IInv'
  BY <1>1 DEF SaveFigure, IInv, TypeOK, PresenceMarker, OwnedWithinQuantity
<1>2. ASSUME NEW f \in Figures, DeleteFigure(f)
      PROVE  IInv'
  BY <1>2, WithoutType DEF DeleteFigure, IInv, TypeOK, PresenceMarker, OwnedWithinQuantity
<1>3. ASSUME NEW a \in FigureParts, NEW form \in PositionForms, SaveFigurePart(a, form)
      PROVE  IInv'
  BY <1>0, <1>3, FormAllocType, SetAuthoritativeKeepsIInv DEF SaveFigurePart
<1>5. ASSUME NEW f \in Figures, FigureInventoryComplete(f)
      PROVE  IInv'
  BY <1>g, <1>5, SetAllKeepsIInv DEF FigureInventoryComplete
<1>6. ASSUME NEW f \in Figures, FigureInventoryMissing(f)
      PROVE  IInv'
  BY <1>g, <1>6, SetAllKeepsIInv DEF FigureInventoryMissing
<1> QED
  BY <1>1, <1>2, <1>3, <1>5, <1>6 DEF FigureRequest

LEMMA TrashRequestKeepsIInv ==
    ASSUME IInv, TrashRequest
    PROVE  IInv'
<1> USE DEF IInv, TypeOK, PresenceMarker, OwnedWithinQuantity
<1>1. ASSUME NEW s \in Sets, CreateSet(s) \/ TrashSet(s) \/ RestoreSet(s)
      PROVE  IInv'
  BY <1>1 DEF CreateSet, TrashSet, RestoreSet
<1>2. ASSUME NEW s \in Sets, DeleteSet(s)
      PROVE  IInv'
  <2>1. allocs' \in [Positions -> AllocRow]
    BY <1>2, WithoutType DEF DeleteSet
  <2>2. /\ sets' \in [Sets -> {"absent", "live", "trashed"}]
        /\ figures' \in [Figures -> [exists: BOOLEAN, set: Sets \cup {NoSet}]]
    BY <1>2 DEF DeleteSet
  <2>3. parts' = [p \in Parts |-> IF parts[p].set = s
                                  THEN [parts[p] EXCEPT !.set = NoSet] ELSE parts[p]]
    BY <1>2 DEF DeleteSet
  <2>4. parts' \in [Parts -> PartRow]
    BY <2>3 DEF PartRow
  <2>5. PresenceMarker' /\ OwnedWithinQuantity'
    BY <2>3 DEF PartRow
  <2> QED BY <2>1, <2>2, <2>4, <2>5
<1>3. ASSUME NEW p \in Parts, TrashPart(p) \/ RestorePart(p)
      PROVE  IInv'
  <2>1. PICK state \in {"live", "trashed"} : parts' = [parts EXCEPT ![p].state = state]
    BY <1>3 DEF TrashPart, RestorePart
  <2>2. parts' \in [Parts -> PartRow]
    BY <2>1 DEF PartRow
  <2>3. PresenceMarker' /\ OwnedWithinQuantity'
    BY <2>1 DEF PartRow
  <2> QED BY <1>3, <2>2, <2>3 DEF TrashPart, RestorePart
<1>4. ASSUME NEW p \in Parts, DeletePart(p)
      PROVE  IInv'
  BY <1>4, BlankRowsOK DEF DeletePart, Sound, Clean
<1> QED
  BY <1>1, <1>2, <1>3, <1>4 DEF TrashRequest

-----------------------------------------------------------------------------
LEMMA InitIInv == Init => IInv
<1> SUFFICES ASSUME Init PROVE IInv
  OBVIOUS
<1>1. \A p \in Parts : parts[p] = BlankPart
  BY DEF Init
<1>2. TypeOK
  BY BlankRowsOK DEF Init, TypeOK, Sound
<1> QED
  BY <1>1, <1>2, BlankRowsOK DEF IInv, PresenceMarker, OwnedWithinQuantity, Sound, Clean

LEMMA StepIInv == IInv /\ [Next]_vars => IInv'
<1> SUFFICES ASSUME IInv, [Next]_vars PROVE IInv'
  OBVIOUS
<1>1. CASE Next
  BY <1>1, QuantityRequestKeepsIInv, PartRequestKeepsIInv, PositionRequestKeepsIInv, FigureRequestKeepsIInv,
     TrashRequestKeepsIInv DEF Next
<1>2. CASE UNCHANGED vars
  BY <1>2 DEF vars, IInv, TypeOK, PresenceMarker, OwnedWithinQuantity
<1> QED
  BY <1>1, <1>2

\* Every request leaves rows of the right shape.
THEOREM TypeCorrect == Spec => []TypeOK
<1>1. IInv => TypeOK
  BY DEF IInv
<1> QED
  BY <1>1, InitIInv, StepIInv, PTL DEF Spec

\* is_present never contradicts the quantities of its row.
THEOREM PresenceMarkerHolds == Spec => []PresenceMarker
<1>1. IInv => PresenceMarker
  BY DEF IInv
<1> QED
  BY <1>1, InitIInv, StepIInv, PTL DEF Spec

\* No request can trip the constraint part_owned_lte_quantity.
THEOREM ConstraintNeverTrips == Spec => []OwnedWithinQuantity
<1>1. IInv => OwnedWithinQuantity
  BY DEF IInv
<1> QED
  BY <1>1, InitIInv, StepIInv, PTL DEF Spec

-----------------------------------------------------------------------------
(***************************************************************************)
(* The trash.                                                              *)
(***************************************************************************)
Frozen == /\ \A a \in Positions : PositionFrozen(a)
          /\ \A p \in Parts : PartFrozen(p)

\* A position that a Part edit writes belongs to a live set.
LEMMA SetPartOwnedFrozen ==
    ASSUME TypeOK, NEW p \in Parts, NEW row, NEW quantity,
           parts[p].state # "trashed", SetPartOwnedQuantity(p, row, quantity)
    PROVE  Frozen
<1> DEFINE matches == Matching(allocs, row, FALSE)
<1>1. \A a \in matches : HomeSet(a) \in Sets /\ sets[HomeSet(a)] = "live"
  BY DEF Matching, BestMatches, Eligible, Live
<1>2. \A a \in Positions : a \notin matches => allocs'[a] = allocs[a]
  BY DEF SetPartOwnedQuantity
<1>3. \A q \in Parts \ {p} : parts'[q] = parts[q]
  BY DEF SetPartOwnedQuantity, TypeOK
<1> QED
  BY <1>1, <1>2, <1>3 DEF Frozen, PositionFrozen, PartFrozen

\* Only live Parts are rewritten as mirrors.
LEMMA ResynchronizedFrozen ==
    ASSUME NEW as, NEW rows, NEW touched, NEW peak
    PROVE  \A p \in Parts : rows[p].state # "live" =>
              Resynchronized(as, rows, touched, peak)[p] = rows[p]
BY DEF Resynchronized, Mirrors

LEMMA SetAuthoritativeFrozen ==
    ASSUME TypeOK, NEW as, NEW a \in Positions, NEW quantity,
           as \in [Positions -> AllocRow],
           \A b \in Positions \ {a} : as[b] = allocs[b],
           SetAuthoritativeOwned(as, a, quantity)
    PROVE  Frozen
<1>1. HomeSet(a) = NoSet \/ (HomeSet(a) \in Sets /\ sets[HomeSet(a)] = "live")
  BY DEF SetAuthoritativeOwned, Writable, Live
<1>2. \A b \in Positions \ {a} : allocs'[b] = allocs[b]
  BY DEF SetAuthoritativeOwned
<1>3. PICK rows, touched, peak : parts' = Resynchronized(rows, parts, touched, peak)
  BY DEF SetAuthoritativeOwned
<1>4. \A p \in Parts : parts[p].state # "live" => parts'[p] = parts[p]
  BY <1>3 DEF Resynchronized, Mirrors
<1> QED
  BY <1>1, <1>2, <1>4 DEF Frozen, PositionFrozen, PartFrozen

LEMMA SetAllFrozen ==
    ASSUME TypeOK, NEW touched, NEW goal,
           \A a \in touched : HomeSet(a) = NoSet \/ Live(HomeSet(a)),
           SetAllAuthoritativeOwned(touched, goal)
    PROVE  Frozen
<1>1. \A b \in Positions : b \notin touched => allocs'[b] = allocs[b]
  BY DEF SetAllAuthoritativeOwned
<1>2. PICK as, peak : parts' = Resynchronized(as, parts, touched, peak)
  BY DEF SetAllAuthoritativeOwned
<1>3. \A p \in Parts : parts[p].state # "live" => parts'[p] = parts[p]
  BY <1>2 DEF Resynchronized, Mirrors
<1> QED
  BY <1>1, <1>3 DEF Frozen, PositionFrozen, PartFrozen, Live

LEMMA QuantityRequestFrozen ==
    ASSUME TypeOK, NEW row \in Parts \cup Positions, NEW quantity,
           QuantityRequest(row, quantity)
    PROVE  Frozen
<1>0. /\ SetItems \subseteq Positions /\ FigureParts \subseteq Positions
      /\ allocs \in [Positions -> AllocRow]
      /\ \A a \in SetItems : HomeSet(a) = SetOf[a]
  BY DEF Positions, TypeOK, HomeSet
<1>1. CASE row \in Parts /\ MissingPartQuantity(row, quantity)
  BY <1>1, SetPartOwnedFrozen DEF MissingPartQuantity
<1>2. CASE row \in SetItems /\ SetInventoryQuantity(row, quantity)
  BY <1>0, <1>2, SetAuthoritativeFrozen DEF SetInventoryQuantity
<1>3. CASE row \in FigureParts /\ MinifigurePartQuantity(row, quantity)
  BY <1>0, <1>3, SetAuthoritativeFrozen DEF MinifigurePartQuantity
<1> QED
  BY <1>1, <1>2, <1>3 DEF QuantityRequest

LEMMA PartRequestFrozen == ASSUME TypeOK, PartRequest PROVE Frozen
<1>2. ASSUME NEW p \in Parts, NEW form \in PartForms, CreatePart(p, form)
      PROVE  Frozen
  BY <1>2, SetPartOwnedFrozen DEF CreatePart
<1>3. ASSUME NEW p \in Parts, NEW form \in PartForms, EditPart(p, form)
      PROVE  Frozen
  BY <1>3, SetPartOwnedFrozen DEF EditPart
<1>4. ASSUME NEW chosen \in SUBSET Parts, NEW status \in AskedStatuses,
             MissingPartsBulk(chosen, status)
      PROVE  Frozen
  BY <1>4 DEF MissingPartsBulk, Frozen, PositionFrozen, PartFrozen
<1>5. ASSUME NEW p \in Parts, NEW status \in AskedStatuses, MissingPartStatus(p, status)
      PROVE  Frozen
  BY <1>5 DEF MissingPartStatus, Frozen, PositionFrozen, PartFrozen, TypeOK
<1> QED
  BY <1>2, <1>3, <1>4, <1>5 DEF PartRequest

LEMMA CreateMissingFrozen ==
    ASSUME TypeOK, NEW s \in Sets, NEW creator, CreateMissing(s, creator)
    PROVE  Frozen
<1> DEFINE short == ShortItems(s)
           created == [p \in Parts |-> IF p \in DOMAIN creator
                                       THEN NewPart(s, creator[p]) ELSE parts[p]]
           peak == [p \in Parts |-> MissingSum(allocs, Matching(allocs, created[p], TRUE))]
           rows == Resynchronized(allocs, created, short, peak)
<1>1. PICK raise \in [Parts -> short \cup {NoSet}] :
        /\ \A p \in Parts : raise[p] = NoSet \/ raise[p] \in Raised(s, p)
        /\ parts' = [p \in Parts |->
                    IF raise[p] = NoSet THEN rows[p]
                    ELSE [parts[p] EXCEPT
                            !.quantity = Larger(parts[p].quantity,
                                                parts[p].owned + Open(raise[p]))]]
  <2> HIDE DEF rows
  <2> QED BY DEF CreateMissing, rows
<1>2. \A p \in DOMAIN creator : parts[p].state = "absent"
  BY DEF CreateMissing
<1>3. allocs' = allocs
  BY DEF CreateMissing
<1>4. ASSUME NEW p \in Parts, parts[p].state = "trashed"
      PROVE  parts'[p] = parts[p]
  <2>1. raise[p] = NoSet
    BY <1>1, <1>4 DEF Raised, PartsOfKey
  <2>2. created[p] = parts[p]
    BY <1>2, <1>4
  <2> HIDE DEF created, peak, short
  <2>3. rows[p] = created[p]
    BY <1>4, <2>2, ResynchronizedFrozen
  <2> QED BY <1>1, <2>1, <2>2, <2>3
<1> QED
  BY <1>3, <1>4 DEF Frozen, PositionFrozen, PartFrozen

LEMMA PositionRequestFrozen == ASSUME TypeOK, PositionRequest PROVE Frozen
<1>0. /\ SetItems \subseteq Positions
      /\ allocs \in [Positions -> AllocRow]
      /\ \A a \in SetItems : HomeSet(a) = SetOf[a]
  BY DEF Positions, TypeOK, HomeSet
<1>2. ASSUME NEW a \in SetItems, NEW form \in PositionForms, SaveSetItem(a, form)
      PROVE  Frozen
  <2> DEFINE as == [allocs EXCEPT ![a] = FormAlloc(form)]
  <2>1. as \in [Positions -> AllocRow]
    BY <1>0, <1>2, FormAllocType
  <2>2. \A b \in Positions \ {a} : as[b] = allocs[b]
    BY <1>0
  <2>3. SetAuthoritativeOwned(as, a, form.owned)
    BY <1>2 DEF SaveSetItem
  <2> HIDE DEF as
  <2> QED BY <1>0, <1>2, <2>1, <2>2, <2>3, SetAuthoritativeFrozen
<1>3. ASSUME NEW s \in Sets, SetInventoryComplete(s)
      PROVE  Frozen
  BY <1>0, <1>3, SetAllFrozen DEF SetInventoryComplete, ItemsOf
<1>4. ASSUME NEW s \in Sets, SetInventoryMissing(s)
      PROVE  Frozen
  BY <1>0, <1>4, SetAllFrozen DEF SetInventoryMissing, ItemsOf
<1>5. ASSUME MarkAllSparesMissing
      PROVE  Frozen
  BY <1>0, <1>5, SetAllFrozen DEF MarkAllSparesMissing
<1>6. ASSUME MarkAllSparesPresent
      PROVE  Frozen
  BY <1>0, <1>6 DEF MarkAllSparesPresent, Frozen, PositionFrozen, PartFrozen, Live
<1>7. ASSUME NEW s \in Sets, NEW new \in SUBSET Parts,
             NEW creator \in [new -> SetItems], CreateMissing(s, creator)
      PROVE  Frozen
  BY <1>7, CreateMissingFrozen
<1> QED
  BY <1>2, <1>3, <1>4, <1>5, <1>6, <1>7 DEF PositionRequest

LEMMA FigureRequestFrozen == ASSUME TypeOK, FigureRequest PROVE Frozen
<1>0. /\ FigureParts \subseteq Positions
      /\ allocs \in [Positions -> AllocRow]
  BY DEF Positions, TypeOK
<1>1. ASSUME NEW f \in Figures, NEW s \in Sets \cup {NoSet}, SaveFigure(f, s)
      PROVE  Frozen
  BY <1>1 DEF SaveFigure, Frozen, PositionFrozen, PartFrozen
<1>2. ASSUME NEW f \in Figures, DeleteFigure(f)
      PROVE  Frozen
  BY <1>2 DEF DeleteFigure, Without, BlankAlloc, Frozen, PositionFrozen, PartFrozen
<1>3. ASSUME NEW a \in FigureParts, NEW form \in PositionForms, SaveFigurePart(a, form)
      PROVE  Frozen
  BY <1>0, <1>3, FormAllocType, SetAuthoritativeFrozen DEF SaveFigurePart
<1>5. ASSUME NEW f \in Figures, FigureInventoryComplete(f)
      PROVE  Frozen
  BY <1>5, SetAllFrozen DEF FigureInventoryComplete, Writable
<1>6. ASSUME NEW f \in Figures, FigureInventoryMissing(f)
      PROVE  Frozen
  BY <1>6, SetAllFrozen DEF FigureInventoryMissing, Writable
<1> QED
  BY <1>1, <1>2, <1>3, <1>5, <1>6 DEF FigureRequest

LEMMA TrashRequestFrozen == ASSUME TypeOK, TrashRequest PROVE Frozen
<1> USE DEF Frozen, PositionFrozen, PartFrozen, TypeOK
<1>1. ASSUME NEW s \in Sets, CreateSet(s) \/ TrashSet(s) \/ RestoreSet(s)
      PROVE  Frozen
  BY <1>1 DEF CreateSet, TrashSet, RestoreSet
<1>2. ASSUME NEW s \in Sets, DeleteSet(s)
      PROVE  Frozen
  <2>1. sets'[s] = "absent"
    BY <1>2 DEF DeleteSet
  <2>2. \A a \in Positions : HomeSet(a) # s => allocs'[a] = allocs[a]
    BY <1>2 DEF DeleteSet, Without
  <2>3. \A p \in Parts : parts'[p] \in {parts[p], [parts[p] EXCEPT !.set = NoSet]}
    BY <1>2 DEF DeleteSet
  <2> QED BY <2>1, <2>2, <2>3
<1>3. ASSUME NEW p \in Parts, TrashPart(p) \/ RestorePart(p) \/ DeletePart(p)
      PROVE  Frozen
  BY <1>3 DEF TrashPart, RestorePart, DeletePart, BlankPart, PartRow
<1> QED
  BY <1>1, <1>2, <1>3 DEF TrashRequest

\* Whatever the requests, what is in the trash stays as it was put there.
THEOREM TrashStaysFrozen == Spec => TrashIsFrozen
<1>1. TypeOK /\ [Next]_vars => [Frozen]_vars
  BY QuantityRequestFrozen, PartRequestFrozen, PositionRequestFrozen, FigureRequestFrozen, TrashRequestFrozen
  DEF Next
<1> QED
  BY <1>1, TypeCorrect, PTL DEF Spec, TrashIsFrozen, Frozen

-----------------------------------------------------------------------------
(***************************************************************************)
(* The sums over positions.                                                *)
(***************************************************************************)
RequiredIn(as) == [a \in Positions |-> as[a].required]
OwnedIn(as) == [a \in Positions |-> as[a].owned]
MissingIn(as) == [a \in Positions |-> Missing(as[a].required, as[a].owned)]

\* The three sums of the queries are totals, for which SumTheorems speaks.
LEMMA RequiredIsTotal ==
    ASSUME NEW as, NEW S \in SUBSET Positions
    PROVE  RequiredSum(as, S) = Total(RequiredIn(as), S)
<1>1. ASSUME NEW iter
      PROVE  [t \in SUBSET S |-> IF t = {} THEN 0
                 ELSE as[Pick(t)].required + iter[t \ {Pick(t)}]]
             = [t \in SUBSET S |-> Unfold(RequiredIn(as), iter, t)]
  BY PickInSet DEF RequiredIn, Unfold
<1>2. RequiredSum(as, S) = (CHOOSE iter : iter =
                 [t \in SUBSET S |-> IF t = {} THEN 0
                 ELSE as[Pick(t)].required + iter[t \ {Pick(t)}]])[S]
  BY DEF RequiredSum, MapThenSumSet, MapThenFoldSet, Pick
<1>3. (CHOOSE iter : iter =
                 [t \in SUBSET S |-> IF t = {} THEN 0
                 ELSE as[Pick(t)].required + iter[t \ {Pick(t)}]]) = Iter(RequiredIn(as), S)
  BY <1>1, Zenon DEF Iter, Solves
<1> QED BY <1>2, <1>3, TotalIsIter

LEMMA OwnedIsTotal ==
    ASSUME NEW as, NEW S \in SUBSET Positions
    PROVE  OwnedSum(as, S) = Total(OwnedIn(as), S)
<1>1. ASSUME NEW iter
      PROVE  [t \in SUBSET S |-> IF t = {} THEN 0
                 ELSE as[Pick(t)].owned + iter[t \ {Pick(t)}]]
             = [t \in SUBSET S |-> Unfold(OwnedIn(as), iter, t)]
  BY PickInSet DEF OwnedIn, Unfold
<1>2. OwnedSum(as, S) = (CHOOSE iter : iter =
                 [t \in SUBSET S |-> IF t = {} THEN 0
                 ELSE as[Pick(t)].owned + iter[t \ {Pick(t)}]])[S]
  BY DEF OwnedSum, MapThenSumSet, MapThenFoldSet, Pick
<1>3. (CHOOSE iter : iter =
                 [t \in SUBSET S |-> IF t = {} THEN 0
                 ELSE as[Pick(t)].owned + iter[t \ {Pick(t)}]]) = Iter(OwnedIn(as), S)
  BY <1>1, Zenon DEF Iter, Solves
<1> QED BY <1>2, <1>3, TotalIsIter

LEMMA MissingIsTotal ==
    ASSUME NEW as, NEW S \in SUBSET Positions
    PROVE  MissingSum(as, S) = Total(MissingIn(as), S)
<1>1. ASSUME NEW iter
      PROVE  [t \in SUBSET S |-> IF t = {} THEN 0
                 ELSE Missing(as[Pick(t)].required, as[Pick(t)].owned) + iter[t \ {Pick(t)}]]
             = [t \in SUBSET S |-> Unfold(MissingIn(as), iter, t)]
  BY PickInSet DEF MissingIn, Unfold
<1>2. MissingSum(as, S) = (CHOOSE iter : iter =
                 [t \in SUBSET S |-> IF t = {} THEN 0
                 ELSE Missing(as[Pick(t)].required, as[Pick(t)].owned)
                        + iter[t \ {Pick(t)}]])[S]
  BY DEF MissingSum, MapThenSumSet, MapThenFoldSet, Pick
<1>3. (CHOOSE iter : iter =
                 [t \in SUBSET S |-> IF t = {} THEN 0
                 ELSE Missing(as[Pick(t)].required, as[Pick(t)].owned)
                        + iter[t \ {Pick(t)}]]) = Iter(MissingIn(as), S)
  BY <1>1, Zenon DEF Iter, Solves
<1> QED BY <1>2, <1>3, TotalIsIter

LEMMA FieldsIn ==
    ASSUME NEW as, NEW a \in Positions
    PROVE  /\ RequiredIn(as)[a] = as[a].required /\ OwnedIn(as)[a] = as[a].owned
           /\ MissingIn(as)[a] = Missing(as[a].required, as[a].owned)
BY DEF RequiredIn, OwnedIn, MissingIn

LEMMA MissingType ==
    ASSUME NEW m \in Nat, NEW n \in Nat
    PROVE  Missing(m, n) \in Nat /\ (Missing(m, n) = 0 <=> m <= n)
BY DEF Missing

LEMMA SumsAreQuantities ==
    ASSUME NEW as \in [Positions -> AllocRow], NEW S \in SUBSET Positions
    PROVE  /\ IsFiniteSet(S) /\ RequiredSum(as, S) \in Nat /\ OwnedSum(as, S) \in Nat
           /\ MissingSum(as, S) \in Nat
<1>1. IsFiniteSet(S)
  BY KeysAssumption, FS_Subset
<1>2. \A a \in S : as[a].required \in Nat /\ as[a].owned \in Nat
  BY DEF AllocRow
<1>3. \A a \in S : /\ RequiredIn(as)[a] \in Nat /\ OwnedIn(as)[a] \in Nat
                   /\ MissingIn(as)[a] \in Nat
  BY <1>2, FieldsIn, MissingType
<1>4. RequiredSum(as, S) \in Nat
  BY <1>1, <1>3, RequiredIsTotal, TotalType
<1>5. OwnedSum(as, S) \in Nat
  BY <1>1, <1>3, OwnedIsTotal, TotalType
<1>6. MissingSum(as, S) \in Nat
  BY <1>1, <1>3, MissingIsTotal, TotalType
<1> QED BY <1>1, <1>4, <1>5, <1>6

\* Only the owned amounts of the positions in S count.
LEMMA OwnedSumSame ==
    ASSUME NEW as, NEW bs, NEW S \in SUBSET Positions, \A a \in S : as[a].owned = bs[a].owned
    PROVE  OwnedSum(as, S) = OwnedSum(bs, S)
<1>1. \A a \in S : OwnedIn(as)[a] = OwnedIn(bs)[a]
  BY DEF OwnedIn
<1>2. Total(OwnedIn(as), S) = Total(OwnedIn(bs), S)
  BY <1>1, TotalCongruence
<1> QED BY <1>2, OwnedIsTotal

\* The sums over a single position.
LEMMA SumsOfOne ==
    ASSUME NEW as \in [Positions -> AllocRow], NEW a \in Positions
    PROVE  /\ OwnedSum(as, {a}) = as[a].owned
           /\ MissingSum(as, {a}) = Missing(as[a].required, as[a].owned)
<1>s. {a} \in SUBSET Positions
  OBVIOUS
<1>1. as[a].required \in Nat /\ as[a].owned \in Nat
  BY DEF AllocRow
<1>2. /\ OwnedIn(as)[a] = as[a].owned
      /\ MissingIn(as)[a] = Missing(as[a].required, as[a].owned)
  BY FieldsIn
<1>m. Missing(as[a].required, as[a].owned) \in Nat
  BY <1>1, MissingType
<1>n. \A n \in Nat : n \in Int
  OBVIOUS
<1>o. as[a].owned \in Int /\ Missing(as[a].required, as[a].owned) \in Int
  BY <1>1, <1>m, <1>n, Zenon
<1>i. OwnedIn(as)[a] \in Int /\ MissingIn(as)[a] \in Int
  BY <1>2, <1>o, Zenon
<1>3. Total(OwnedIn(as), {a}) = OwnedIn(as)[a] /\ Total(MissingIn(as), {a}) = MissingIn(as)[a]
  BY <1>i, TotalSingleton
<1> QED BY <1>s, <1>2, <1>3, OwnedIsTotal, MissingIsTotal

\* A set of at most one element is empty or a singleton.
LEMMA AtMostOne ==
    ASSUME NEW S \in SUBSET Positions, Cardinality(S) <= 1
    PROVE  S = {} \/ \E a \in Positions : S = {a}
<1>1. SUFFICES ASSUME S # {} PROVE \E a \in Positions : S = {a}
  OBVIOUS
<1>2. PICK a \in S : TRUE
  BY <1>1
<1>3. IsFiniteSet(S) /\ IsFiniteSet(S \ {a}) /\ Cardinality(S) \in Nat
        /\ Cardinality(S \ {a}) \in Nat
  BY KeysAssumption, FS_Subset, FS_CardinalityType
<1>4. Cardinality(S \ {a}) = Cardinality(S) - 1
  BY <1>3, FS_RemoveElement
<1>5. Cardinality(S \ {a}) = 0
  BY <1>3, <1>4
<1>6. S \ {a} = {}
  BY <1>3, <1>5, FS_EmptySet
<1> QED BY <1>6

-----------------------------------------------------------------------------
(***************************************************************************)
(* What a Part row's matches depend on.                                    *)
(***************************************************************************)

\* Positions that differ in their owned amounts only.
SameIdentities(as, bs) ==
    \A a \in Positions : /\ as[a].exists = bs[a].exists /\ as[a].spare = bs[a].spare
                         /\ as[a].ident = bs[a].ident

\* Part rows that match the same positions.
SameIdentity(row, other) == row.set = other.set /\ row.ident = other.ident

\* The matches without and with the spares of the set.
Matched(as, row) == Matching(as, row, FALSE)
Mirrored(as, row) == Matching(as, row, TRUE)
SameMatches(as, row, bs, other) == /\ Mirrored(as, row) = Mirrored(bs, other)
                                   /\ Matched(as, row) = Matched(bs, other)

LEMMA MatchingSame ==
    ASSUME NEW as, NEW bs, NEW row, NEW other,
           SameIdentities(as, bs), SameIdentity(row, other)
    PROVE  SameMatches(as, row, bs, other)
<1>1. /\ Eligible(as, row, TRUE) = Eligible(bs, other, TRUE)
      /\ Eligible(as, row, FALSE) = Eligible(bs, other, FALSE)
  BY DEF Eligible, SameIdentities, SameIdentity
<1>3. ASSUME NEW S \in SUBSET Positions
      PROVE  BestMatches(as, S, row) = BestMatches(bs, S, other)
  <2> DEFINE exactAs == {a \in S : /\ as[a].ident.element # NoElement
                                   /\ as[a].ident.element = row.ident.element}
             exactBs == {a \in S : /\ bs[a].ident.element # NoElement
                                   /\ bs[a].ident.element = other.ident.element}
             blankAs == {a \in S : /\ as[a].ident.element = NoElement
                                   /\ as[a].ident.number \in row.ident.numbers}
             blankBs == {a \in S : /\ bs[a].ident.element = NoElement
                                   /\ bs[a].ident.number \in other.ident.numbers}
  <2>1. row.ident = other.ident /\ \A a \in S : as[a].ident = bs[a].ident
    BY DEF SameIdentities, SameIdentity
  <2>2. exactAs = exactBs
    BY <2>1
  <2>3. blankAs = blankBs
    BY <2>1
  <2>4. /\ BestMatches(as, S, row) = IF exactAs # {} THEN exactAs ELSE blankAs
        /\ BestMatches(bs, S, other) = IF exactBs # {} THEN exactBs ELSE blankBs
    BY DEF BestMatches
  <2> HIDE DEF exactAs, exactBs, blankAs, blankBs
  <2> QED BY <2>2, <2>3, <2>4
<1>4. ASSUME NEW E PROVE E \cap SetItems \in SUBSET Positions /\ E \cap FigureParts \in SUBSET Positions
  BY DEF Positions
<1>5. ASSUME NEW E
      PROVE  BestMatches(as, E \cap SetItems, row) \cup BestMatches(as, E \cap FigureParts, row)
           = BestMatches(bs, E \cap SetItems, other) \cup BestMatches(bs, E \cap FigureParts, other)
  <2>1. /\ BestMatches(as, E \cap SetItems, row) = BestMatches(bs, E \cap SetItems, other)
        /\ BestMatches(as, E \cap FigureParts, row) = BestMatches(bs, E \cap FigureParts, other)
    BY <1>3, <1>4
  <2> QED BY <2>1
<1>6. Mirrored(as, row) = Mirrored(bs, other)
  <2>1. PICK E : E = Eligible(as, row, TRUE)
    OBVIOUS
  <2>2. /\ Mirrored(as, row) = BestMatches(as, E \cap SetItems, row)
                               \cup BestMatches(as, E \cap FigureParts, row)
        /\ Mirrored(bs, other) = BestMatches(bs, E \cap SetItems, other)
                                 \cup BestMatches(bs, E \cap FigureParts, other)
    BY <1>1, <2>1 DEF Mirrored, Matching
  <2> QED BY <1>5, <2>2
<1>7. Matched(as, row) = Matched(bs, other)
  <2>1. PICK E : E = Eligible(as, row, FALSE)
    OBVIOUS
  <2>2. /\ Matched(as, row) = BestMatches(as, E \cap SetItems, row)
                               \cup BestMatches(as, E \cap FigureParts, row)
        /\ Matched(bs, other) = BestMatches(bs, E \cap SetItems, other)
                                 \cup BestMatches(bs, E \cap FigureParts, other)
    BY <1>1, <2>1 DEF Matched, Matching
  <2> QED BY <1>5, <2>2
<1> QED BY <1>6, <1>7 DEF SameMatches

LEMMA MatchingType ==
    ASSUME NEW as, NEW row, NEW spares
    PROVE  /\ Matching(as, row, spares) \in SUBSET Positions
           /\ \A a \in Matching(as, row, spares) : as[a].exists
           /\ spares = FALSE => \A a \in Matching(as, row, spares) : ~as[a].spare
BY DEF Matching, BestMatches, Eligible

\* The matches after a step that leaves sets and figures alone.
LEMMA MatchingNext ==
    ASSUME NEW p \in Parts, NEW spares, UNCHANGED <<sets, figures>>
    PROVE  Matching(allocs, parts[p], spares)' = Matching(allocs', parts'[p], spares)
<1>1. Eligible(allocs, parts[p], spares)' = Eligible(allocs', parts'[p], spares)
  BY DEF Eligible, Live, HomeSet
<1> QED BY <1>1 DEF Matching, BestMatches

\* A write of quantity and owned changes no identity.
LEMMA WrittenIdentity ==
    ASSUME NEW row \in PartRow, NEW quantity, NEW owned, NEW missing
    PROVE  /\ SameIdentity(Written(row, quantity, owned, missing), row)
           /\ Written(row, quantity, owned, missing).state = row.state
<1> DEFINE present == ExpectedPresent(owned, row.unassigned)
           status == EffectiveStatus(row.status, missing)
<1>1. Written(row, quantity, owned, missing) =
        [row EXCEPT !.quantity = quantity, !.owned = owned, !.present = present,
                    !.status = status]
  BY DEF Written
<1> HIDE DEF present, status
<1> QED BY <1>1 DEF PartRow, SameIdentity

LEMMA OwnedOnlyChanged ==
    ASSUME NEW as \in [Positions -> AllocRow], NEW S, NEW goal
    PROVE  SameIdentities(as, [a \in Positions |->
                               IF a \in S THEN [as[a] EXCEPT !.owned = goal[a]] ELSE as[a]])
BY DEF SameIdentities, AllocRow

\* The shortage a possession status is checked against.
LEMMA ShortageType ==
    ASSUME NEW as \in [Positions -> AllocRow], NEW row \in PartRow
    PROVE  AuthoritativeMissing(as, row) \in Nat
<1>1. Missing(row.quantity, row.owned) \in Nat
  BY MissingType DEF PartRow
<1>2. MissingSum(as, Matching(as, row, FALSE)) \in Nat
  BY MatchingType, SumsAreQuantities
<1> QED BY <1>1, <1>2 DEF AuthoritativeMissing

LEMMA PossessionMeansNothingMissing ==
    ASSUME NEW status, NEW missing \in Nat,
           EffectiveStatus(status, missing) \in PossessionStatuses
    PROVE  missing = 0 /\ status \in PossessionStatuses
BY DEF EffectiveStatus, PossessionStatuses

\* What set_part_owned_quantity leaves: the Part has at most one position, and
\* the row, the position and the shortage the service computed agree.
PartWritten(p, row, quantity, maximum, M) ==
    /\ maximum \in Nat
    /\ M = Matching(allocs, row, FALSE)
    /\ M = {} \/ \E a \in Positions : /\ M = {a}
                                       /\ allocs'[a].owned = quantity
                                       /\ allocs'[a].required = maximum
    /\ \A a \in Positions : a \notin M => allocs'[a] = allocs[a]
    /\ Matching(allocs', parts'[p], FALSE) = M
    /\ parts'[p].owned = quantity /\ parts'[p].quantity = maximum
    /\ parts'[p].state = row.state
    /\ parts'[p].status = EffectiveStatus(row.status, Missing(maximum, quantity))
    /\ \A q \in Parts \ {p} : parts'[q] = parts[q]
    /\ UNCHANGED <<sets, figures>>

LEMMA SetPartOwnedWrites ==
    ASSUME IInv, NEW p \in Parts, NEW row \in PartRow, NEW quantity \in Nat,
           SetPartOwnedQuantity(p, row, quantity)
    PROVE  \E maximum, M : PartWritten(p, row, quantity, maximum, M)
<1> DEFINE M == Matching(allocs, row, FALSE)
           maximum == IF M = {} THEN row.quantity
                      ELSE allocs[CHOOSE a \in M : TRUE].required
<1>1. /\ Cardinality(M) <= 1 /\ quantity <= maximum
      /\ allocs' = [a \in Positions |->
                      IF a \in M THEN [allocs[a] EXCEPT !.owned = quantity]
                      ELSE allocs[a]]
      /\ parts' = [parts EXCEPT ![p] = Written(row, maximum, quantity,
                                               Missing(maximum, quantity))]
      /\ UNCHANGED <<sets, figures>>
  BY DEF SetPartOwnedQuantity
<1>2. M \in SUBSET Positions
  BY MatchingType
<1>m. M = Matching(allocs, row, FALSE)
  OBVIOUS
<1>t. allocs \in [Positions -> AllocRow] /\ parts \in [Parts -> PartRow]
  BY DEF IInv, TypeOK
<1>3. CASE M = {}
  <2>1. maximum = row.quantity /\ maximum \in Nat
    BY <1>3 DEF PartRow
  <2> QED
    <3> HIDE DEF M, maximum
    <3>1. allocs' = allocs
      BY <1>1, <1>3, <1>t
    <3>2. parts'[p] = Written(row, maximum, quantity, Missing(maximum, quantity))
      BY <1>1, <1>t
    <3>3. SameIdentity(parts'[p], row) /\ parts'[p].state = row.state
      BY <3>2, WrittenIdentity
    <3>4. SameIdentities(allocs', allocs)
      BY <3>1 DEF SameIdentities
    <3>5. Matching(allocs', parts'[p], FALSE) = M
      <4>1. PICK as, new : as = allocs' /\ new = parts'[p]
        OBVIOUS
      <4>2. SameIdentities(as, allocs) /\ SameIdentity(new, row)
        BY <3>3, <3>4, <4>1
      <4>3. Matched(as, new) = Matched(allocs, row)
        <5>1. SameMatches(as, new, allocs, row)
          BY <4>2, MatchingSame
        <5> QED BY <5>1 DEF SameMatches
      <4> QED BY <4>1, <4>3, <1>m DEF Matched
    <3>6. /\ parts'[p].owned = quantity /\ parts'[p].quantity = maximum
          /\ parts'[p].status = EffectiveStatus(row.status, Missing(maximum, quantity))
      BY <3>2, WrittenFields
    <3>7. \A q \in Parts \ {p} : parts'[q] = parts[q]
      BY <1>1, <1>t
    <3> QED BY <1>1, <1>3, <1>m, <2>1, <3>1, <3>3, <3>5, <3>6, <3>7 DEF PartWritten
<1>4. CASE M # {}
  <2>1. PICK a \in Positions : M = {a}
    BY <1>1, <1>2, <1>4, AtMostOne
  <2>2. (CHOOSE b \in M : TRUE) = a
    BY <2>1
  <2>3. maximum = allocs[a].required /\ maximum \in Nat
    BY <1>4, <1>t, <2>2 DEF AllocRow
  <2> HIDE DEF M, maximum
  <2>4. allocs'[a] = [allocs[a] EXCEPT !.owned = quantity]
    BY <1>1, <2>1
  <2>5. allocs'[a].owned = quantity /\ allocs'[a].required = maximum
    BY <1>t, <2>3, <2>4 DEF AllocRow
  <2>6. \A b \in Positions : b \notin M => allocs'[b] = allocs[b]
    BY <1>1
  <2>7. SameIdentities(allocs', allocs)
    BY <1>1, <1>t DEF SameIdentities, AllocRow
  <2>8. parts'[p] = Written(row, maximum, quantity, Missing(maximum, quantity))
    BY <1>1, <1>t
  <2>9. SameIdentity(parts'[p], row) /\ parts'[p].state = row.state
    BY <2>8, WrittenIdentity
  <2>10. Matching(allocs', parts'[p], FALSE) = M
    <3>1. PICK as, new : as = allocs' /\ new = parts'[p]
      OBVIOUS
    <3>2. SameIdentities(as, allocs) /\ SameIdentity(new, row)
      BY <2>7, <2>9, <3>1
    <3>3. Matched(as, new) = Matched(allocs, row)
      <4>1. SameMatches(as, new, allocs, row)
        BY <3>2, MatchingSame
      <4> QED BY <4>1 DEF SameMatches
    <3> QED BY <3>1, <3>3, <1>m DEF Matched
  <2>11. /\ parts'[p].owned = quantity /\ parts'[p].quantity = maximum
         /\ parts'[p].status = EffectiveStatus(row.status, Missing(maximum, quantity))
    BY <2>8, WrittenFields
  <2>12. \A q \in Parts \ {p} : parts'[q] = parts[q]
    BY <1>1, <1>t
  <2> QED BY <1>1, <1>m, <2>1, <2>3, <2>5, <2>6, <2>9, <2>10, <2>11, <2>12 DEF PartWritten
<1> QED BY <1>3, <1>4

-----------------------------------------------------------------------------
(***************************************************************************)
(* A possession status is earned.                                          *)
(***************************************************************************)
Earned(p) ==
    (/\ parts'[p].state = "live"
     /\ parts'[p].status \in PossessionStatuses
     /\ parts[p].state = "absent" \/ parts[p].status \notin PossessionStatuses)
    => (AuthoritativeMissing(allocs, parts[p]) = 0)'

\* A step that gives the Part no possession status it did not have.
Quiet(p) == parts'[p].state = "live" /\ parts'[p].status \in PossessionStatuses
            => parts[p].state # "absent" /\ parts[p].status \in PossessionStatuses

LEMMA QuietEarned == \A p \in Parts : Quiet(p) => Earned(p)
BY DEF Quiet, Earned

LEMMA SetPartOwnedEarned ==
    ASSUME IInv, NEW p \in Parts, NEW row \in PartRow, NEW quantity \in Nat,
           SetPartOwnedQuantity(p, row, quantity)
    PROVE  \A q \in Parts : Earned(q)
<1>1. PICK maximum, M : PartWritten(p, row, quantity, maximum, M)
  BY SetPartOwnedWrites
<1>2. ASSUME NEW q \in Parts \ {p} PROVE Earned(q)
  <2>1. parts'[q] = parts[q]
    BY <1>1, <1>2 DEF PartWritten
  <2> QED BY <2>1, QuietEarned DEF IInv, TypeOK, Quiet, Earned
<1>3. ASSUME parts'[p].status \in PossessionStatuses
      PROVE  (AuthoritativeMissing(allocs, parts[p]) = 0)'
  <2>1. maximum \in Nat /\ Missing(maximum, quantity) \in Nat
    BY <1>1, MissingType DEF PartWritten
  <2>2. Missing(maximum, quantity) = 0
    BY <1>1, <1>3, <2>1, PossessionMeansNothingMissing DEF PartWritten
  <2>3. Matching(allocs, parts[p], FALSE)' = M
    BY <1>1, MatchingNext DEF PartWritten
  <2>4. AuthoritativeMissing(allocs, parts[p])' =
          IF M = {} THEN Missing(parts'[p].quantity, parts'[p].owned)
          ELSE MissingSum(allocs', M)
    BY <2>3 DEF AuthoritativeMissing
  <2>5. CASE M = {}
    BY <1>1, <2>2, <2>4, <2>5 DEF PartWritten
  <2>6. CASE M # {}
    <3>1. PICK a \in Positions : /\ M = {a} /\ allocs'[a].owned = quantity
                                 /\ allocs'[a].required = maximum
      BY <1>1, <2>6 DEF PartWritten
    <3>2. IInv'
      BY SetPartOwnedKeepsIInv
    <3>3. allocs' \in [Positions -> AllocRow]
      BY <3>2 DEF IInv, TypeOK
    <3>4. MissingSum(allocs', {a}) = Missing(allocs'[a].required, allocs'[a].owned)
      BY <3>3, SumsOfOne
    <3> QED BY <2>2, <2>4, <2>6, <3>1, <3>4
  <2> QED BY <2>5, <2>6
<1> QED BY <1>2, <1>3 DEF Earned

\* The service that rewrites mirrors gives no possession status.
LEMMA ResynchronizedQuiet ==
    ASSUME NEW as, NEW rows \in [Parts -> PartRow], NEW touched, NEW peak, NEW p \in Parts
    PROVE  LET new == Resynchronized(as, rows, touched, peak)[p]
           IN  /\ new.state = rows[p].state
               /\ new.status \in PossessionStatuses => rows[p].status \in PossessionStatuses
<1>1. CASE p \in Mirrors(as, rows, touched)
  <2> DEFINE matches == Matching(as, rows[p], TRUE)
             owned == OwnedSum(as, matches)
             quantity == Larger(RequiredSum(as, matches), owned)
             new == Resynchronized(as, rows, touched, peak)[p]
  <2>1. new = Written(rows[p], quantity, owned, peak[p])
    BY <1>1 DEF Resynchronized
  <2> HIDE DEF matches, owned, quantity, new
  <2>2. /\ new.state = rows[p].state
        /\ new.status = EffectiveStatus(rows[p].status, peak[p])
    BY <2>1, WrittenFields, WrittenIdentity
  <2>3. new.status \in PossessionStatuses => rows[p].status \in PossessionStatuses
    BY <2>2 DEF EffectiveStatus, PossessionStatuses
  <2> QED BY <2>2, <2>3 DEF new
<1>2. CASE p \notin Mirrors(as, rows, touched)
  BY <1>2 DEF Resynchronized
<1> QED BY <1>1, <1>2

LEMMA SetAuthoritativeQuiet ==
    ASSUME TypeOK, NEW as, NEW a, NEW quantity, SetAuthoritativeOwned(as, a, quantity)
    PROVE  \A p \in Parts : Quiet(p)
<1>1. PICK written, touched, peak : parts' = Resynchronized(written, parts, touched, peak)
  BY DEF SetAuthoritativeOwned
<1>2. parts \in [Parts -> PartRow]
  BY DEF TypeOK
<1> QED BY <1>1, <1>2, ResynchronizedQuiet DEF Quiet

LEMMA SetAllQuiet ==
    ASSUME TypeOK, NEW touched, NEW goal, SetAllAuthoritativeOwned(touched, goal)
    PROVE  \A p \in Parts : Quiet(p)
<1>1. PICK written, peak : parts' = Resynchronized(written, parts, touched, peak)
  BY DEF SetAllAuthoritativeOwned
<1>2. parts \in [Parts -> PartRow]
  BY DEF TypeOK
<1> QED BY <1>1, <1>2, ResynchronizedQuiet DEF Quiet

\* The shortage of a row whose quantities, set and identity stay.
LEMMA ShortageStays ==
    ASSUME NEW p \in Parts, UNCHANGED <<sets, figures, allocs>>,
           SameIdentity(parts'[p], parts[p]),
           parts'[p].quantity = parts[p].quantity, parts'[p].owned = parts[p].owned
    PROVE  AuthoritativeMissing(allocs, parts[p])' = AuthoritativeMissing(allocs, parts[p])
<1>1. PICK new : new = parts'[p]
  OBVIOUS
<1>2. SameIdentities(allocs, allocs) /\ SameIdentity(new, parts[p])
  BY <1>1 DEF SameIdentities
<1>3. SameMatches(allocs, new, allocs, parts[p])
  BY <1>2, MatchingSame
<1>4. Matching(allocs, new, FALSE) = Matching(allocs, parts[p], FALSE)
  BY <1>3 DEF SameMatches, Matched
<1>5. Matching(allocs, parts[p], FALSE)' = Matching(allocs', parts'[p], FALSE)
  BY MatchingNext
<1>6. Matching(allocs, parts[p], FALSE)' = Matching(allocs, parts[p], FALSE)
  BY <1>1, <1>4, <1>5
<1> QED BY <1>6 DEF AuthoritativeMissing

\* Both views that only post a status.
LEMMA StatusPostedEarned ==
    ASSUME TypeOK, NEW chosen, NEW status, UNCHANGED <<sets, figures, allocs>>,
           \A p \in chosen : StatusIsConsistent(status, AuthoritativeMissing(allocs, parts[p])),
           parts' = [p \in Parts |-> IF p \in chosen THEN [parts[p] EXCEPT !.status = status]
                                     ELSE parts[p]]
    PROVE  \A p \in Parts : Earned(p)
<1> SUFFICES ASSUME NEW p \in Parts PROVE Earned(p)
  OBVIOUS
<1>1. parts[p] \in PartRow /\ allocs \in [Positions -> AllocRow]
  BY DEF TypeOK
<1>2. CASE p \in chosen
  <2>1. parts'[p] = [parts[p] EXCEPT !.status = status]
    BY <1>2
  <2>2. /\ SameIdentity(parts'[p], parts[p]) /\ parts'[p].quantity = parts[p].quantity
        /\ parts'[p].owned = parts[p].owned /\ parts'[p].status = status
    BY <1>1, <2>1 DEF PartRow, SameIdentity
  <2>3. AuthoritativeMissing(allocs, parts[p])' = AuthoritativeMissing(allocs, parts[p])
    BY <2>2, ShortageStays
  <2>4. AuthoritativeMissing(allocs, parts[p]) \in Nat
    BY <1>1, ShortageType
  <2>5. status \in PossessionStatuses => AuthoritativeMissing(allocs, parts[p]) = 0
    BY <1>2, <2>4, PossessionMeansNothingMissing DEF StatusIsConsistent
  <2> QED BY <2>2, <2>3, <2>5 DEF Earned
<1>3. CASE p \notin chosen
  <2>1. parts'[p] = parts[p]
    BY <1>3
  <2> QED BY <1>1, <2>1 DEF Earned
<1> QED BY <1>2, <1>3

\* What create-missing leaves of the Part rows: some show a larger quantity,
\* the others are those of the service, over the rows just created.
RaisedOrRewritten(p, rows, touched, peak) ==
    \/ parts'[p] = Resynchronized(allocs, rows, touched, peak)[p]
    \/ \E quantity : parts'[p] = [parts[p] EXCEPT !.quantity = quantity]

LEMMA CreateMissingWrites ==
    ASSUME NEW s \in Sets, NEW creator, CreateMissing(s, creator)
    PROVE  /\ UNCHANGED <<sets, figures, allocs>>
           /\ \A p \in DOMAIN creator : parts[p].state = "absent"
           /\ \E touched, peak : \A p \in Parts :
                RaisedOrRewritten(p, Created(s, creator), touched, peak)
<1> DEFINE short == ShortItems(s)
           created == [p \in Parts |-> IF p \in DOMAIN creator
                                       THEN NewPart(s, creator[p]) ELSE parts[p]]
           peak == [p \in Parts |-> MissingSum(allocs, Matching(allocs, created[p], TRUE))]
           rows == Resynchronized(allocs, created, short, peak)
<1>1. /\ UNCHANGED <<sets, figures, allocs>>
      /\ \A p \in DOMAIN creator : parts[p].state = "absent"
  BY DEF CreateMissing
<1>2. PICK raise \in [Parts -> short \cup {NoSet}] :
        parts' = [p \in Parts |->
                    IF raise[p] = NoSet THEN rows[p]
                    ELSE [parts[p] EXCEPT
                            !.quantity = Larger(parts[p].quantity,
                                                parts[p].owned + Open(raise[p]))]]
  BY DEF CreateMissing
<1>3. created = Created(s, creator)
  BY DEF Created
<1> HIDE DEF short, created, peak
<1>4. \A p \in Parts : RaisedOrRewritten(p, Created(s, creator), short, peak)
  BY <1>2, <1>3 DEF RaisedOrRewritten
<1> QED BY <1>1, <1>4

LEMMA CreateMissingQuiet ==
    ASSUME TypeOK, NEW s \in Sets, NEW new \in SUBSET Parts,
           NEW creator \in [new -> SetItems], CreateMissing(s, creator)
    PROVE  \A p \in Parts : Quiet(p)
<1> SUFFICES ASSUME NEW p \in Parts PROVE Quiet(p)
  OBVIOUS
<1>1. PICK touched, peak :
        RaisedOrRewritten(p, Created(s, creator), touched, peak)
  BY CreateMissingWrites
<1>2. parts[p] \in PartRow
  BY DEF TypeOK
<1>3. CASE \E quantity : parts'[p] = [parts[p] EXCEPT !.quantity = quantity]
  <2>1. parts'[p].state = parts[p].state /\ parts'[p].status = parts[p].status
    BY <1>2, <1>3 DEF PartRow
  <2> QED BY <2>1 DEF Quiet
<1>4. CASE parts'[p] = Resynchronized(allocs, Created(s, creator), touched, peak)[p]
  <2>1. /\ parts'[p].state = Created(s, creator)[p].state
        /\ parts'[p].status \in PossessionStatuses
             => Created(s, creator)[p].status \in PossessionStatuses
    BY <1>4, CreatedType, ResynchronizedQuiet
  <2>2. CASE p \in DOMAIN creator
    <3>1. Created(s, creator)[p].status = "missing"
      BY <2>2 DEF Created, NewPart, BlankPart
    <3> QED BY <2>1, <3>1 DEF Quiet, PossessionStatuses
  <2>3. CASE p \notin DOMAIN creator
    <3>1. Created(s, creator)[p] = parts[p]
      BY <2>3 DEF Created
    <3> QED BY <2>1, <3>1 DEF Quiet
  <2> QED BY <2>2, <2>3
<1> QED BY <1>1, <1>3, <1>4 DEF RaisedOrRewritten

LEMMA QuantityRequestEarned ==
    ASSUME IInv, NEW row \in Parts \cup Positions, NEW quantity \in AskedQuantities,
           QuantityRequest(row, quantity)
    PROVE  \A p \in Parts : Earned(p)
<1>0. quantity \in Nat /\ TypeOK
  BY FormsAssumption DEF AskedQuantities, PartForm, PositionForm, IInv
<1>1. CASE row \in Parts /\ MissingPartQuantity(row, quantity)
  <2>1. parts[row] \in PartRow
    BY <1>0, <1>1 DEF TypeOK
  <2> QED BY <1>0, <1>1, <2>1, SetPartOwnedEarned DEF MissingPartQuantity
<1>2. CASE row \in SetItems /\ SetInventoryQuantity(row, quantity)
  BY <1>0, <1>2, SetAuthoritativeQuiet, QuietEarned DEF SetInventoryQuantity
<1>3. CASE row \in FigureParts /\ MinifigurePartQuantity(row, quantity)
  BY <1>0, <1>3, SetAuthoritativeQuiet, QuietEarned DEF MinifigurePartQuantity
<1> QED
  BY <1>1, <1>2, <1>3 DEF QuantityRequest

LEMMA PartRequestEarned == ASSUME IInv, PartRequest PROVE \A p \in Parts : Earned(p)
<1>0. /\ TypeOK
      /\ \A form \in PartForms : form \in PartForm /\ form.owned \in Nat
  BY FormsAssumption DEF PartForm, IInv
<1>2. ASSUME NEW p \in Parts, NEW form \in PartForms, CreatePart(p, form)
      PROVE  \A q \in Parts : Earned(q)
  BY <1>0, <1>2, FormRowType, SetPartOwnedEarned DEF CreatePart
<1>3. ASSUME NEW p \in Parts, NEW form \in PartForms, EditPart(p, form)
      PROVE  \A q \in Parts : Earned(q)
  <2>1. PICK sent \in PartForm : /\ SetPartOwnedQuantity(p, FormRow(sent), sent.owned)
                                 /\ sent.owned \in Nat
    BY <1>0, <1>3, EditSends
  <2> QED BY <2>1, FormRowType, SetPartOwnedEarned
<1>4. ASSUME NEW chosen \in SUBSET Parts, NEW status \in AskedStatuses,
             MissingPartsBulk(chosen, status)
      PROVE  \A q \in Parts : Earned(q)
  BY <1>0, <1>4, StatusPostedEarned DEF MissingPartsBulk
<1>5. ASSUME NEW p \in Parts, NEW status \in AskedStatuses, MissingPartStatus(p, status)
      PROVE  \A q \in Parts : Earned(q)
  <2>1. parts' = [q \in Parts |-> IF q \in {p} THEN [parts[q] EXCEPT !.status = status]
                                  ELSE parts[q]]
    BY <1>0, <1>5 DEF MissingPartStatus, TypeOK
  <2> QED BY <1>0, <1>5, <2>1, StatusPostedEarned DEF MissingPartStatus
<1> QED
  BY <1>2, <1>3, <1>4, <1>5 DEF PartRequest

LEMMA PositionRequestEarned == ASSUME IInv, PositionRequest PROVE \A p \in Parts : Earned(p)
<1>0. TypeOK
  BY DEF IInv
<1>2. ASSUME NEW a \in SetItems, NEW form \in PositionForms, SaveSetItem(a, form)
      PROVE  \A p \in Parts : Earned(p)
  BY <1>0, <1>2, SetAuthoritativeQuiet, QuietEarned DEF SaveSetItem
<1>3. ASSUME NEW s \in Sets, SetInventoryComplete(s) \/ SetInventoryMissing(s)
      PROVE  \A p \in Parts : Earned(p)
  BY <1>0, <1>3, SetAllQuiet, QuietEarned DEF SetInventoryComplete, SetInventoryMissing
<1>5. ASSUME MarkAllSparesMissing
      PROVE  \A p \in Parts : Earned(p)
  BY <1>0, <1>5, SetAllQuiet, QuietEarned DEF MarkAllSparesMissing
<1>6. ASSUME MarkAllSparesPresent
      PROVE  \A p \in Parts : Earned(p)
  BY <1>0, <1>6, QuietEarned DEF MarkAllSparesPresent, Quiet, TypeOK, Earned
<1>7. ASSUME NEW s \in Sets, NEW new \in SUBSET Parts,
             NEW creator \in [new -> SetItems], CreateMissing(s, creator)
      PROVE  \A p \in Parts : Earned(p)
  BY <1>0, <1>7, CreateMissingQuiet, QuietEarned
<1> QED
  BY <1>2, <1>3, <1>5, <1>6, <1>7 DEF PositionRequest

LEMMA FigureRequestEarned == ASSUME IInv, FigureRequest PROVE \A p \in Parts : Earned(p)
<1>0. TypeOK
  BY DEF IInv
<1>1. ASSUME NEW f \in Figures, NEW s \in Sets \cup {NoSet}, SaveFigure(f, s)
      PROVE  \A p \in Parts : Earned(p)
  BY <1>0, <1>1, QuietEarned DEF SaveFigure, Quiet, TypeOK
<1>2. ASSUME NEW f \in Figures, DeleteFigure(f)
      PROVE  \A p \in Parts : Earned(p)
  BY <1>0, <1>2, QuietEarned DEF DeleteFigure, Quiet, TypeOK
<1>3. ASSUME NEW a \in FigureParts, NEW form \in PositionForms, SaveFigurePart(a, form)
      PROVE  \A p \in Parts : Earned(p)
  BY <1>0, <1>3, SetAuthoritativeQuiet, QuietEarned DEF SaveFigurePart
<1>5. ASSUME NEW f \in Figures, FigureInventoryComplete(f) \/ FigureInventoryMissing(f)
      PROVE  \A p \in Parts : Earned(p)
  BY <1>0, <1>5, SetAllQuiet, QuietEarned DEF FigureInventoryComplete, FigureInventoryMissing
<1> QED
  BY <1>1, <1>2, <1>3, <1>5 DEF FigureRequest

LEMMA TrashRequestEarned == ASSUME IInv, TrashRequest PROVE \A p \in Parts : Earned(p)
<1> USE DEF IInv, TypeOK
<1>1. ASSUME NEW s \in Sets, CreateSet(s) \/ TrashSet(s) \/ RestoreSet(s)
      PROVE  \A p \in Parts : Quiet(p)
  BY <1>1 DEF CreateSet, TrashSet, RestoreSet, Quiet
<1>2. ASSUME NEW s \in Sets, DeleteSet(s)
      PROVE  \A p \in Parts : Quiet(p)
  <2>1. \A p \in Parts : parts'[p] \in {parts[p], [parts[p] EXCEPT !.set = NoSet]}
    BY <1>2 DEF DeleteSet
  <2>2. \A p \in Parts : parts'[p].state = parts[p].state /\ parts'[p].status = parts[p].status
    BY <2>1 DEF PartRow
  <2> QED BY <2>2 DEF Quiet
<1>3. ASSUME NEW q \in Parts, TrashPart(q) \/ RestorePart(q)
      PROVE  \A p \in Parts : Quiet(p)
  <2>1. PICK state \in {"live", "trashed"} : parts' = [parts EXCEPT ![q].state = state]
    BY <1>3 DEF TrashPart, RestorePart
  <2>2. parts[q].state # "absent"
    BY <1>3 DEF TrashPart, RestorePart
  <2>3. \A p \in Parts : /\ parts'[p].status = parts[p].status
                         /\ p # q => parts'[p].state = parts[p].state
    BY <2>1 DEF PartRow
  <2> QED BY <2>2, <2>3 DEF Quiet
<1>4. ASSUME NEW q \in Parts, DeletePart(q)
      PROVE  \A p \in Parts : Quiet(p)
  <2>1. \A p \in Parts : parts'[p] = IF p = q THEN BlankPart ELSE parts[p]
    BY <1>4 DEF DeletePart
  <2>2. BlankPart.state = "absent"
    BY DEF BlankPart
  <2> QED BY <2>1, <2>2 DEF Quiet
<1> QED
  BY <1>1, <1>2, <1>3, <1>4, QuietEarned DEF TrashRequest

\* Whatever the request, a Part that newly has a possession status misses
\* nothing in the positions that are authoritative for it.
THEOREM PossessionIsEarned == Spec => NewPossessionNeedsNoShortage
<1>1. IInv /\ [Next]_vars => [\A p \in Parts : Earned(p)]_vars
  BY QuantityRequestEarned, PartRequestEarned, PositionRequestEarned, FigureRequestEarned,
     TrashRequestEarned DEF Next
<1> QED
  BY <1>1, InitIInv, StepIInv, PTL DEF Spec, NewPossessionNeedsNoShortage, Earned

-----------------------------------------------------------------------------
(***************************************************************************)
(* A mirror parts from its positions only for a cause.                     *)
(***************************************************************************)
AgreementKept(p) ==
    (/\ Audited(p) /\ Agrees(p) /\ Audited(p)'
     /\ Matching(allocs, parts[p], FALSE)' = Matching(allocs, parts[p], FALSE)
     /\ ~SpareShares(p) /\ ~SpareShares(p)'
     /\ ~SecondMirror(p) /\ ~SecondMirror(p)')
    => Agrees(p)'

\* A step that changes no owned amount of the Part or of its positions.
LEMMA UntouchedAgreement ==
    ASSUME NEW p \in Parts, TypeOK,
           Audited(p) /\ Audited(p)'
             /\ Matching(allocs, parts[p], FALSE)' = Matching(allocs, parts[p], FALSE)
           => /\ parts'[p].owned = parts[p].owned
              /\ \A a \in Matching(allocs, parts[p], FALSE) : allocs'[a].owned = allocs[a].owned
    PROVE  AgreementKept(p)
<1> SUFFICES ASSUME Audited(p), Agrees(p), Audited(p)',
                    Matching(allocs, parts[p], FALSE)' = Matching(allocs, parts[p], FALSE)
             PROVE  Agrees(p)'
  BY DEF AgreementKept
<1> DEFINE M == Matching(allocs, parts[p], FALSE)
<1>1. M \in SUBSET Positions
  BY MatchingType
<1>2. PICK bs : bs = allocs'
  OBVIOUS
<1>m. M' = M /\ \A a \in M : allocs[a].owned = bs[a].owned
  BY <1>2
<1>a. parts[p].owned = OwnedSum(allocs, M) /\ parts'[p].owned = parts[p].owned
  BY DEF Agrees
<1> HIDE DEF M
<1>3. OwnedSum(allocs, M) = OwnedSum(bs, M)
  BY <1>1, <1>m, OwnedSumSame
<1>4. parts'[p].owned = OwnedSum(allocs', M')
  BY <1>2, <1>3, <1>m, <1>a
<1> QED BY <1>4 DEF Agrees, M

\* The matches of a Part that no spare shares.
LEMMA NoSpares ==
    ASSUME NEW p \in Parts, UNCHANGED <<sets, figures>>, ~SpareShares(p)'
    PROVE  Mirrored(allocs', parts'[p]) = Matching(allocs, parts[p], FALSE)'
<1>1. Matching(allocs, parts[p], TRUE)' = Matching(allocs', parts'[p], TRUE)
  BY MatchingNext
<1> QED BY <1>1 DEF SpareShares, Mirrored

\* set_part_owned_quantity: the Part and its one position are written together,
\* another Part that mirrors this position is a second mirror.
LEMMA SetPartOwnedAgreement ==
    ASSUME IInv, NEW q \in Parts, NEW row \in PartRow, NEW quantity \in Nat,
           row.state = "live", SetPartOwnedQuantity(q, row, quantity), NEW p \in Parts
    PROVE  AgreementKept(p)
<1>1. PICK maximum, M : PartWritten(q, row, quantity, maximum, M)
  BY SetPartOwnedWrites
<1>2. UNCHANGED <<sets, figures>>
  BY <1>1 DEF PartWritten
<1>3. Matching(allocs, parts[q], FALSE)' = M
  BY <1>1, <1>2, MatchingNext DEF PartWritten
<1>4. CASE p = q
  <2> SUFFICES ASSUME Audited(p)' PROVE Agrees(p)'
    BY DEF AgreementKept
  <2>1. M # {}
    BY <1>3, <1>4 DEF Audited
  <2>2. PICK a \in Positions : M = {a} /\ allocs'[a].owned = quantity
    BY <1>1, <2>1 DEF PartWritten
  <2>3. IInv'
    BY SetPartOwnedKeepsIInv
  <2>4. allocs' \in [Positions -> AllocRow]
    BY <2>3 DEF IInv, TypeOK
  <2>5. OwnedSum(allocs', {a}) = allocs'[a].owned
    BY <2>4, SumsOfOne
  <2>6. parts'[p].owned = quantity
    BY <1>1, <1>4 DEF PartWritten
  <2>7. parts'[p].owned = OwnedSum(allocs', Matching(allocs, parts[p], FALSE)')
    BY <1>3, <1>4, <2>2, <2>5, <2>6
  <2> QED BY <2>7 DEF Agrees
<1>5. CASE p # q
  <2>1. parts'[p] = parts[p]
    BY <1>1, <1>5 DEF PartWritten
  <2>2. parts'[q].state = "live"
    BY <1>1 DEF PartWritten
  <2>3. CASE M \cap Matching(allocs, parts[p], FALSE) = {}
    <3>1. \A a \in Matching(allocs, parts[p], FALSE) : a \in Positions /\ a \notin M
      BY <2>3, MatchingType
    <3>2. \A a \in Matching(allocs, parts[p], FALSE) : allocs'[a].owned = allocs[a].owned
      BY <1>1, <3>1 DEF PartWritten
    <3> QED BY <2>1, <3>2, UntouchedAgreement DEF IInv
  <2>4. CASE M \cap Matching(allocs, parts[p], FALSE) # {}
    <3>1. Matching(allocs, parts[p], FALSE)' = Matching(allocs, parts[p], FALSE)
          => SecondMirror(p)'
      BY <1>3, <1>5, <2>2, <2>4 DEF SecondMirror
    <3> QED BY <3>1 DEF AgreementKept
  <2> QED BY <2>3, <2>4
<1> QED BY <1>4, <1>5

\* The service rewrites a mirror from the positions it has just written; a row
\* that mirrors none of them keeps all its positions.
LEMMA ResynchronizedAgreement ==
    ASSUME IInv, NEW p \in Parts, NEW touched, NEW peak,
           UNCHANGED <<sets, figures>>,
           parts' = Resynchronized(allocs', parts, touched, peak),
           \A a \in Positions : a \notin touched => allocs'[a].owned = allocs[a].owned
    PROVE  AgreementKept(p)
<1> SUFFICES ASSUME Audited(p), Agrees(p), Audited(p)', ~SpareShares(p)',
                    Matching(allocs, parts[p], FALSE)' = Matching(allocs, parts[p], FALSE)
             PROVE  Agrees(p)'
  BY DEF AgreementKept
<1>p. parts[p] \in PartRow /\ parts[p].state = "live"
  BY DEF IInv, TypeOK, Audited
<1>1. PICK bs, new : bs = allocs' /\ new = parts'[p]
  OBVIOUS
<1>r. new = Resynchronized(bs, parts, touched, peak)[p]
  BY <1>1
<1>2. CASE p \in Mirrors(bs, parts, touched)
  <2> DEFINE matches == Matching(bs, parts[p], TRUE)
             owned == OwnedSum(bs, matches)
             quantity == Larger(RequiredSum(bs, matches), owned)
  <2>1. new = Written(parts[p], quantity, owned, peak[p])
    BY <1>r, <1>2 DEF Resynchronized
  <2> HIDE DEF quantity
  <2>2. SameIdentity(new, parts[p]) /\ new.owned = owned
    <3> HIDE DEF owned
    <3> QED BY <1>p, <2>1, WrittenIdentity, WrittenFields
  <2>3. SameIdentities(bs, bs)
    BY DEF SameIdentities
  <2>4. SameMatches(bs, new, bs, parts[p])
    BY <2>2, <2>3, MatchingSame
  <2>5. Mirrored(bs, new) = matches
    BY <2>4 DEF SameMatches, Mirrored
  <2>6. Mirrored(allocs', parts'[p]) = Matching(allocs, parts[p], FALSE)'
    BY NoSpares
  <2>7. matches = Matching(allocs, parts[p], FALSE)'
    BY <1>1, <2>5, <2>6
  <2> HIDE DEF matches
  <2>8. parts'[p].owned = OwnedSum(allocs', Matching(allocs, parts[p], FALSE)')
    BY <1>1, <2>2, <2>7
  <2> QED BY <2>8 DEF Agrees
<1>3. CASE p \notin Mirrors(bs, parts, touched)
  <2>1. new = parts[p]
    BY <1>r, <1>3 DEF Resynchronized
  <2>2. Matching(bs, parts[p], TRUE) \cap touched = {}
    BY <1>3, <1>p DEF Mirrors
  <2>3. Mirrored(allocs', parts'[p]) = Matching(allocs, parts[p], FALSE)'
    BY NoSpares
  <2>4. Matching(bs, parts[p], TRUE) = Matching(allocs, parts[p], FALSE)
    BY <1>1, <2>1, <2>3 DEF Mirrored
  <2>5. \A a \in Matching(allocs, parts[p], FALSE) : a \in Positions /\ a \notin touched
    BY <2>2, <2>4, MatchingType
  <2>6. /\ parts'[p].owned = parts[p].owned
        /\ \A a \in Matching(allocs, parts[p], FALSE) : allocs'[a].owned = allocs[a].owned
    BY <1>1, <2>1, <2>5
  <2>8. parts[p].owned = OwnedSum(allocs, Matching(allocs, parts[p], FALSE))
    BY DEF Agrees
  <2>9. OwnedSum(allocs, Matching(allocs, parts[p], FALSE))
          = OwnedSum(bs, Matching(allocs, parts[p], FALSE))
    <3>1. PICK S : S = Matching(allocs, parts[p], FALSE)
      OBVIOUS
    <3>2. S \in SUBSET Positions /\ \A a \in S : allocs[a].owned = bs[a].owned
      BY <1>1, <2>5, <2>6, <3>1
    <3>3. OwnedSum(allocs, S) = OwnedSum(bs, S)
      BY <3>2, OwnedSumSame
    <3> QED BY <3>1, <3>3
  <2>10. parts'[p].owned = OwnedSum(allocs', Matching(allocs, parts[p], FALSE)')
    BY <1>1, <2>6, <2>8, <2>9
  <2> QED BY <2>10 DEF Agrees
<1> QED BY <1>2, <1>3

LEMMA SetAuthoritativeAgreement ==
    ASSUME IInv, NEW as, NEW a \in Positions, NEW quantity,
           as \in [Positions -> AllocRow], \A b \in Positions \ {a} : as[b] = allocs[b],
           SetAuthoritativeOwned(as, a, quantity)
    PROVE  \A p \in Parts : AgreementKept(p)
<1>1. PICK peak : /\ parts' = Resynchronized(allocs', parts, {a}, peak)
                  /\ allocs' = [as EXCEPT ![a].owned = quantity]
                  /\ UNCHANGED <<sets, figures>>
  BY DEF SetAuthoritativeOwned
<1>2. \A b \in Positions : b \notin {a} => allocs'[b].owned = allocs[b].owned
  BY <1>1
<1> QED BY <1>1, <1>2, ResynchronizedAgreement

LEMMA SetAllAgreement ==
    ASSUME IInv, NEW touched, NEW goal, SetAllAuthoritativeOwned(touched, goal)
    PROVE  \A p \in Parts : AgreementKept(p)
<1>1. PICK peak : /\ parts' = Resynchronized(allocs', parts, touched, peak)
                  /\ UNCHANGED <<sets, figures>>
  BY DEF SetAllAuthoritativeOwned
<1>2. \A b \in Positions : b \notin touched => allocs'[b].owned = allocs[b].owned
  BY DEF SetAllAuthoritativeOwned
<1> QED BY <1>1, <1>2, ResynchronizedAgreement

LEMMA CreateMissingAgreement ==
    ASSUME IInv, NEW s \in Sets, NEW new \in SUBSET Parts,
           NEW creator \in [new -> SetItems], CreateMissing(s, creator), NEW p \in Parts
    PROVE  AgreementKept(p)
<1> SUFFICES ASSUME Audited(p), Agrees(p), Audited(p)', ~SpareShares(p)',
                    Matching(allocs, parts[p], FALSE)' = Matching(allocs, parts[p], FALSE)
             PROVE  Agrees(p)'
  BY DEF AgreementKept
<1>p. /\ parts[p] \in PartRow /\ parts[p].state = "live" /\ TypeOK
  BY DEF IInv, TypeOK, Audited
<1>u. /\ UNCHANGED <<sets, figures, allocs>>
      /\ \A q \in DOMAIN creator : parts[q].state = "absent"
  BY CreateMissingWrites
<1>1. PICK touched, peak : RaisedOrRewritten(p, Created(s, creator), touched, peak)
  BY CreateMissingWrites
<1>2. Created(s, creator)[p] = parts[p]
  BY <1>p, <1>u DEF Created
<1>a. parts[p].owned = OwnedSum(allocs, Matching(allocs, parts[p], FALSE))
  BY DEF Agrees
<1>3. CASE parts'[p].owned = parts[p].owned
  <2>1. parts'[p].owned = OwnedSum(allocs', Matching(allocs, parts[p], FALSE)')
    BY <1>3, <1>u, <1>a
  <2> QED BY <2>1 DEF Agrees
<1>4. CASE \E quantity : parts'[p] = [parts[p] EXCEPT !.quantity = quantity]
  BY <1>3, <1>4, <1>p DEF PartRow
<1>5. CASE parts'[p] = Resynchronized(allocs, Created(s, creator), touched, peak)[p]
  <2>1. CASE p \notin Mirrors(allocs, Created(s, creator), touched)
    BY <1>2, <1>3, <1>5, <2>1 DEF Resynchronized
  <2>2. CASE p \in Mirrors(allocs, Created(s, creator), touched)
    <3> DEFINE matches == Matching(allocs, parts[p], TRUE)
               owned == OwnedSum(allocs, matches)
               quantity == Larger(RequiredSum(allocs, matches), owned)
    <3>1. PICK row : row = parts'[p]
      OBVIOUS
    <3>2. row = Written(parts[p], quantity, owned, peak[p])
      BY <1>2, <1>5, <2>2, <3>1 DEF Resynchronized
    <3> HIDE DEF quantity
    <3>3. SameIdentity(row, parts[p]) /\ row.owned = owned
      <4> HIDE DEF owned
      <4> QED BY <1>p, <3>2, WrittenIdentity, WrittenFields
    <3>4. SameIdentities(allocs, allocs)
      BY DEF SameIdentities
    <3>5. SameMatches(allocs, row, allocs, parts[p])
      BY <3>3, <3>4, MatchingSame
    <3>6. Mirrored(allocs, row) = matches
      BY <3>5 DEF SameMatches, Mirrored
    <3>7. Mirrored(allocs', parts'[p]) = Matching(allocs, parts[p], FALSE)'
      BY <1>u, NoSpares
    <3>8. matches = Matching(allocs, parts[p], FALSE)'
      BY <1>u, <3>1, <3>6, <3>7
    <3> HIDE DEF matches
    <3>9. parts'[p].owned = OwnedSum(allocs', Matching(allocs, parts[p], FALSE)')
      BY <1>u, <3>1, <3>3, <3>8
    <3> QED BY <3>9 DEF Agrees
  <2> QED BY <2>1, <2>2
<1> QED BY <1>1, <1>4, <1>5 DEF RaisedOrRewritten

LEMMA QuantityRequestAgreement ==
    ASSUME IInv, NEW row \in Parts \cup Positions, NEW quantity \in AskedQuantities,
           QuantityRequest(row, quantity)
    PROVE  \A p \in Parts : AgreementKept(p)
<1>0. /\ quantity \in Nat /\ SetItems \subseteq Positions /\ FigureParts \subseteq Positions
      /\ allocs \in [Positions -> AllocRow]
  BY FormsAssumption DEF AskedQuantities, PartForm, PositionForm, Positions, IInv, TypeOK
<1>1. CASE row \in Parts /\ MissingPartQuantity(row, quantity)
  <2>1. parts[row] \in PartRow
    BY <1>1 DEF IInv, TypeOK
  <2> QED BY <1>0, <1>1, <2>1, SetPartOwnedAgreement DEF MissingPartQuantity
<1>2. CASE row \in SetItems /\ SetInventoryQuantity(row, quantity)
  BY <1>0, <1>2, SetAuthoritativeAgreement DEF SetInventoryQuantity
<1>3. CASE row \in FigureParts /\ MinifigurePartQuantity(row, quantity)
  BY <1>0, <1>3, SetAuthoritativeAgreement DEF MinifigurePartQuantity
<1> QED
  BY <1>1, <1>2, <1>3 DEF QuantityRequest

LEMMA PartRequestAgreement ==
    ASSUME IInv, PartRequest
    PROVE  \A p \in Parts : AgreementKept(p)
<1>0. \A form \in PartForms : form \in PartForm /\ form.owned \in Nat
  BY FormsAssumption DEF PartForm
<1>f. \A form \in PartForm : FormRow(form).state = "live"
  BY DEF FormRow
<1>2. ASSUME NEW p \in Parts, NEW form \in PartForms, CreatePart(p, form)
      PROVE  \A q \in Parts : AgreementKept(q)
  BY <1>0, <1>f, <1>2, FormRowType, SetPartOwnedAgreement DEF CreatePart
<1>3. ASSUME NEW p \in Parts, NEW form \in PartForms, EditPart(p, form)
      PROVE  \A q \in Parts : AgreementKept(q)
  <2>1. PICK sent \in PartForm : /\ SetPartOwnedQuantity(p, FormRow(sent), sent.owned)
                                 /\ sent.owned \in Nat
    BY <1>3, EditSends DEF IInv
  <2> QED BY <1>f, <2>1, FormRowType, SetPartOwnedAgreement
<1>4. ASSUME NEW chosen \in SUBSET Parts, NEW status \in AskedStatuses,
             MissingPartsBulk(chosen, status)
      PROVE  \A q \in Parts : AgreementKept(q)
  <2>1. \A q \in Parts : parts'[q].owned = parts[q].owned
    BY <1>4 DEF MissingPartsBulk, IInv, TypeOK, PartRow
  <2> QED BY <1>4, <2>1, UntouchedAgreement DEF MissingPartsBulk, IInv
<1>5. ASSUME NEW p \in Parts, NEW status \in AskedStatuses, MissingPartStatus(p, status)
      PROVE  \A q \in Parts : AgreementKept(q)
  <2>1. \A q \in Parts : parts'[q].owned = parts[q].owned
    BY <1>5 DEF MissingPartStatus, IInv, TypeOK, PartRow
  <2> QED BY <1>5, <2>1, UntouchedAgreement DEF MissingPartStatus, IInv
<1> QED
  BY <1>2, <1>3, <1>4, <1>5 DEF PartRequest

LEMMA PositionRequestAgreement ==
    ASSUME IInv, PositionRequest
    PROVE  \A p \in Parts : AgreementKept(p)
<1>0. /\ SetItems \subseteq Positions
      /\ allocs \in [Positions -> AllocRow]
  BY DEF Positions, IInv, TypeOK
<1>2. ASSUME NEW a \in SetItems, NEW form \in PositionForms, SaveSetItem(a, form)
      PROVE  \A p \in Parts : AgreementKept(p)
  <2>1. PICK as : /\ as = [allocs EXCEPT ![a] = FormAlloc(form)]
                  /\ SetAuthoritativeOwned(as, a, form.owned)
    BY <1>2 DEF SaveSetItem
  <2>2. as \in [Positions -> AllocRow] /\ \A b \in Positions \ {a} : as[b] = allocs[b]
    BY <1>0, <2>1, FormAllocType
  <2> QED BY <1>0, <2>1, <2>2, SetAuthoritativeAgreement
<1>3. ASSUME NEW s \in Sets, SetInventoryComplete(s) \/ SetInventoryMissing(s)
      PROVE  \A p \in Parts : AgreementKept(p)
  BY <1>3, SetAllAgreement DEF SetInventoryComplete, SetInventoryMissing
<1>5. ASSUME MarkAllSparesMissing
      PROVE  \A p \in Parts : AgreementKept(p)
  BY <1>5, SetAllAgreement DEF MarkAllSparesMissing
<1>6. ASSUME MarkAllSparesPresent, NEW p \in Parts
      PROVE  AgreementKept(p)
  <2>1. \A a \in Matching(allocs, parts[p], FALSE) : a \in Positions /\ ~allocs[a].spare
    BY MatchingType
  <2>2. \A a \in Matching(allocs, parts[p], FALSE) : allocs'[a].owned = allocs[a].owned
    BY <1>6, <2>1 DEF MarkAllSparesPresent
  <2> QED BY <1>6, <2>2, UntouchedAgreement DEF MarkAllSparesPresent, IInv
<1>7. ASSUME NEW s \in Sets, NEW new \in SUBSET Parts,
             NEW creator \in [new -> SetItems], CreateMissing(s, creator)
      PROVE  \A p \in Parts : AgreementKept(p)
  BY <1>7, CreateMissingAgreement
<1> QED
  BY <1>2, <1>3, <1>5, <1>6, <1>7 DEF PositionRequest

\* A deleted position matches nothing afterwards.
LEMMA WithoutAgreement ==
    ASSUME IInv, NEW gone, allocs' = Without(allocs, gone), NEW p \in Parts,
           parts'[p].owned = parts[p].owned
    PROVE  AgreementKept(p)
<1> SUFFICES ASSUME Matching(allocs, parts[p], FALSE)' = Matching(allocs, parts[p], FALSE)
             PROVE  \A a \in Matching(allocs, parts[p], FALSE) :
                        allocs'[a].owned = allocs[a].owned
  BY UntouchedAgreement DEF IInv
<1>1. \A a \in Matching(allocs, parts[p], FALSE)' : allocs'[a].exists
  BY DEF Matching, BestMatches, Eligible
<1>2. \A a \in Positions : allocs'[a] = IF a \in gone THEN BlankAlloc ELSE allocs[a]
  BY DEF Without
<1>3. ~BlankAlloc.exists
  BY DEF BlankAlloc
<1>4. Matching(allocs, parts[p], FALSE) \in SUBSET Positions
  BY MatchingType
<1> QED BY <1>1, <1>2, <1>3, <1>4

LEMMA FigureRequestAgreement ==
    ASSUME IInv, FigureRequest
    PROVE  \A p \in Parts : AgreementKept(p)
<1>0. /\ FigureParts \subseteq Positions
      /\ allocs \in [Positions -> AllocRow]
  BY DEF Positions, IInv, TypeOK
<1>1. ASSUME NEW f \in Figures, NEW s \in Sets \cup {NoSet}, SaveFigure(f, s)
      PROVE  \A p \in Parts : AgreementKept(p)
  BY <1>1, UntouchedAgreement DEF SaveFigure, IInv
<1>2. ASSUME NEW f \in Figures, DeleteFigure(f)
      PROVE  \A p \in Parts : AgreementKept(p)
  BY <1>2, WithoutAgreement DEF DeleteFigure
<1>3. ASSUME NEW a \in FigureParts, NEW form \in PositionForms, SaveFigurePart(a, form)
      PROVE  \A p \in Parts : AgreementKept(p)
  <2>1. PICK as : /\ as = [allocs EXCEPT ![a] = FormAlloc(form)]
                  /\ SetAuthoritativeOwned(as, a, form.owned)
    BY <1>3 DEF SaveFigurePart
  <2>2. as \in [Positions -> AllocRow] /\ \A b \in Positions \ {a} : as[b] = allocs[b]
    BY <1>0, <2>1, FormAllocType
  <2> QED BY <1>0, <2>1, <2>2, SetAuthoritativeAgreement
<1>5. ASSUME NEW f \in Figures, FigureInventoryComplete(f) \/ FigureInventoryMissing(f)
      PROVE  \A p \in Parts : AgreementKept(p)
  BY <1>5, SetAllAgreement DEF FigureInventoryComplete, FigureInventoryMissing
<1> QED
  BY <1>1, <1>2, <1>3, <1>5 DEF FigureRequest

LEMMA TrashRequestAgreement ==
    ASSUME IInv, TrashRequest
    PROVE  \A p \in Parts : AgreementKept(p)
<1>1. ASSUME NEW s \in Sets, CreateSet(s) \/ TrashSet(s) \/ RestoreSet(s)
      PROVE  \A p \in Parts : AgreementKept(p)
  BY <1>1, UntouchedAgreement DEF CreateSet, TrashSet, RestoreSet, IInv
<1>2. ASSUME NEW s \in Sets, DeleteSet(s)
      PROVE  \A p \in Parts : AgreementKept(p)
  <2>1. \A p \in Parts : parts'[p] \in {parts[p], [parts[p] EXCEPT !.set = NoSet]}
    BY <1>2 DEF DeleteSet
  <2>2. \A p \in Parts : parts'[p].owned = parts[p].owned
    BY <2>1 DEF IInv, TypeOK, PartRow
  <2> QED BY <1>2, <2>2, WithoutAgreement DEF DeleteSet
<1>3. ASSUME NEW q \in Parts, TrashPart(q) \/ RestorePart(q)
      PROVE  \A p \in Parts : AgreementKept(p)
  <2>1. PICK state : parts' = [parts EXCEPT ![q].state = state]
    BY <1>3 DEF TrashPart, RestorePart
  <2>2. \A p \in Parts : parts'[p].owned = parts[p].owned
    BY <2>1 DEF IInv, TypeOK, PartRow
  <2> QED BY <1>3, <2>2, UntouchedAgreement DEF TrashPart, RestorePart, IInv
<1>4. ASSUME NEW q \in Parts, DeletePart(q)
      PROVE  \A p \in Parts : AgreementKept(p)
  <2>1. ~Audited(q)
    BY <1>4 DEF DeletePart, Audited
  <2>2. \A p \in Parts : p # q => parts'[p].owned = parts[p].owned
    BY <1>4 DEF DeletePart, IInv, TypeOK
  <2> QED BY <1>4, <2>1, <2>2, UntouchedAgreement DEF DeletePart, IInv
<1> QED
  BY <1>1, <1>2, <1>3, <1>4 DEF TrashRequest

\* Whatever the request, a mirror the audit finds in agreement stays so unless
\* a spare shares its identity, a second Part mirrors one of its positions, or
\* its positions are no longer the same.
THEOREM DivergenceIsCaused == Spec => DivergenceHasACause
<1>1. IInv /\ [Next]_vars => [\A p \in Parts : AgreementKept(p)]_vars
  BY QuantityRequestAgreement, PartRequestAgreement, PositionRequestAgreement,
     FigureRequestAgreement, TrashRequestAgreement DEF Next
<1> QED
  BY <1>1, InitIInv, StepIInv, PTL DEF Spec, DivergenceHasACause, AgreementKept

-----------------------------------------------------------------------------
(***************************************************************************)
(* The totals of the pages.                                                *)
(***************************************************************************)
CappedIn == [a \in Positions |-> Capped(a)]
MissingOf(book, S) == [s \in S |-> book[s].missing]
OwnedOf(book, S) == [s \in S |-> book[s].owned]
SumOfMissing(book, S) == MapThenSumSet(LAMBDA s : book[s].missing, S)
SumOfOwned(book, S) == MapThenSumSet(LAMBDA s : book[s].owned, S)
SumOfGroups(S) == MapThenSumSet(LAMBDA group : group[2], S)

LEMMA CappedIsTotal ==
    ASSUME NEW S \in SUBSET Positions
    PROVE  MapThenSumSet(Capped, S) = Total(CappedIn, S)
<1>1. ASSUME NEW iter
      PROVE  [t \in SUBSET S |-> IF t = {} THEN 0
                 ELSE Capped(Pick(t)) + iter[t \ {Pick(t)}]]
             = [t \in SUBSET S |-> Unfold(CappedIn, iter, t)]
  BY PickInSet DEF CappedIn, Unfold
<1>2. MapThenSumSet(Capped, S) = (CHOOSE iter : iter =
                 [t \in SUBSET S |-> IF t = {} THEN 0
                 ELSE Capped(Pick(t)) + iter[t \ {Pick(t)}]])[S]
  BY DEF MapThenSumSet, MapThenFoldSet, Pick
<1>3. (CHOOSE iter : iter =
                 [t \in SUBSET S |-> IF t = {} THEN 0
                 ELSE Capped(Pick(t)) + iter[t \ {Pick(t)}]]) = Iter(CappedIn, S)
  BY <1>1, Zenon DEF Iter, Solves
<1> QED BY <1>2, <1>3, TotalIsIter

LEMMA ShortByIsMissing == \A S : MapThenSumSet(ShortBy, S) = MissingSum(allocs, S)
BY DEF ShortBy, MissingSum, MapThenSumSet, MapThenFoldSet

LEMMA MissingOfIsTotal ==
    ASSUME NEW book, NEW S
    PROVE  SumOfMissing(book, S) = Total(MissingOf(book, S), S)
<1>1. ASSUME NEW iter
      PROVE  [t \in SUBSET S |-> IF t = {} THEN 0
                 ELSE book[Pick(t)].missing + iter[t \ {Pick(t)}]]
             = [t \in SUBSET S |-> Unfold(MissingOf(book, S), iter, t)]
  BY PickInSet DEF MissingOf, Unfold
<1>2. SumOfMissing(book, S) = (CHOOSE iter : iter =
                 [t \in SUBSET S |-> IF t = {} THEN 0
                 ELSE book[Pick(t)].missing + iter[t \ {Pick(t)}]])[S]
  BY DEF SumOfMissing, MapThenSumSet, MapThenFoldSet, Pick
<1>3. (CHOOSE iter : iter =
                 [t \in SUBSET S |-> IF t = {} THEN 0
                 ELSE book[Pick(t)].missing + iter[t \ {Pick(t)}]]) = Iter(MissingOf(book, S), S)
  BY <1>1, Zenon DEF Iter, Solves
<1> QED BY <1>2, <1>3, TotalIsIter

LEMMA OwnedOfIsTotal ==
    ASSUME NEW book, NEW S
    PROVE  SumOfOwned(book, S) = Total(OwnedOf(book, S), S)
<1>1. ASSUME NEW iter
      PROVE  [t \in SUBSET S |-> IF t = {} THEN 0
                 ELSE book[Pick(t)].owned + iter[t \ {Pick(t)}]]
             = [t \in SUBSET S |-> Unfold(OwnedOf(book, S), iter, t)]
  BY PickInSet DEF OwnedOf, Unfold
<1>2. SumOfOwned(book, S) = (CHOOSE iter : iter =
                 [t \in SUBSET S |-> IF t = {} THEN 0
                 ELSE book[Pick(t)].owned + iter[t \ {Pick(t)}]])[S]
  BY DEF SumOfOwned, MapThenSumSet, MapThenFoldSet, Pick
<1>3. (CHOOSE iter : iter =
                 [t \in SUBSET S |-> IF t = {} THEN 0
                 ELSE book[Pick(t)].owned + iter[t \ {Pick(t)}]]) = Iter(OwnedOf(book, S), S)
  BY <1>1, Zenon DEF Iter, Solves
<1> QED BY <1>2, <1>3, TotalIsIter

LEMMA SecondsIsTotal ==
    ASSUME NEW S
    PROVE  SumOfGroups(S) = Total(Seconds(S), S)
<1>1. ASSUME NEW iter
      PROVE  [t \in SUBSET S |-> IF t = {} THEN 0 ELSE Pick(t)[2] + iter[t \ {Pick(t)}]]
             = [t \in SUBSET S |-> Unfold(Seconds(S), iter, t)]
  BY PickInSet DEF Seconds, Unfold
<1>2. SumOfGroups(S) = (CHOOSE iter : iter =
                 [t \in SUBSET S |-> IF t = {} THEN 0
                 ELSE Pick(t)[2] + iter[t \ {Pick(t)}]])[S]
  BY DEF SumOfGroups, MapThenSumSet, MapThenFoldSet, Pick
<1>3. (CHOOSE iter : iter =
                 [t \in SUBSET S |-> IF t = {} THEN 0
                 ELSE Pick(t)[2] + iter[t \ {Pick(t)}]]) = Iter(Seconds(S), S)
  BY <1>1, Zenon DEF Iter, Solves
<1> QED BY <1>2, <1>3, TotalIsIter

\* What a position counts with in the three sums.
LEMMA CountsOfPosition ==
    ASSUME TypeOK, NEW a \in Positions
    PROVE  /\ RequiredIn(allocs)[a] = allocs[a].required /\ allocs[a].required \in Nat
           /\ MissingIn(allocs)[a] = ShortBy(a)
           /\ MissingIn(allocs)[a] \in Nat /\ CappedIn[a] \in Nat
           /\ RequiredIn(allocs)[a] = CappedIn[a] + MissingIn(allocs)[a]
           /\ Short(a) <=> MissingIn(allocs)[a] # 0
           /\ allocs[a].required = 0 => MissingIn(allocs)[a] = 0 /\ CappedIn[a] = 0
<1>1. allocs[a].required \in Nat /\ allocs[a].owned \in Nat
  BY DEF TypeOK, AllocRow
<1> QED BY <1>1 DEF RequiredIn, MissingIn, CappedIn, Capped, Short, ShortBy, Missing

LEMMA CountsOfSet ==
    ASSUME TypeOK, NEW S \in SUBSET Positions
    PROVE  /\ IsFiniteSet(S)
           /\ RequiredSum(allocs, S) = Total(RequiredIn(allocs), S)
           /\ MissingSum(allocs, S) = Total(MissingIn(allocs), S)
           /\ Total(MissingIn(allocs), S) \in Nat /\ Total(CappedIn, S) \in Nat
           /\ Total(RequiredIn(allocs), S) = Total(CappedIn, S) + Total(MissingIn(allocs), S)
<1>1. IsFiniteSet(S)
  BY KeysAssumption, FS_Subset
<1>2. \A a \in S : /\ MissingIn(allocs)[a] \in Nat /\ CappedIn[a] \in Nat
                   /\ RequiredIn(allocs)[a] = CappedIn[a] + MissingIn(allocs)[a]
  BY CountsOfPosition
<1>3. Total(MissingIn(allocs), S) \in Nat /\ Total(CappedIn, S) \in Nat
  BY <1>1, <1>2, TotalType
<1>4. \A a \in S : CappedIn[a] \in Int /\ MissingIn(allocs)[a] \in Int
  BY <1>2
<1>5. Total(RequiredIn(allocs), S) = Total(CappedIn, S) + Total(MissingIn(allocs), S)
  BY <1>1, <1>2, <1>4, TotalPlus
<1> QED BY <1>1, <1>3, <1>5, RequiredIsTotal, MissingIsTotal

\* Pieces are missing exactly where a position is short.
LEMMA MissingMeansShort ==
    ASSUME TypeOK, NEW S \in SUBSET Positions
    PROVE  Total(MissingIn(allocs), S) > 0 <=> \E a \in S : Short(a)
<1>1. IsFiniteSet(S) /\ Total(MissingIn(allocs), S) \in Nat
  BY CountsOfSet
<1>2. \A a \in S : MissingIn(allocs)[a] \in Nat /\ (Short(a) <=> MissingIn(allocs)[a] # 0)
  BY CountsOfPosition
<1>3. Total(MissingIn(allocs), S) = 0 => \A a \in S : MissingIn(allocs)[a] = 0
  BY <1>1, <1>2, TotalZero
<1>4. (\A a \in S : MissingIn(allocs)[a] = 0) => Total(MissingIn(allocs), S) = 0
  BY <1>1, TotalOfZeros
<1> QED BY <1>1, <1>2, <1>3, <1>4

\* What is not short adds nothing to the missing pieces.
LEMMA MissingOfShort ==
    ASSUME TypeOK, NEW S \in SUBSET Positions, NEW A \in SUBSET S,
           \A a \in S : Short(a) => a \in A
    PROVE  Total(MissingIn(allocs), S) = Total(MissingIn(allocs), A)
<1>1. IsFiniteSet(S) /\ \A a \in S : MissingIn(allocs)[a] \in Int
  BY CountsOfSet, CountsOfPosition
<1>2. \A a \in S \ A : MissingIn(allocs)[a] = 0
  BY CountsOfPosition
<1> QED BY <1>1, <1>2, TotalWithoutZeros

-----------------------------------------------------------------------------
(***************************************************************************)
(* The dashboard's positions, by set and by loose figure.                  *)
(***************************************************************************)
\* The foreign key of a component.
ComponentsHaveFigure ==
    \A a \in FigureParts : allocs[a].exists => figures[FigureOf[a]].exists

LiveSets == {s \in Sets : sets[s] = "live"}
LooseFigures == {f \in Figures : FigureShown(f) /\ figures[f].set = NoSet}
CountedRows(f) == {a \in FigureRows(f) : ~allocs[a].spare}
LoosePositions == {a \in DashboardPositions : HomeSet(a) = NoSet}

LEMMA LoosePositionsOfFigures ==
    ASSUME TypeOK, ComponentsHaveFigure
    PROVE  /\ \A a \in LoosePositions : a \in FigureParts /\ FigureOf[a] \in LooseFigures
           /\ \A f \in LooseFigures : \A a \in CountedRows(f) :
                allocs[a].required # 0 => a \in LoosePositions
<1>1. ASSUME NEW a \in LoosePositions
      PROVE  a \in FigureParts /\ FigureOf[a] \in LooseFigures
  <2>1. a \in Positions /\ allocs[a].exists /\ HomeSet(a) = NoSet
    BY DEF LoosePositions, DashboardPositions
  <2>2. a \notin SetItems
    BY <2>1, KeysAssumption DEF HomeSet
  <2>3. a \in FigureParts /\ FigureOf[a] \in Figures
    BY <2>1, <2>2, KeysAssumption DEF Positions
  <2> QED BY <2>1, <2>2, <2>3 DEF HomeSet, ComponentsHaveFigure, LooseFigures, FigureShown
<1>2. ASSUME NEW f \in LooseFigures, NEW a \in CountedRows(f), allocs[a].required # 0
      PROVE  a \in LoosePositions
  <2>1. a \in FigureParts /\ FigureOf[a] = f /\ allocs[a].exists /\ ~allocs[a].spare
    BY DEF CountedRows, FigureRows
  <2>2. a \in Positions /\ a \notin SetItems
    BY <2>1, KeysAssumption DEF Positions
  <2>3. HomeSet(a) = NoSet
    BY <2>1, <2>2 DEF HomeSet, LooseFigures
  <2>4. allocs[a].required > 0
    BY <1>2, <2>2, CountsOfPosition
  <2> QED BY <2>1, <2>2, <2>3, <2>4 DEF LoosePositions, DashboardPositions
<1> QED BY <1>1, <1>2

LEMMA TotalByHome ==
    ASSUME TypeOK, ComponentsHaveFigure, NEW g,
           \A a \in Positions : g[a] \in Nat /\ (allocs[a].required = 0 => g[a] = 0)
    PROVE  Total(g, DashboardPositions)
             = Total([s \in LiveSets |-> Total(g, SetAllocations(s))], LiveSets)
                 + Total([f \in LooseFigures |-> Total(g, CountedRows(f))], LooseFigures)
<1> DEFINE D == DashboardPositions
           E == D \ LoosePositions
           home == [a \in E |-> HomeSet(a)]
           figure == [a \in LoosePositions |-> FigureOf[a]]
<1>0. /\ D \subseteq Positions /\ LoosePositions \subseteq D
      /\ \A f : CountedRows(f) \subseteq Positions
      /\ \A s : SetAllocations(s) \subseteq Positions
  BY DEF DashboardPositions, LoosePositions, CountedRows, FigureRows, SetAllocations, Positions
<1>1. \A A \in SUBSET Positions : IsFiniteSet(A) /\ \A a \in A : g[a] \in Int
  BY CountsOfSet
<1>2. IsFiniteSet(LiveSets) /\ IsFiniteSet(LooseFigures)
  BY KeysAssumption, FS_Subset DEF LiveSets, LooseFigures
<1>3. Total(g, D) = Total(g, LoosePositions) + Total(g, E)
  BY <1>0, <1>1, TotalSplit
<1>4. Total(g, E) = Total([s \in LiveSets |-> Total(g, SetAllocations(s))], LiveSets)
  <2>1. \A a \in E : home[a] \in LiveSets
    BY DEF LoosePositions, DashboardPositions, LiveSets, Live
  <2>2. ASSUME NEW s \in LiveSets PROVE Bucket(E, home, s) = SetAllocations(s)
    <3>1. s \in Sets /\ sets[s] = "live" /\ s # NoSet
      BY KeysAssumption DEF LiveSets
    <3> QED BY <3>1 DEF Bucket, SetAllocations, DashboardPositions, LoosePositions, Live
  <2> HIDE DEF E, home
  <2>3. E \in SUBSET Positions
    BY <1>0 DEF E
  <2>4. Total(g, E) = Total(BucketTotals(g, E, home, LiveSets), LiveSets)
    BY <1>1, <1>2, <2>1, <2>3, TotalByBuckets
  <2> QED BY <2>2, <2>4 DEF BucketTotals
<1>5. Total(g, LoosePositions)
        = Total([f \in LooseFigures |-> Total(g, CountedRows(f))], LooseFigures)
  <2>1. \A a \in LoosePositions : figure[a] \in LooseFigures
    BY LoosePositionsOfFigures
  <2>2. ASSUME NEW f \in LooseFigures
        PROVE  Total(g, Bucket(LoosePositions, figure, f)) = Total(g, CountedRows(f))
    <3>1. Bucket(LoosePositions, figure, f) \subseteq CountedRows(f)
      BY LoosePositionsOfFigures
         DEF Bucket, CountedRows, FigureRows, LoosePositions, DashboardPositions
    <3>2. \A a \in CountedRows(f) \ Bucket(LoosePositions, figure, f) : g[a] = 0
      BY <1>0, LoosePositionsOfFigures DEF Bucket, CountedRows, FigureRows
    <3>3. IsFiniteSet(CountedRows(f)) /\ \A a \in CountedRows(f) : g[a] \in Int
      BY <1>0, <1>1
    <3> HIDE DEF figure
    <3> QED BY <3>1, <3>2, <3>3, TotalWithoutZeros
  <2> HIDE DEF figure
  <2>3. LoosePositions \in SUBSET Positions
    BY <1>0
  <2>4. Total(g, LoosePositions)
          = Total(BucketTotals(g, LoosePositions, figure, LooseFigures), LooseFigures)
    BY <1>1, <1>2, <2>1, <2>3, TotalByBuckets
  <2> QED BY <2>2, <2>4 DEF BucketTotals
<1>6. Total(g, E) \in Nat /\ Total(g, LoosePositions) \in Nat
  BY <1>0, CountsOfSet, TotalType
<1> QED BY <1>3, <1>4, <1>5, <1>6

\* What the books say of a set and of a figure, as totals.
LEMMA BookOfSet ==
    ASSUME TypeOK, NEW s \in Sets
    PROVE  /\ SetAllocations(s) \in SUBSET Positions
           /\ Completeness(s).missing = Total(MissingIn(allocs), SetAllocations(s))
           /\ Completeness(s).owned = Total(CappedIn, SetAllocations(s))
           /\ Completeness(s).key = "incomplete" <=> \E a \in SetAllocations(s) : Short(a)
<1>1. SetAllocations(s) \in SUBSET Positions
  BY DEF SetAllocations
<1> DEFINE R == Total(RequiredIn(allocs), SetAllocations(s))
           M == Total(MissingIn(allocs), SetAllocations(s))
           C == Total(CappedIn, SetAllocations(s))
<1>2. /\ RequiredSum(allocs, SetAllocations(s)) = R /\ MissingSum(allocs, SetAllocations(s)) = M
      /\ M \in Nat /\ C \in Nat /\ R = C + M
  BY <1>1, CountsOfSet
<1>3. M > 0 <=> \E a \in SetAllocations(s) : Short(a)
  BY <1>1, MissingMeansShort
<1> HIDE DEF R, M, C
<1>4. /\ Completeness(s).missing = M /\ Completeness(s).owned = R - M
      /\ Completeness(s).key = (IF R <= 0 THEN "unknown"
                                ELSE IF M > 0 THEN "incomplete" ELSE "complete")
  BY <1>2 DEF Completeness
<1>5. Completeness(s).owned = C
  BY <1>2, <1>4
<1>6. Completeness(s).key = "incomplete" <=> M > 0
  BY <1>2, <1>4
<1> QED BY <1>1, <1>3, <1>4, <1>5, <1>6 DEF M, C

LEMMA RecordOfFigure ==
    ASSUME TypeOK, NEW f \in Figures
    PROVE  /\ FigureRecord(f).missing = Total(MissingIn(allocs), CountedRows(f))
           /\ FigureRecord(f).owned = Total(CappedIn, CountedRows(f))
           /\ FigureRecord(f).status = FigureOrder(f)
<1>1. CountedRows(f) \in SUBSET Positions
  BY DEF CountedRows, FigureRows, Positions
<1> DEFINE R == Total(RequiredIn(allocs), CountedRows(f))
           M == Total(MissingIn(allocs), CountedRows(f))
           C == Total(CappedIn, CountedRows(f))
<1>2. /\ RequiredSum(allocs, CountedRows(f)) = R /\ MapThenSumSet(Capped, CountedRows(f)) = C
      /\ M \in Nat /\ C \in Nat /\ R = C + M
  BY <1>1, CountsOfSet, CappedIsTotal
<1>3. FigureRows(f) = {} => R = 0
  <2>1. Total(RequiredIn(allocs), {}) = 0
    BY TotalUnfolds, FS_EmptySet
  <2>2. FigureRows(f) = {} => CountedRows(f) = {}
    BY DEF CountedRows
  <2> QED BY <2>1, <2>2
<1> HIDE DEF R, M, C
<1>4. Missing(R, C) = M
  BY <1>2 DEF Missing
<1>5. /\ FigureRecord(f).missing = Missing(R, C) /\ FigureRecord(f).owned = C
      /\ FigureRecord(f).status = (CASE FigureRows(f) = {} \/ R = 0 -> "unknown"
                                     [] Missing(R, C) = 0 -> "complete"
                                     [] C = 0 -> "missing"
                                     [] OTHER -> "partial")
  BY <1>2 DEF FigureRecord, CountedRows
<1>6. FigureOrder(f) = (CASE R = 0 -> "unknown"
                          [] Missing(R, C) = 0 -> "complete"
                          [] C = 0 -> "missing"
                          [] OTHER -> "partial")
  BY <1>2 DEF FigureOrder, CountedRows
<1>7. FigureRecord(f).status = FigureOrder(f)
  BY <1>3, <1>5, <1>6
<1> QED BY <1>4, <1>5, <1>7 DEF M, C

\* The totals of the dashboard are those of the sets and of the loose figures.
LEMMA DashboardAddsUp ==
    ASSUME TypeOK, ComponentsHaveFigure,
           NEW book, book = [s \in LiveSets |-> Completeness(s)],
           NEW record, record = [f \in {g \in Figures : FigureShown(g)} |-> FigureRecord(f)]
    PROVE  /\ Dashboard.missing = SumOfMissing(book, LiveSets)
                                   + SumOfMissing(record, LooseFigures)
           /\ Dashboard.owned = SumOfOwned(book, LiveSets)
                                 + SumOfOwned(record, LooseFigures)
           /\ Dashboard.owned + Dashboard.missing = Dashboard.required
<1>1. DashboardPositions \in SUBSET Positions
  BY DEF DashboardPositions
<1>2. /\ Dashboard.missing = Total(MissingIn(allocs), DashboardPositions)
      /\ Dashboard.owned = Total(CappedIn, DashboardPositions)
      /\ Dashboard.required = Total(RequiredIn(allocs), DashboardPositions)
  BY <1>1, CountsOfSet, CappedIsTotal DEF Dashboard
<1>3. /\ LiveSets \subseteq Sets /\ LooseFigures \subseteq {g \in Figures : FigureShown(g)}
  BY DEF LiveSets, LooseFigures
<1>4. Total(MissingIn(allocs), DashboardPositions)
        = Total(MissingOf(book, LiveSets), LiveSets)
            + Total(MissingOf(record, LooseFigures), LooseFigures)
  <2>1. \A s \in LiveSets : MissingOf(book, LiveSets)[s]
            = [t \in LiveSets |-> Total(MissingIn(allocs), SetAllocations(t))][s]
    BY <1>3, BookOfSet DEF MissingOf
  <2>2. \A f \in LooseFigures : MissingOf(record, LooseFigures)[f]
            = [g \in LooseFigures |-> Total(MissingIn(allocs), CountedRows(g))][f]
    BY <1>3, RecordOfFigure DEF MissingOf
  <2>3. \A a \in Positions : /\ MissingIn(allocs)[a] \in Nat
                             /\ allocs[a].required = 0 => MissingIn(allocs)[a] = 0
    BY CountsOfPosition
  <2>4. /\ Total(MissingOf(book, LiveSets), LiveSets)
             = Total([t \in LiveSets |-> Total(MissingIn(allocs), SetAllocations(t))], LiveSets)
        /\ Total(MissingOf(record, LooseFigures), LooseFigures)
             = Total([g \in LooseFigures |-> Total(MissingIn(allocs), CountedRows(g))],
                     LooseFigures)
    BY <2>1, <2>2, TotalCongruence
  <2> QED BY <2>3, <2>4, TotalByHome
<1>5. Total(CappedIn, DashboardPositions)
        = Total(OwnedOf(book, LiveSets), LiveSets)
            + Total(OwnedOf(record, LooseFigures), LooseFigures)
  <2>1. \A s \in LiveSets : OwnedOf(book, LiveSets)[s]
            = [t \in LiveSets |-> Total(CappedIn, SetAllocations(t))][s]
    BY <1>3, BookOfSet DEF OwnedOf
  <2>2. \A f \in LooseFigures : OwnedOf(record, LooseFigures)[f]
            = [g \in LooseFigures |-> Total(CappedIn, CountedRows(g))][f]
    BY <1>3, RecordOfFigure DEF OwnedOf
  <2>3. \A a \in Positions : CappedIn[a] \in Nat /\ (allocs[a].required = 0 => CappedIn[a] = 0)
    BY CountsOfPosition
  <2>4. /\ Total(OwnedOf(book, LiveSets), LiveSets)
             = Total([t \in LiveSets |-> Total(CappedIn, SetAllocations(t))], LiveSets)
        /\ Total(OwnedOf(record, LooseFigures), LooseFigures)
             = Total([g \in LooseFigures |-> Total(CappedIn, CountedRows(g))], LooseFigures)
    BY <2>1, <2>2, TotalCongruence
  <2> QED BY <2>3, <2>4, TotalByHome
<1>6. /\ Total(RequiredIn(allocs), DashboardPositions)
           = Total(CappedIn, DashboardPositions) + Total(MissingIn(allocs), DashboardPositions)
      /\ Total(CappedIn, DashboardPositions) \in Nat
      /\ Total(MissingIn(allocs), DashboardPositions) \in Nat
  BY <1>1, CountsOfSet
<1>7. Dashboard.missing = SumOfMissing(book, LiveSets)
                            + SumOfMissing(record, LooseFigures)
  BY <1>2, <1>4, MissingOfIsTotal
<1>8. Dashboard.owned = SumOfOwned(book, LiveSets)
                          + SumOfOwned(record, LooseFigures)
  BY <1>2, <1>5, OwnedOfIsTotal
<1> QED BY <1>2, <1>6, <1>7, <1>8

\* The top shortages add up to the dashboard's missing pieces.
LEMMA ShortagesAddUp ==
    ASSUME TypeOK
    PROVE  SumOfGroups(Shortages) = Dashboard.missing
<1> DEFINE D == DashboardPositions
           short == {a \in D : Short(a)}
           key == [a \in short |-> ShortageKey(a)]
           K == {key[a] : a \in short}
           F == BucketTotals(MissingIn(allocs), short, key, K)
<1>1. D \in SUBSET Positions /\ short \in SUBSET D /\ short \in SUBSET Positions
  BY DEF DashboardPositions
<1>2. /\ IsFiniteSet(short) /\ \A a \in short : MissingIn(allocs)[a] \in Int
      /\ \A a \in short : key[a] \in K
  BY <1>1, CountsOfSet, CountsOfPosition
<1>3. IsFiniteSet(K)
  <2> HIDE DEF short, key
  <2> QED BY <1>2, FiniteImage
<1>4. \A k \in K : /\ Bucket(short, key, k) = {a \in short : ShortageKey(a) = k}
                   /\ Bucket(short, key, k) \in SUBSET Positions
  BY <1>1 DEF Bucket
<1>5. \A k \in K : /\ F[k] = MapThenSumSet(ShortBy, {a \in short : ShortageKey(a) = k})
                   /\ F[k] \in Int
  <2>1. ASSUME NEW k \in K
        PROVE  /\ F[k] = MapThenSumSet(ShortBy, {a \in short : ShortageKey(a) = k})
               /\ F[k] \in Int
    <3> DEFINE B == {a \in short : ShortageKey(a) = k}
    <3>1. B \in SUBSET Positions /\ F[k] = Total(MissingIn(allocs), B)
      BY <1>4 DEF BucketTotals
    <3> HIDE DEF B, F
    <3>2. MapThenSumSet(ShortBy, B) = Total(MissingIn(allocs), B)
          /\ Total(MissingIn(allocs), B) \in Int
      BY <3>1, ShortByIsMissing, CountsOfSet
    <3> QED BY <3>1, <3>2 DEF B
  <2> QED BY <2>1
<1>6. Shortages = Pairs(F, K)
  <2>1. K = {ShortageKey(a) : a \in short}
    OBVIOUS
  <2>2. Shortages = {<<k, MapThenSumSet(ShortBy, {a \in short : ShortageKey(a) = k})>> : k \in K}
    BY <2>1 DEF Shortages
  <2> HIDE DEF F, K, short
  <2> QED BY <1>5, <2>2 DEF Pairs
<1>7. Total(Seconds(Shortages), Shortages) = Total(F, K)
  <2> HIDE DEF F, K
  <2> QED BY <1>3, <1>5, <1>6, TotalOfPairs
<1>8. Total(F, K) = Total(MissingIn(allocs), short)
  <2> HIDE DEF K, short, key
  <2> QED BY <1>2, <1>3, TotalByBuckets
<1>9. Total(MissingIn(allocs), D) = Total(MissingIn(allocs), short)
  <2>1. \A a \in D : Short(a) => a \in short
    OBVIOUS
  <2> HIDE DEF D, short
  <2> QED BY <1>1, <2>1, MissingOfShort
<1>10. Dashboard.missing = Total(MissingIn(allocs), D)
  BY <1>1, CountsOfSet DEF Dashboard
<1> HIDE DEF F, K
<1> QED BY <1>7, <1>8, <1>9, <1>10, SecondsIsTotal

\* The filter by all colors finds the incomplete sets, and every incomplete
\* set is listed under an offered color.
LEMMA ColorsFindIncomplete ==
    ASSUME TypeOK
    PROVE  LET incomplete == {s \in LiveSets : Completeness(s).key = "incomplete"}
           IN  /\ SetsMissingColors(Colors) = incomplete
               /\ \A s \in incomplete : \E color \in MissingColors :
                    s \in SetList("incomplete", {color})
<1>1. \A s \in LiveSets : s \in Sets /\ sets[s] = "live"
  BY DEF LiveSets
<1>2. Colors # {} /\ \A a \in Positions : allocs[a].ident.color \in Colors
  BY FormsAssumption DEF Colors, TypeOK, AllocRow
<1>3. \A s \in Sets : /\ SetAllocations(s) \subseteq Positions
                      /\ Completeness(s).key = "incomplete" <=> \E a \in SetAllocations(s) : Short(a)
  BY BookOfSet
<1>4. SetsMissingColors(Colors) = {s \in LiveSets : Completeness(s).key = "incomplete"}
  BY <1>2, <1>3 DEF SetsMissingColors, LiveSets
<1>5. ASSUME NEW s \in LiveSets, Completeness(s).key = "incomplete"
      PROVE  \E color \in MissingColors : s \in SetList("incomplete", {color})
  <2>1. PICK a \in SetAllocations(s) : Short(a)
    BY <1>1, <1>3, <1>5
  <2>2. a \in Positions /\ allocs[a].exists /\ ~allocs[a].spare /\ HomeSet(a) = s
    BY DEF SetAllocations
  <2>3. allocs[a].ident.color \in MissingColors
    BY <1>1, <2>1, <2>2 DEF MissingColors, Live
  <2>4. s \in SetsMissingColors({allocs[a].ident.color})
    BY <1>1, <2>1 DEF SetsMissingColors
  <2>5. s \in SetList("incomplete", {allocs[a].ident.color})
    BY <1>5, <2>4 DEF SetList
  <2> QED BY <2>3, <2>5
<1> QED BY <1>4, <1>5

\* The labels of a set ask for its missing pieces; its page shows those of its
\* items and the open spares.
LEMMA LabelsAskForMissing ==
    ASSUME TypeOK, NEW s \in LiveSets
    PROVE  /\ InventoryStats(s).missing =
                MapThenSumSet(ShortBy, MissingPartLabels({s}, {}) \cap SetItems)
                  + MapThenSumSet(ShortBy, {a \in ItemsOf(s) : allocs[a].spare})
           /\ MapThenSumSet(ShortBy, MissingPartLabels({s}, {})) = Completeness(s).missing
<1> DEFINE labels == MissingPartLabels({s}, {})
           items == ItemsOf(s)
           spares == {a \in items : allocs[a].spare}
<1>1. s \in Sets /\ sets[s] = "live" /\ s # NoSet
  BY KeysAssumption DEF LiveSets
<1>2. \A a \in Positions : /\ ShortBy(a) \in Nat /\ (ShortBy(a) > 0 <=> Short(a))
                           /\ Short(a) => allocs[a].required > 0
  BY DEF ShortBy, Short, Missing, TypeOK, AllocRow
<1>3. labels = {a \in Positions : /\ allocs[a].exists /\ HomeSet(a) = s
                                  /\ ~allocs[a].spare /\ Short(a)}
  BY <1>1, <1>2 DEF MissingPartLabels
<1>4. /\ labels \in SUBSET SetAllocations(s) /\ SetAllocations(s) \in SUBSET Positions
      /\ \A a \in SetAllocations(s) : Short(a) => a \in labels
  BY <1>1, <1>2, <1>3 DEF SetAllocations
<1>5. /\ items \in SUBSET Positions /\ spares \in SUBSET items
      /\ labels \cap SetItems \in SUBSET (items \ spares)
      /\ \A a \in items \ spares : Short(a) => a \in labels \cap SetItems
  BY <1>1, <1>3 DEF ItemsOf, HomeSet, Positions
<1>6. InventoryStats(s).missing = MissingSum(allocs, items)
  BY DEF InventoryStats
<1> HIDE DEF labels, items, spares
<1>7. Total(MissingIn(allocs), items)
        = Total(MissingIn(allocs), spares) + Total(MissingIn(allocs), items \ spares)
  <2>1. IsFiniteSet(items) /\ \A a \in items : MissingIn(allocs)[a] \in Int
    BY <1>5, CountsOfSet, CountsOfPosition
  <2> QED BY <1>5, <2>1, TotalSplit
<1>8. Total(MissingIn(allocs), items \ spares) = Total(MissingIn(allocs), labels \cap SetItems)
  BY <1>5, MissingOfShort
<1>9. Total(MissingIn(allocs), SetAllocations(s)) = Total(MissingIn(allocs), labels)
  BY <1>4, MissingOfShort
<1>10. \A A \in SUBSET Positions : /\ MapThenSumSet(ShortBy, A) = Total(MissingIn(allocs), A)
                                   /\ MissingSum(allocs, A) = Total(MissingIn(allocs), A)
                                   /\ Total(MissingIn(allocs), A) \in Nat
  BY ShortByIsMissing, CountsOfSet
<1>11. /\ labels \in SUBSET Positions /\ labels \cap SetItems \in SUBSET Positions
       /\ spares \in SUBSET Positions
  BY <1>4, <1>5
<1>12. MissingSum(allocs, items) = MapThenSumSet(ShortBy, labels \cap SetItems)
                                     + MapThenSumSet(ShortBy, spares)
  BY <1>5, <1>7, <1>8, <1>10, <1>11
<1>13. MapThenSumSet(ShortBy, labels) = Completeness(s).missing
  BY <1>1, <1>9, <1>10, <1>11, BookOfSet
<1> QED BY <1>6, <1>12, <1>13 DEF labels, items, spares

LEMMA RowsMakeBooksAgree == ASSUME TypeOK, ComponentsHaveFigure PROVE BooksAgree
<1> DEFINE book == [s \in {t \in Sets : sets[t] = "live"} |-> Completeness(s)]
           record == [f \in {g \in Figures : FigureShown(g)} |-> FigureRecord(f)]
           loose == {f \in DOMAIN record : figures[f].set = NoSet}
           incomplete == {s \in DOMAIN book : book[s].key = "incomplete"}
<1>1. /\ DOMAIN book = LiveSets /\ loose = LooseFigures
      /\ \A s \in LiveSets : book[s] = Completeness(s)
      /\ book = [s \in LiveSets |-> Completeness(s)]
      /\ incomplete = {s \in LiveSets : Completeness(s).key = "incomplete"}
  BY DEF LiveSets, LooseFigures
<1>2. \A f \in DOMAIN record : record[f].status = FigureOrder(f)
  BY RecordOfFigure
<1>3. /\ Dashboard.missing = SumOfMissing(book, DOMAIN book) + SumOfMissing(record, loose)
      /\ Dashboard.owned = SumOfOwned(book, DOMAIN book) + SumOfOwned(record, loose)
      /\ Dashboard.owned + Dashboard.missing = Dashboard.required
  <2>1. record = [f \in {g \in Figures : FigureShown(g)} |-> FigureRecord(f)]
    OBVIOUS
  <2> HIDE DEF book, record, loose
  <2>2. /\ Dashboard.missing = SumOfMissing(book, LiveSets) + SumOfMissing(record, LooseFigures)
        /\ Dashboard.owned = SumOfOwned(book, LiveSets) + SumOfOwned(record, LooseFigures)
        /\ Dashboard.owned + Dashboard.missing = Dashboard.required
    BY <1>1, <2>1, DashboardAddsUp
  <2> QED BY <1>1, <2>2
<1>4. /\ SetsMissingColors(Colors) = incomplete
      /\ \A s \in incomplete : \E color \in MissingColors : s \in SetList("incomplete", {color})
  BY <1>1, ColorsFindIncomplete
<1>5. \A s \in DOMAIN book :
        /\ InventoryStats(s).missing =
             MapThenSumSet(ShortBy, MissingPartLabels({s}, {}) \cap SetItems)
               + MapThenSumSet(ShortBy, {a \in ItemsOf(s) : allocs[a].spare})
        /\ MapThenSumSet(ShortBy, MissingPartLabels({s}, {})) = book[s].missing
  BY <1>1, LabelsAskForMissing
<1> QED BY <1>2, <1>3, <1>4, <1>5, ShortagesAddUp, Zenon
        DEF BooksAgree, SumOfMissing, SumOfOwned, SumOfGroups
=============================================================================
