--------------------------- MODULE Reconciliation ---------------------------
(***************************************************************************)
(* The repair of Part mirrors that disagree with their positions           *)
(* (apps/catalog/owned_quantity_reconciliation.py and the command          *)
(* reconcile_owned_quantity_consistency --apply), among the requests of    *)
(* CatalogQuantities.  The command classifies what diverges, and then, in  *)
(* a transaction that locks the rows, classifies again and writes only if  *)
(* nothing it printed has changed.  A side of a divergence is proven by    *)
(* the newest audit event that recorded an owned amount for one of its     *)
(* rows; such events come from three requests and expire.                  *)
(***************************************************************************)
EXTENDS CatalogProperties, Sequences

CONSTANTS
    AskedFilters, \* rows and sets a command is restricted to, NoSet for no restriction
    MaxRequests   \* requests between the two classifications (bounds the model)

ASSUME RowsAssumption ==
    /\ Parts \cap Positions = {} /\ NoSet \notin Parts \cup Positions
    /\ AskedFilters \subseteq {NoSet} \cup Parts \cup Sets

VARIABLES
    edits,   \* newest quantity event of each row, oldest first
    plan,    \* what the first classification printed, while the command runs
    outcome  \* how the last run ended

reconcileVars == <<sets, figures, allocs, parts, edits, plan, outcome>>

Idle == [pending |-> FALSE, filter |-> NoSet, resolve |-> FALSE, requests |-> 0,
         tokens |-> [p \in {} |-> NoSet]]
Ended(how, unresolved) == [told |-> how, filter |-> plan.filter, unresolved |-> unresolved]
NotEnded == [told |-> "none", filter |-> NoSet, unresolved |-> {}]

-----------------------------------------------------------------------------
(***************************************************************************)
(* The audit events.  An event is [row, value, fresh]; fresh says that it  *)
(* was recorded after the first classification, so it is another event     *)
(* than the one printed even if row and value are the same.                *)
(***************************************************************************)

\* The events of these rows, in their order.
EventsOf(events, rows) ==
    LET kept[i \in 0..Len(events)] ==
          IF i = 0 THEN <<>>
          ELSE IF events[i].row \in rows THEN Append(kept[i - 1], events[i]) ELSE kept[i - 1]
    IN  kept[Len(events)]

\* The event becomes the newest of its row.
Recorded(row, quantity) ==
    Append(EventsOf(edits, (Parts \cup Positions) \ {row}),
           [row |-> row, value |-> quantity, fresh |-> TRUE])

Printed(events) == [i \in DOMAIN events |-> [events[i] EXCEPT !.fresh = FALSE]]

RowStored(row) == IF row \in Parts THEN parts[row].state # "absent" ELSE allocs[row].exists

StoredRows == {row \in Parts \cup Positions : RowStored(row)}

\* What a row owns at present.
Owned(row) == IF row \in Parts THEN parts[row].owned ELSE allocs[row].owned

-----------------------------------------------------------------------------
(***************************************************************************)
(* Classification.                                                         *)
(***************************************************************************)

\* --part-id or --set-number; without either every row of the owner.
InScope(p, filter) == filter \in {NoSet, p, parts[p].set}

Group(p) == Matching(allocs, parts[p], FALSE)

NoEvent == [row |-> NoSet, value |-> 0, fresh |-> FALSE]

\* The newest event of the Part and of the positions it mirrors.
Deciding(p) ==
    LET known == {i \in DOMAIN edits : edits[i].row \in {p} \cup Group(p)}
    IN  IF known = {} THEN NoEvent ELSE edits[CHOOSE i \in known : \A j \in known : j <= i]

\* The event still shows what its row owns.
Stands(e) == e.row # NoSet /\ e.value = Owned(e.row)

\* Seeded faults: a total is handed to the position whatever it requires; an
\* event of the position proves the Part.
PartIsProvenUnbounded(p) ==
    /\ Deciding(p).row = p /\ Stands(Deciding(p))
    /\ Cardinality(Group(p)) = 1

PartIsProvenByAny(p) ==
    /\ Stands(Deciding(p))
    /\ Cardinality(Group(p)) = 1
    /\ \A a \in Group(p) : parts[p].owned <= allocs[a].required

\* A Part's total can only be handed to one position that requires as much.
PartIsProven(p) ==
    /\ Deciding(p).row = p /\ Stands(Deciding(p))
    /\ Cardinality(Group(p)) = 1
    /\ \A a \in Group(p) : Deciding(p).value <= allocs[a].required

AllocationIsProven(p) == Deciding(p).row \in Group(p) /\ Stands(Deciding(p))

Classification(p, resolve) ==
    CASE Agrees(p) -> "equal"
      [] ~Agrees(p) /\ PartIsProven(p) -> "part"
      [] ~Agrees(p) /\ AllocationIsProven(p) -> "allocation"
      [] OTHER -> IF resolve THEN "approved" ELSE "ambiguous"

WouldWrite(class) == class \in {"part", "allocation", "approved"}

FinalOwned(p, class) ==
    IF class = "part" THEN parts[p].owned ELSE OwnedSum(allocs, Group(p))

\* A row of the plan: the state token, and the amount it proposes.
Token(p, resolve) ==
    LET class == Classification(p, resolve)
    IN  [quantity |-> parts[p].quantity, owned |-> parts[p].owned,
         rows |-> [a \in Group(p) |-> <<allocs[a].required, allocs[a].owned>>],
         class |-> class, event |-> Deciding(p), final |-> FinalOwned(p, class)]

\* The rows that the first classification prints.
Divergent(filter) == {p \in Parts : Audited(p) /\ InScope(p, filter) /\ ~Agrees(p)}

-----------------------------------------------------------------------------
(***************************************************************************)
(* The command.                                                            *)
(***************************************************************************)

\* handle(), up to the call of apply_reconciliation
Classify(filter, resolve) ==
    /\ ~plan.pending
    /\ edits' = Printed(edits)
    /\ plan' = [pending |-> TRUE, filter |-> filter, resolve |-> resolve, requests |-> 0,
                tokens |-> [p \in Divergent(filter) |->
                              [Token(p, resolve) EXCEPT !.event.fresh = FALSE]]]
    /\ outcome' = NotEnded
    /\ UNCHANGED vars

Candidates == {p \in DOMAIN plan.tokens : WouldWrite(plan.tokens[p].class)}

\* Seeded fault: the second classification is not compared with the first.
NothingChangedUnchecked ==
    \A p \in DOMAIN plan.tokens : Audited(p) /\ InScope(p, plan.filter)

\* current.get(identifier) == token, for every row that was printed.
NothingChanged ==
    \A p \in DOMAIN plan.tokens :
        Audited(p) /\ InScope(p, plan.filter) /\ Token(p, plan.resolve) = plan.tokens[p]

\* A row that would be written now but was not printed is not among the locked
\* Parts: KeyError, and the transaction is rolled back.
Unlocked ==
    {p \in Divergent(plan.filter) \ Candidates : WouldWrite(Classification(p, plan.resolve))}

\* Seeded fault: only the quantity is repaired.
RepairedQuantityOnly(p) ==
    [parts[p] EXCEPT !.quantity = Larger(RequiredSum(allocs, Group(p)), parts[p].owned)]

\* quantity, owned and the marker of a written Part; its status stays.
Repaired(p) ==
    LET final == FinalOwned(p, Classification(p, plan.resolve))
    IN  [parts[p] EXCEPT !.quantity = Larger(RequiredSum(allocs, Group(p)), final),
                         !.owned = final,
                         !.present = ExpectedPresent(final, parts[p].unassigned)]

\* The Parts whose total goes to position a; the one written last stays.
Givers(a) ==
    {p \in Candidates : Classification(p, plan.resolve) = "part" /\ a \in Group(p)}

\* Nothing to write: returns before it locks or looks again.
ApplyNothing ==
    /\ plan.pending
    /\ Candidates = {}
    /\ plan' = Idle
    /\ outcome' = Ended("nothing", {})
    /\ UNCHANGED <<vars, edits>>

\* apply_reconciliation, Parts of one set in the order of their primary keys
Apply ==
    /\ plan.pending
    /\ Candidates # {}
    /\ NothingChanged /\ Unlocked = {}
    /\ parts' = [p \in Parts |-> IF p \in Candidates THEN Repaired(p) ELSE parts[p]]
    /\ \E order \in Orders(Candidates) :
         allocs' = [a \in Positions |->
                      IF Givers(a) = {} THEN allocs[a]
                      ELSE [allocs[a] EXCEPT !.owned =
                              parts[CHOOSE p \in Givers(a) :
                                      \A q \in Givers(a) : order[q] <= order[p]].owned]]
    /\ plan' = Idle
    /\ outcome' = Ended("applied", {p \in Divergent(plan.filter) :
                                      ~WouldWrite(Classification(p, plan.resolve))})
    /\ UNCHANGED <<sets, figures, edits>>

\* CommandError, or the KeyError: no writes applied.
Refuse ==
    /\ plan.pending
    /\ Candidates # {} /\ ~(NothingChanged /\ Unlocked = {})
    /\ plan' = Idle
    /\ outcome' = Ended("refused", {})
    /\ UNCHANGED <<vars, edits>>

-----------------------------------------------------------------------------
(***************************************************************************)
(* The requests of the catalog, and the expiry of audit events.            *)
(***************************************************************************)

\* One more request while the command runs.
Passes ==
    /\ plan.pending => plan.requests < MaxRequests
    /\ plan' = IF plan.pending THEN [plan EXCEPT !.requests = @ + 1] ELSE plan
    /\ outcome' = NotEnded

RecordedRequest(row, quantity) ==
    /\ Passes
    /\ QuantityRequest(row, quantity)
    /\ edits' = Recorded(row, quantity)

\* A row that is gone takes its events out of sight: keys are never used again.
UnrecordedRequest ==
    /\ Passes
    /\ PartRequest \/ PositionRequest \/ FigureRequest \/ TrashRequest
    /\ edits' = EventsOf(edits, StoredRows')

\* cleanup_expired_personal_data: the oldest events reach their retention.
ExpireEdits ==
    /\ edits # <<>>
    /\ Passes
    /\ edits' = Tail(edits)
    /\ UNCHANGED vars

ReconcileInit == Init /\ edits = <<>> /\ plan = Idle /\ outcome = NotEnded

ReconcileNext ==
    \/ \E row \in Parts \cup Positions, quantity \in AskedQuantities :
         RecordedRequest(row, quantity)
    \/ UnrecordedRequest
    \/ ExpireEdits
    \/ \E filter \in AskedFilters, resolve \in BOOLEAN :
         Classify(filter, resolve)
    \/ ApplyNothing \/ Apply \/ Refuse

ReconcileSpec == ReconcileInit /\ [][ReconcileNext]_reconcileVars
-----------------------------------------------------------------------------
\* The catalog keeps its types, the events are of stored rows, one per row, and
\* the plan is about Parts.
ReconcileTypeOK ==
    /\ TypeOK
    /\ \A i \in DOMAIN edits : RowStored(edits[i].row) /\ edits[i].value \in Nat
    /\ \A i, j \in DOMAIN edits : edits[i].row = edits[j].row => i = j
    /\ DOMAIN plan.tokens \subseteq Parts
    /\ outcome.told \in {"none", "nothing", "applied", "refused"}

\* What a repair writes with bulk_update, past every form and service, is as
\* sound as what they write: the marker, the constraint on the Part, and no
\* position that owns more than it requires.
PositionsWithinRequirement ==
    \A a \in Positions : allocs[a].exists => allocs[a].owned <= allocs[a].required
RowsStaySound ==
    ReconcileTypeOK /\ PresenceMarker /\ OwnedWithinQuantity /\ PositionsWithinRequirement

\* A run that applies changes exactly what was printed: a Part gets the amount
\* printed for it, a position the amount of a printed Part, and the amounts they
\* had were the printed ones, whatever was requested since the first look.
AppliesWhatWasPrinted ==
    [][outcome'.told = "applied" /\ plan.pending =>
        /\ \A p \in Parts : parts'[p] # parts[p] =>
             /\ p \in DOMAIN plan.tokens
             /\ parts[p].owned = plan.tokens[p].owned
             /\ parts'[p].owned = plan.tokens[p].final
        /\ \A a \in Positions : allocs'[a] # allocs[a] =>
             \E p \in DOMAIN plan.tokens :
                 /\ plan.tokens[p].class = "part" /\ DOMAIN plan.tokens[p].rows = {a}
                 /\ plan.tokens[p].rows[a] = <<allocs[a].required, allocs[a].owned>>
                 /\ allocs'[a].owned = plan.tokens[p].final]_reconcileVars

\* Without the blanket approval, a repair never undoes the newest amount that
\* a user is known to have set on a Part or the positions it mirrors, as long as
\* no second Part mirrors one of them.
NewestEditStands ==
    [][outcome'.told = "applied" /\ plan.pending /\ ~plan.resolve =>
        \A p \in Parts :
            Audited(p) /\ ~SecondMirror(p) /\ Stands(Deciding(p))
              => Owned(Deciding(p).row)' = Deciding(p).value]_reconcileVars

\* After a run that applies, nothing in its scope diverges but what it left as
\* ambiguous and mirrors that share a position: else the verification that
\* follows in the command fails although the writes are committed.
AppliedRunVerifies ==
    outcome.told = "applied" =>
        \A p \in Divergent(outcome.filter) : p \in outcome.unresolved \/ SecondMirror(p)
=============================================================================
