-------------------------- MODULE MCReconciliation --------------------------
(* Repairs of a small catalog. *)
EXTENDS Reconciliation, TLC

\* Two rows without an element id that one Part can match through its numbers.
Brick == [element |-> "", number |-> "3001", color |-> "red"]
BrickById == [element |-> "", number |-> "300121", color |-> "red"]
BrickPart == [element |-> "300121", numbers |-> {"300121", "3001"}, color |-> "red"]
OldPart == [element |-> "3001", numbers |-> {"3001"}, color |-> "red"]
IdPart == [element |-> "300121", numbers |-> {"300121"}, color |-> "red"]

MCAllocIdents == {Brick, BrickById}
MCPartIdents == {BrickPart, OldPart, IdPart}

Position(required, owned, spare, ident) ==
    [required |-> required, owned |-> owned, spare |-> spare, ident |-> ident]
Form(set, ident, quantity, owned, unassigned, status) ==
    [set |-> set, ident |-> ident, quantity |-> quantity, owned |-> owned,
     unassigned |-> unassigned, status |-> status]

ItemsSetOf == [a \in SetItems |-> "s1"]
NoFigureOf == [a \in {} |-> "f1"]
MCPositionForms == {Position(2, 0, FALSE, Brick), Position(1, 0, FALSE, BrickById)}
MCPartForms == {Form("s1", BrickPart, 2, 2, 0, "missing")}

\* Bound: only the runs that print something are followed.
PrintingRuns == plan.pending => DOMAIN plan.tokens # {}

\* Bound: two items and one Part, or one item and two Parts.
RowsAtOnce ==
    Cardinality({a \in SetItems : allocs[a].exists})
      + Cardinality({p \in Parts : parts[p].state # "absent"}) <= 3

\* Bound: the newest two quantity events.
FewEdits == Len(edits) <= 2

\* Bound: the set goes into the trash only while a command runs.
SetInUse == ~plan.pending => \A s \in Sets : sets[s] # "trashed"

SmallRuns == PrintingRuns /\ RowsAtOnce /\ FewEdits /\ SetInUse

SameKinds == Permutations(SetItems) \cup Permutations(Parts)
=============================================================================
