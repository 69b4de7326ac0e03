------------------------- MODULE MCRebrickableSync -------------------------
(* Refreshes of one set against a small catalog. *)
EXTENDS RebrickableSync, TLC

Brick == [element |-> "300121", number |-> "3001", color |-> "red"]
OldBrick == [element |-> "", number |-> "3001", color |-> "red"]
BrickPart == [element |-> "300121", numbers |-> {"300121", "3001"}, color |-> "red"]
OldBrickPart == [element |-> "3001", numbers |-> {"3001"}, color |-> "red"]
Torso == [element |-> "973", number |-> "973", color |-> "red"]
TorsoPart == [element |-> "973", numbers |-> {"973"}, color |-> "red"]

MCAllocIdents == {Brick, OldBrick, Torso}
MCPartIdents == {BrickPart, OldBrickPart, TorsoPart}
MCNumberOf == [ident \in MCPartIdents |-> IF ident = TorsoPart THEN "973" ELSE "3001"]

Row(ident, spare, required) == [ident |-> ident, spare |-> spare, required |-> required]
Position(required, owned, spare, ident) ==
    [required |-> required, owned |-> owned, spare |-> spare, ident |-> ident]
Form(set, ident, quantity, owned, unassigned, status) ==
    [set |-> set, ident |-> ident, quantity |-> quantity, owned |-> owned,
     unassigned |-> unassigned, status |-> status]

\* A normal row and a spare row of the same brick, and a figure of two components.
ItemsSetOf == [a \in SetItems |-> "s1"]
FigurePartOf == [a \in FigureParts |-> "f1"]
MCPositionForms == {Position(2, 1, FALSE, OldBrick)}
MCPartForms == {Form("s1", BrickPart, 2, 1, 0, "missing")}
MCInventoryReplies ==
    {{Row(Brick, FALSE, 1)}, {Row(Brick, FALSE, 1), Row(Brick, TRUE, 2)}, {}}

Answer(code, found) == [code |-> code, figures |-> found]
NoFigures == [f \in {} |-> {}]
MCFigureReplies ==
    {Answer("rate_limit", NoFigures), Answer("unavailable", NoFigures)}
      \cup {Answer("ok", [f \in {"f1"} |-> rows]) :
              rows \in {{Row(Torso, FALSE, 1)}, {Row(Torso, FALSE, 0), Row(Brick, FALSE, 1)}}}

\* Bound: while the figure exists there is no Part and at most one row.
FigureOrMirrors ==
    figures["f1"].exists =>
        /\ \A p \in Parts : parts[p].state = "absent"
        /\ Cardinality({a \in SetItems : allocs[a].exists}) <= 1

SameKinds == Permutations(SetItems) \cup Permutations(FigureParts)
=============================================================================
