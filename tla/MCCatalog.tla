----------------------------- MODULE MCCatalog -----------------------------
(* Small catalogs for TLC. *)
EXTENDS CatalogReports, TLC

\* Two items of one set that can share an element id, one row without one.
Brick == [element |-> "300121", number |-> "3001", color |-> "red"]
BlankBrick == [element |-> "", number |-> "3001", color |-> "red"]
BrickPart == [element |-> "300121", numbers |-> {"300121", "3001"}, color |-> "red"]
BlankBrickPart == [element |-> "3001", numbers |-> {"3001"}, color |-> "red"]

MCAllocIdents == {Brick, BlankBrick}
MCPartIdents == {BrickPart, BlankBrickPart}

Position(required, owned, spare, ident) ==
    [required |-> required, owned |-> owned, spare |-> spare, ident |-> ident]
Form(set, ident, quantity, owned, unassigned, status) ==
    [set |-> set, ident |-> ident, quantity |-> quantity, owned |-> owned,
     unassigned |-> unassigned, status |-> status]

ItemsSetOf == [a \in SetItems |-> "s1"]
FigurePartOf == [a \in {"m1"} |-> "f1"]

\* Two normal rows, one without an element id, and a spare of the same element;
\* the row of one piece is also the one a figure part can be.
MCPositionForms == {Position(2, 0, FALSE, Brick), Position(2, 1, FALSE, BlankBrick),
                    Position(1, 1, TRUE, Brick), Position(1, 0, FALSE, Brick)}
MCPartForms == {Form("s1", BrickPart, 2, 0, 0, "missing"),
                Form("s1", BlankBrickPart, 1, 1, 1, "found"),
                Form("none", BrickPart, 2, 2, 0, "ordered"),
                Form("s1", BrickPart, 1, 0, 0, "missing"),
                Form("s1", BrickPart, 1, 1, 0, "found")}

\* Bound: either two items and at most one mirror, ...
TwoItems == ~figures["f1"].exists /\ parts["p2"].state = "absent"

\* ... or an item and a figure part of one piece each and two mirrors,
\* the second of which is never thrown away, ...
TwoMirrors ==
    /\ Cardinality({a \in SetItems : allocs[a].exists}) <= 1
    /\ parts["p2"].state # "trashed"
    /\ \A a \in Positions : allocs[a].exists =>
         allocs[a].required = 1 /\ ~allocs[a].spare /\ allocs[a].ident = Brick
    /\ \A p \in Parts : parts[p].state # "absent" =>
         /\ parts[p].set = "s1" /\ parts[p].ident = BrickPart
         /\ parts[p].unassigned = 0
         /\ parts[p].status # "ordered"

\* ... or a part of a figure without an element id and one mirror.
BlankFigurePart ==
    /\ \A a \in SetItems : ~allocs[a].exists
    /\ parts["p2"].state = "absent"
    /\ allocs["m1"].exists => ~allocs["m1"].spare /\ allocs["m1"].ident = BlankBrick
    /\ parts["p1"].state = "live" => /\ parts["p1"].set = "s1"
                                     /\ parts["p1"].ident = BrickPart
                                     /\ parts["p1"].unassigned = 0

ItemsOrMirrors == TwoItems \/ TwoMirrors \/ BlankFigurePart

SameKinds == Permutations(SetItems)
=============================================================================
