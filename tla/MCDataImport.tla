---------------------------- MODULE MCDataImport ----------------------------
(* Imports into a small catalog. *)
EXTENDS DataImport, TLC

Brick == [element |-> "300121", number |-> "3001", color |-> "red"]
BrickPart == [element |-> "300121", numbers |-> {"300121", "3001"}, color |-> "red"]

MCAllocIdents == {Brick}
MCPartIdents == {BrickPart}

Position(required, owned, spare, ident) ==
    [required |-> required, owned |-> owned, spare |-> spare, ident |-> ident]
Form(set, ident, quantity, owned, unassigned, status) ==
    [set |-> set, ident |-> ident, quantity |-> quantity, owned |-> owned,
     unassigned |-> unassigned, status |-> status]

ItemsSetOf == [a \in {"i1"} |-> "s1"]
FigurePartOf == [a \in {"m1"} |-> "f1"]
MCPositionForms == {Position(1, 1, FALSE, Brick)}
MCPartForms == {Form("none", BrickPart, 1, 0, 0, "missing")}

\* Two sets of one number, one after the other.
MCSetNumber == [s \in {"s1", "s2"} |-> "7000"]

Row(number, quantity, owned) ==
    [number |-> number, ident |-> BrickPart, quantity |-> quantity, owned |-> owned,
     status |-> "missing"]
File(numbers, rows, found) == [sets |-> numbers, parts |-> rows, figures |-> found]
Figure(number, rows) == [key |-> "f1", number |-> number, parts |-> rows]
Torso(owned) == [ident |-> Brick, spare |-> FALSE, required |-> 1, owned |-> owned]

\* A set with its contents, rows of a set that is not in the file, one kind twice.
MCFiles ==
    {File({"7000"}, <<Row("7000", 2, 0)>>, {Figure("7000", {Torso(0)})}),
     File({}, <<Row("7000", 1, 1)>>, {Figure("", {Torso(1)})}),
     File({}, <<Row("", 1, 1), Row("", 1, 0)>>, {})}

\* Bound: the amounts that a merge or two can reach.
SmallAmounts == \A p \in Parts : parts[p].quantity <= 2

\* Bound: the set has the item or the figure.
ItemOrFigure == ~(allocs["i1"].exists /\ figures["f1"].exists)

\* Bound: Parts are not put into the trash, sets are.
PartsInUse == \A p \in Parts : parts[p].state # "trashed"

\* Bound: two confirmations under way are a double click.
DoubleClick ==
    \A r, q \in Requests :
        confirms[r] # "idle" /\ confirms[q] # "idle" => confirms[r] = confirms[q]

\* Bound: a second set of the number only while the first one is in the trash.
SecondSet == sets["s2"] # "absent" => sets["s1"] = "trashed"

SmallImports == SmallAmounts /\ ItemOrFigure /\ PartsInUse /\ DoubleClick /\ SecondSet

SameKinds == Permutations(Requests) \cup Permutations(Parts)
=============================================================================
