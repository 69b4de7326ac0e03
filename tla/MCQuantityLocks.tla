-------------------------- MODULE MCQuantityLocks --------------------------
(* Three concurrent requests on a set with three positions and two Parts. *)
EXTENDS QuantityLocks, TLC

\* p1 mirrors one item; p2 an item and a figure part of the same element.
MCMatchOf == "p1" :> {"a1"} @@ "p2" :> {"a2", "a3"}
MCRequired == "a1" :> 2 @@ "a2" :> 1 @@ "a3" :> 1
\* p1 is a candidate for a3 too (same number), but an element id decides for p2.
MCCandidates == "a1" :> {"p1"} @@ "a2" :> {"p2"} @@ "a3" :> {"p1", "p2"}

PartEdit(p, quantity) == [kind |-> "part", part |-> p, quantity |-> quantity]
PositionEdit(a, quantity) == [kind |-> "position", position |-> a, quantity |-> quantity]
StatusChange(p, status) == [kind |-> "status", part |-> p, status |-> status]

MCAsked == {PartEdit("p1", 0), PartEdit("p1", 2), PartEdit("p2", 1),
            PositionEdit("a1", 1), PositionEdit("a2", 0), PositionEdit("a3", 0),
            PositionEdit("a3", 2),
            StatusChange("p1", "installed"), StatusChange("p2", "installed")}

Row(quantity, own, status) == [quantity |-> quantity, owned |-> own, status |-> status]
MCStored == {[owned |-> "a1" :> 2 @@ "a2" :> 1 @@ "a3" :> 1,
              part |-> "p1" :> Row(2, 2, "ordered") @@ "p2" :> Row(2, 2, "received")]}
=============================================================================
