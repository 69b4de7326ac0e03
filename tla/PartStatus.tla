----------------------------- MODULE PartStatus -----------------------------
(***************************************************************************)
(* Quantity and workflow-status rules of apps/catalog/part_status.py.      *)
(* They are pure functions; the modules that keep the catalog rows use     *)
(* them for every write of a Part row.                                     *)
(***************************************************************************)
EXTENDS Integers

\* Part.Status
Statuses == {"missing", "found", "ordered", "shipped", "received", "installed"}

\* Statuses that say the owner holds the piece.
PossessionStatuses == {"found", "received", "installed"}

\* max(required - owned, 0): over-ownership never counts as a credit.
Missing(required, owned) == IF owned < required THEN required - owned ELSE 0

Larger(m, n) == IF m < n THEN n ELSE m

\* effective_workflow_status: a possession status is masked by a shortage.
EffectiveStatus(status, missing) ==
    IF missing > 0 /\ status \in PossessionStatuses THEN "missing" ELSE status

\* workflow_status_is_consistent
StatusIsConsistent(status, missing) == EffectiveStatus(status, missing) = status

\* expected_is_present
ExpectedPresent(owned, unassigned) == owned + unassigned > 0
=============================================================================
