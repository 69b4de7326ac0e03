----------------------------- MODULE DataImport -----------------------------
(***************************************************************************)
(* Import of sets, Parts and minifigures from a file                       *)
(* (apps/data_portability), among the requests of CatalogQuantities.  A    *)
(* preview stores the parsed file as a batch and counts its duplicates;    *)
(* the confirmation looks at the batch, locks it, and then writes row by   *)
(* row in one transaction, by one of four strategies.  Rows are found by   *)
(* set number, element id and color; several sets in the course of time    *)
(* can have one number.  The row of a figure is found by its number; here  *)
(* a figure's primary key stands for its number.                           *)
(***************************************************************************)
EXTENDS CatalogProperties, SequencesExt

CONSTANTS
    SetNumber,  \* set_number of each set
    NoNumber,   \* a blank set number in a file
    NullNumber, \* a JSON null in its place
    Requests,   \* confirmations that can be under way
    Files       \* parsed files that can be uploaded (bounds the model)

Numbers == {SetNumber[s] : s \in Sets}
Strategies == {"skip", "update", "merge", "error"}

PartOfFile == [number: Numbers \cup {NoNumber, NullNumber}, ident: PartIdents,
               quantity: Nat, owned: Nat, status: Statuses]
Component == [ident: AllocIdents, spare: BOOLEAN, required: Nat, owned: Nat]

ASSUME FilesAssumption ==
    /\ DOMAIN SetNumber = Sets
    /\ NoNumber \notin Numbers /\ NullNumber \notin Numbers
    /\ \A file \in Files :
         /\ file.sets \subseteq Numbers
         /\ file.parts \in Seq(PartOfFile)
         /\ IsFiniteSet(file.figures)
         /\ \A figure \in file.figures :
              /\ figure.key \in Figures /\ figure.number \in Numbers \cup {NoNumber}
              /\ figure.parts \subseteq Component

VARIABLES
    batch,   \* the last ImportBatch: its file, what the preview counted, its fate
    confirms \* strategy of each confirmation between its look and its lock

importVars == <<sets, figures, allocs, parts, batch, confirms>>

NoBatch == [file |-> [sets |-> {}, parts |-> <<>>, figures |-> {}],
            duplicates |-> FALSE, committed |-> TRUE, applied |-> 0]

-----------------------------------------------------------------------------
(***************************************************************************)
(* The preview.                                                            *)
(***************************************************************************)

\* _text(None) raises: a null set number makes the row an error.
Unreadable(file) == \E i \in DOMAIN file.parts : file.parts[i].number = NullNumber

SameKind(part, row) ==
    /\ part.state = "live"
    /\ part.ident.element = row.ident.element /\ part.ident.color = row.ident.color

\* The duplicates of the preview, by set number and without regard to the trash.
DuplicatesOf(row) ==
    {p \in Parts : /\ SameKind(parts[p], row)
                   /\ IF row.number = NoNumber THEN parts[p].set = NoSet
                      ELSE parts[p].set # NoSet /\ SetNumber[parts[p].set] = row.number}

HasDuplicates(file) ==
    \/ \E s \in Sets : sets[s] = "live" /\ SetNumber[s] \in file.sets
    \/ \E i \in DOMAIN file.parts : DuplicatesOf(file.parts[i]) # {}
    \/ \E figure \in file.figures :
         LET stored == figures[figure.key]
         IN  /\ stored.exists
             /\ IF figure.number = NoNumber THEN stored.set = NoSet
                ELSE stored.set # NoSet /\ SetNumber[stored.set] = figure.number

\* import_json and import_csv; one batch at a time (bounds the model).
Preview(file) ==
    /\ \A r \in Requests : confirms[r] = "idle"
    /\ batch' = [file |-> file, duplicates |-> HasDuplicates(file),
                 committed |-> FALSE, applied |-> 0]
    /\ UNCHANGED <<vars, confirms>>

-----------------------------------------------------------------------------
(***************************************************************************)
(* The rows of a file, one after the other.  The state between two rows is *)
(* [ok, full, sets, figures, allocs, parts]; a row that raises makes it    *)
(* not ok, one that the keys of the instance leave no room for full.       *)
(***************************************************************************)

Unchanged == [ok |-> TRUE, full |-> FALSE, sets |-> sets, figures |-> figures,
              allocs |-> allocs, parts |-> parts]

LiveOf(st, number) == {s \in Sets : st.sets[s] = "live" /\ SetNumber[s] = number}

\* The set a row belongs to: from the file, or a live one, or none at all.
HomeOf(st, number) ==
    IF LiveOf(st, number) = {} THEN NoSet ELSE CHOOSE s \in LiveOf(st, number) : TRUE

\* Details of a set are not modelled, so that updating one changes nothing.
ImportSet(st, number) ==
    LET new == {s \in Sets : st.sets[s] = "absent" /\ SetNumber[s] = number}
    IN  IF LiveOf(st, number) # {} THEN st
        ELSE IF new = {} THEN [st EXCEPT !.full = TRUE]
        ELSE [st EXCEPT !.sets[CHOOSE s \in new : TRUE] = "live"]

NewRow(row, home) ==
    [BlankPart EXCEPT !.state = "live", !.set = home, !.ident = row.ident,
                      !.quantity = row.quantity, !.owned = row.owned, !.status = row.status]

\* The fields a duplicate gets; MERGE adds the amounts.
ReplacedRow(old, row, strategy) ==
    LET merge == strategy = "merge"
        quantity == row.quantity + (IF merge THEN old.quantity ELSE 0)
        sum == row.owned + (IF merge THEN old.owned ELSE 0)
        owned == IF sum < quantity THEN sum ELSE quantity
    IN  [old EXCEPT !.ident = row.ident, !.quantity = quantity, !.owned = owned,
                    !.status = IF owned < quantity THEN "missing" ELSE "found"]

\* set_part_owned_quantity on the row that was just saved.
Stored(st, p, row) ==
    LET matches == Matching(st.allocs, row, FALSE)
        maximum == IF matches = {} THEN row.quantity
                   ELSE st.allocs[CHOOSE a \in matches : TRUE].required
    IN  IF Cardinality(matches) > 1 \/ row.owned > maximum THEN [st EXCEPT !.ok = FALSE]
        ELSE [st EXCEPT !.allocs = [a \in Positions |->
                            IF a \in matches THEN [st.allocs[a] EXCEPT !.owned = row.owned]
                            ELSE st.allocs[a]],
                        !.parts[p] = Written(row, maximum, row.owned,
                                             Missing(maximum, row.owned))]

\* Seeded fault: the strategy is only looked at for Parts.
KeepsFigureNever(strategy) == FALSE

KeepsPart(strategy) == strategy = "skip"
KeepsFigure(strategy) == strategy = "skip"

\* Which of several rows is the first one is any (`rank`).
ImportPart(st, row, strategy, rank) ==
    LET home == HomeOf(st, row.number)
        known == {p \in Parts : SameKind(st.parts[p], row) /\ st.parts[p].set = home}
        first == CHOOSE p \in known : \A q \in known : rank[p] <= rank[q]
        new == {p \in Parts : st.parts[p].state = "absent"}
    IN  CASE known # {} /\ KeepsPart(strategy) -> st
          [] known # {} /\ ~KeepsPart(strategy) ->
               Stored(st, first, ReplacedRow(st.parts[first], row, strategy))
          [] known = {} /\ new # {} -> Stored(st, CHOOSE p \in new : TRUE, NewRow(row, home))
          [] OTHER -> [st EXCEPT !.full = TRUE]

RowKey(row) == <<row.ident.number, row.ident.color, row.spare>>

\* update_or_create for the components of a figure: where each is stored.
PlacesFor(st, figure) ==
    LET slots == {a \in FigureParts : FigureOf[a] = figure.key}
        kept == {a \in slots : st.allocs[a].exists}
    IN  {at \in [figure.parts -> slots] :
            /\ \A row, other \in figure.parts : at[row] = at[other] => row = other
            /\ \A row \in figure.parts :
                 IF \E a \in kept : RowKey(st.allocs[a]) = RowKey(row)
                 THEN at[row] \in kept /\ RowKey(st.allocs[at[row]]) = RowKey(row)
                 ELSE at[row] \notin kept}

ComponentsWritten(st, figure) ==
    LET at == CHOOSE at \in PlacesFor(st, figure) : TRUE
        placed == {at[row] : row \in figure.parts}
    IN  [a \in Positions |->
            IF a \in placed
            THEN LET row == CHOOSE row \in figure.parts : at[row] = a
                 IN  [exists |-> TRUE, required |-> row.required, owned |-> row.owned,
                      spare |-> row.spare, ident |-> row.ident]
            ELSE st.allocs[a]]

ImportFigure(st, figure, strategy) ==
    LET home == HomeOf(st, figure.number)
        stored == st.figures[figure.key]
        missing == figure.number # NoNumber /\ home = NoSet
        twice == \E row, other \in figure.parts : row # other /\ RowKey(row) = RowKey(other)
    IN  CASE missing -> [st EXCEPT !.ok = FALSE]
          [] ~missing /\ stored.exists /\ stored.set # home -> [st EXCEPT !.full = TRUE]
          [] ~missing /\ stored.exists /\ stored.set = home /\ KeepsFigure(strategy) -> st
          [] OTHER ->
               IF twice THEN [st EXCEPT !.ok = FALSE]
               ELSE IF PlacesFor(st, figure) = {} THEN [st EXCEPT !.full = TRUE]
               ELSE [st EXCEPT !.figures[figure.key] = [exists |-> TRUE, set |-> home],
                               !.allocs = ComponentsWritten(st, figure)]

Done(st) == ~st.ok \/ st.full

\* The loops of import_confirm: sets, Parts, figures.
Imported(file, strategy, rank) ==
    LET withSets == FoldLeft(ImportSet, Unchanged, SetToSeq(file.sets))
        withParts == FoldLeft(LAMBDA st, row : IF Done(st) THEN st
                                               ELSE ImportPart(st, row, strategy, rank),
                              withSets, file.parts)
    IN  FoldLeft(LAMBDA st, figure : IF Done(st) THEN st
                                     ELSE ImportFigure(st, figure, strategy),
                 withParts, SetToSeq(file.figures))

-----------------------------------------------------------------------------
(***************************************************************************)
(* The confirmation.                                                       *)
(***************************************************************************)

\* Bound: the instance has a key for every row the import creates.
HasRoom(strategy) ==
    \A rank \in Orders(Parts) : ~Imported(batch.file, strategy, rank).full

\* import_confirm up to its transaction
LookAt(r, strategy) ==
    /\ confirms[r] = "idle"
    /\ ~batch.committed
    /\ ~Unreadable(batch.file)
    /\ ~(strategy = "error" /\ batch.duplicates)
    /\ HasRoom(strategy)
    /\ confirms' = [confirms EXCEPT ![r] = strategy]
    /\ UNCHANGED <<vars, batch>>

\* Seeded fault: the locked row is not asked for committed_at.
LockedAnyway == TRUE

Locked == ~batch.committed

Confirm(r) ==
    /\ confirms[r] # "idle"
    /\ Locked
    /\ \E rank \in Orders(Parts) :
         LET st == Imported(batch.file, confirms[r], rank)
         IN  /\ st.ok /\ ~st.full
             /\ sets' = st.sets /\ figures' = st.figures
             /\ allocs' = st.allocs /\ parts' = st.parts
    /\ batch' = [batch EXCEPT !.committed = TRUE, !.applied = @ + 1]
    /\ confirms' = [confirms EXCEPT ![r] = "idle"]

\* DoesNotExist, or a row that raises: the transaction is rolled back.
ConfirmFails(r) ==
    /\ confirms[r] # "idle"
    /\ \/ ~Locked
       \/ \E rank \in Orders(Parts) :
            LET st == Imported(batch.file, confirms[r], rank) IN ~st.ok /\ ~st.full
    /\ confirms' = [confirms EXCEPT ![r] = "idle"]
    /\ UNCHANGED <<vars, batch>>

\* unique_active_set_per_owner
NumbersUnique ==
    \A s, t \in Sets : sets[s] = "live" /\ sets[t] = "live" /\ SetNumber[s] = SetNumber[t]
                         => s = t

\* Between its look and its lock a confirmation only holds what it read of the
\* batch, so that requests in this window commute with the look (bounds the model).
RequestBetween ==
    /\ \A r \in Requests : confirms[r] = "idle"
    /\ Next
    /\ NumbersUnique'
    /\ UNCHANGED <<batch, confirms>>

ImportInit == Init /\ batch = NoBatch /\ confirms = [r \in Requests |-> "idle"]

ImportNext ==
    \/ RequestBetween
    \/ \E file \in Files : Preview(file)
    \/ \E r \in Requests, strategy \in Strategies : LookAt(r, strategy)
    \/ \E r \in Requests : Confirm(r) \/ ConfirmFails(r)

ImportSpec == ImportInit /\ [][ImportNext]_importVars

-----------------------------------------------------------------------------
(***************************************************************************)
(* The export.                                                             *)
(***************************************************************************)

\* Seeded fault: the export has the open amount instead of the owned one.
ExportedRowOpen(p) ==
    [number |-> IF parts[p].set = NoSet THEN NullNumber ELSE SetNumber[parts[p].set],
     ident |-> parts[p].ident, quantity |-> parts[p].quantity,
     owned |-> parts[p].quantity - parts[p].owned, status |-> parts[p].status]

\* A loose Part has a null set number.
ExportedRow(p) ==
    [number |-> IF parts[p].set = NoSet THEN NullNumber ELSE SetNumber[parts[p].set],
     ident |-> parts[p].ident, quantity |-> parts[p].quantity,
     owned |-> parts[p].owned, status |-> parts[p].status]

\* export_json: everything, the trash included, Parts in any order.
Exported(order) ==
    LET known == {p \in Parts : parts[p].state # "absent"}
        listed == SortSeq(SetToSeq(known), LAMBDA p, q : order[p] < order[q])
    IN  [sets |-> {SetNumber[s] : s \in {t \in Sets : sets[t] # "absent"}},
         parts |-> [i \in DOMAIN listed |-> ExportedRow(listed[i])],
         figures |-> {[key |-> f,
                       number |-> IF figures[f].set = NoSet THEN NoNumber
                                  ELSE SetNumber[figures[f].set],
                       parts |-> {[ident |-> allocs[a].ident, spare |-> allocs[a].spare,
                                   required |-> allocs[a].required, owned |-> allocs[a].owned] :
                                    a \in ComponentsOf(f)}] :
                        f \in {g \in Figures : figures[g].exists}}]

-----------------------------------------------------------------------------
\* The catalog keeps its types, set numbers stay unique, and what waits for the
\* lock has a strategy.
ImportTypeOK ==
    /\ TypeOK
    /\ NumbersUnique
    /\ confirms \in [Requests -> Strategies \cup {"idle"}]

\* However often a batch is confirmed, and however many confirmations have
\* looked at it, its rows are written once: MERGE would add them twice.
BatchAppliedOnce == ImportTypeOK /\ batch.applied <= 1

Applies(strategy) ==
    batch'.applied # batch.applied
      /\ \E r \in Requests : confirms[r] = strategy /\ confirms'[r] = "idle"

\* "SKIP – bestehende behalten" (templates/data_portability/preview.html): no
\* Part and no figure that is on file changes, and no amount of a position
\* unless the import created a Part that matched it (rows of the file that come
\* later can give this Part a better match).
SkipLeavesRows ==
    [][Applies("skip") =>
        /\ \A p \in Parts : parts[p].state # "absent" => parts'[p] = parts[p]
        /\ \A f \in Figures : figures[f].exists => figures'[f] = figures[f]
        /\ \A a \in Positions : allocs[a].exists /\ allocs'[a] # allocs[a] =>
             \E p \in Parts : /\ parts[p].state = "absent"
                              /\ a \in Matching(allocs, parts'[p], FALSE)]_importVars

\* "Import enthält Duplikate; Strategie ERROR bricht vollständig ab."
\* (import_confirm): with ERROR no Part that is on file changes.
ErrorLeavesParts ==
    [][Applies("error") =>
        \A p \in Parts : parts[p].state # "absent" => parts'[p] = parts[p]]_importVars

\* What an export does not keep apart: the trash, two Parts of one kind, a Part
\* that does not mirror exactly one position.
KeptApart ==
    /\ \A s \in Sets : sets[s] # "trashed"
    /\ \A p \in Parts : parts[p].state # "trashed"
    /\ \A p, q \in Parts :
         parts[p].state = "live" /\ SameKind(parts[q], parts[p])
           /\ parts[q].set = parts[p].set => p = q
    /\ \A p \in Parts : Audited(p) =>
         /\ Agrees(p) /\ ~SecondMirror(p)
         /\ Cardinality(Matching(allocs, parts[p], FALSE)) = 1

\* A readable export that is imported again with UPDATE changes no amount of any
\* Part, position or figure, and creates nothing.
ReimportKeepsAmounts ==
    KeptApart =>
        \A order, rank \in Orders(Parts) :
            LET st == Imported(Exported(order), "update", rank)
            IN  Unreadable(Exported(order)) \/
                (/\ st.ok /\ st.sets = sets /\ st.figures = figures /\ st.allocs = allocs
                 /\ \A p \in Parts : st.parts[p].state = parts[p].state
                                     /\ st.parts[p].owned = parts[p].owned)
=============================================================================
