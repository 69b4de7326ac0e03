--------------------------- MODULE CatalogReports ---------------------------
(***************************************************************************)
(* What the pages, the labels and the exports of the catalog show of its   *)
(* rows.  Each page computes the open quantities of the same positions by  *)
(* a query or a loop of its own: the dashboard over all positions, the set *)
(* list per set, the figure list in SQL and once more in Python, the       *)
(* labels one by one, the missing-parts page and the LEGO export through   *)
(* the Part mirrors.                                                       *)
(***************************************************************************)
EXTENDS CatalogProperties

Short(a) == allocs[a].owned < allocs[a].required
ShortBy(a) == Missing(allocs[a].required, allocs[a].owned)
Capped(a) == IF Short(a) THEN allocs[a].owned ELSE allocs[a].required
Colors == {ident.color : ident \in AllocIdents}

-----------------------------------------------------------------------------
(* Completeness of sets and figures.                                       *)

\* Seeded fault: spares are counted.
SetAllocationsWithSpares(s) ==
    {a \in Positions : /\ allocs[a].exists
                       /\ HomeSet(a) = s /\ sets[s] = "live"
                       /\ allocs[a].required > 0}

\* _authoritative_set_allocation_querysets
SetAllocations(s) ==
    {a \in Positions : /\ allocs[a].exists
                       /\ HomeSet(a) = s /\ sets[s] = "live"
                       /\ ~allocs[a].spare
                       /\ allocs[a].required > 0}

\* with_set_completeness, set_completeness
Completeness(s) ==
    LET required == RequiredSum(allocs, SetAllocations(s))
        missing == MissingSum(allocs, SetAllocations(s))
    IN  [required |-> required, missing |-> missing, owned |-> required - missing,
         key |-> IF required <= 0 THEN "unknown"
                 ELSE IF missing > 0 THEN "incomplete" ELSE "complete"]

\* filter_sets_by_missing_colors
SetsMissingColors(colors) ==
    {s \in Sets : /\ sets[s] = "live"
                  /\ colors = {} \/ \E a \in SetAllocations(s) :
                                       Short(a) /\ allocs[a].ident.color \in colors}

\* missing_color_values: the join to a set is an outer one, so the colors of
\* loose figures are offered too.
MissingColors ==
    {allocs[a].ident.color : a \in {b \in Positions :
        /\ allocs[b].exists /\ ~allocs[b].spare /\ Short(b)
        /\ HomeSet(b) = NoSet \/ Live(HomeSet(b))}}

\* set_list: a set of unknown completeness belongs to the incomplete bucket.
SetList(completeness, colors) ==
    {s \in SetsMissingColors(colors) :
        CASE completeness = "complete"   -> Completeness(s).key = "complete"
          [] completeness = "incomplete" -> Completeness(s).key # "complete"
          [] OTHER                       -> TRUE}

\* set_detail: the figures above the table count spares too.
InventoryStats(s) ==
    [required |-> RequiredSum(allocs, ItemsOf(s)), owned |-> OwnedSum(allocs, ItemsOf(s)),
     missing |-> MissingSum(allocs, ItemsOf(s))]

FigureRows(f) == {a \in FigureParts : FigureOf[a] = f /\ allocs[a].exists}
FigureShown(f) == figures[f].exists /\ (figures[f].set = NoSet \/ Live(figures[f].set))

\* _minifigure_record: the loop in Python behind the cards.
FigureRecord(f) ==
    LET counted == {a \in FigureRows(f) : ~allocs[a].spare}
        required == RequiredSum(allocs, counted)
        owned == MapThenSumSet(Capped, counted)
        missing == Missing(required, owned)
    IN  [required |-> required, owned |-> owned, missing |-> missing,
         status |-> CASE FigureRows(f) = {} \/ required = 0 -> "unknown"
                      [] missing = 0 -> "complete"
                      [] owned = 0   -> "missing"
                      [] OTHER       -> "partial"]

\* minifigure_list: the same by annotations, which sort, filter and count.
FigureOrder(f) ==
    LET counted == {a \in FigureRows(f) : ~allocs[a].spare}
        required == RequiredSum(allocs, counted)
        owned == MapThenSumSet(Capped, counted)
    IN  CASE required = 0                 -> "unknown"
          [] Missing(required, owned) = 0 -> "complete"
          [] owned = 0                    -> "missing"
          [] OTHER                        -> "partial"

FigureKpis == [order \in {"complete", "partial", "missing"} |->
                 Cardinality({f \in Figures : FigureShown(f) /\ FigureOrder(f) = order})]

-----------------------------------------------------------------------------
(* The dashboard.                                                          *)

\* The two querysets of dashboard_collection_data.
DashboardPositions ==
    {a \in Positions : /\ allocs[a].exists /\ ~allocs[a].spare
                       /\ allocs[a].required > 0
                       /\ HomeSet(a) = NoSet \/ Live(HomeSet(a))}

\* allocation_summary over both, added up
Dashboard ==
    [required |-> RequiredSum(allocs, DashboardPositions),
     owned |-> MapThenSumSet(Capped, DashboardPositions),
     missing |-> MissingSum(allocs, DashboardPositions),
     open |-> Cardinality({a \in DashboardPositions : Short(a)})]

\* shortage_groups and add_rows: one group per identifier and color
ShortageKey(a) == <<KeyElement(allocs[a].ident), allocs[a].ident.color>>
Shortages ==
    LET short == {a \in DashboardPositions : Short(a)}
    IN  {<<key, MapThenSumSet(ShortBy, {a \in short : ShortageKey(a) = key})>> :
            key \in {ShortageKey(a) : a \in short}}

-----------------------------------------------------------------------------
(* Labels for missing parts (label_studio): the loop over the rows of the  *)
(* chosen sets.                                                            *)

MissingPartLabels(chosen, colors) ==
    {a \in Positions : /\ allocs[a].exists /\ HomeSet(a) \in chosen
                       /\ sets[HomeSet(a)] = "live"
                       /\ ~allocs[a].spare /\ ShortBy(a) > 0
                       /\ colors = {} \/ allocs[a].ident.color \in colors}

-----------------------------------------------------------------------------
(* The missing-parts page and the LEGO export.                             *)

\* The mirrors the page and the export start from, with their shortage.
AuthoritativeShortage(p) ==
    LET matches == Matching(allocs, parts[p], TRUE)
    IN  IF matches = {} THEN Missing(parts[p].quantity, parts[p].owned)
        ELSE MissingSum(allocs, matches)

AuthoritativeRequired(p) ==
    LET matches == Matching(allocs, parts[p], TRUE)
    IN  IF matches = {} THEN parts[p].quantity ELSE RequiredSum(allocs, matches)

PagedParts == {p \in Parts : /\ parts[p].state = "live"
                             /\ parts[p].set = NoSet \/ Live(parts[p].set)
                             /\ AuthoritativeShortage(p) > 0}

\* authoritative_lego_export_parts
ExportParts(colors) ==
    {p \in PagedParts : /\ parts[p].status = "missing"
                        /\ parts[p].ident.element # NoElement
                        /\ colors = {} \/ parts[p].ident.color \in colors}

Identity(part) == IF part.ident.element # NoElement THEN part.ident.element
                  ELSE CHOOSE number \in part.ident.numbers : TRUE

\* Seeded fault: mirrors of one position are not recognised.
AllocationKeyPerPart(p) == <<"part", p, parts[p].set, parts[p].ident.color>>

\* What two mirrors of one position have in common.
AllocationKey(p) ==
    IF Matching(allocs, parts[p], TRUE) # {}
    THEN <<"inventory", parts[p].set, Identity(parts[p]), parts[p].ident.color>>
    ELSE <<"part", p, Identity(parts[p]), parts[p].ident.color>>

\* group_authoritative_missing_parts: the first row of each allocation key
\* counts; groups then share identity and color.
Counted(rows) == {p \in rows : p = CHOOSE q \in rows : AllocationKey(q) = AllocationKey(p)}
GroupKey(p) == <<Identity(parts[p]), parts[p].ident.color>>
Groups(rows) == {{p \in Counted(rows) : GroupKey(p) = key} : key \in {GroupKey(p) : p \in rows}}

\* Open parts of figures, each row of a figure's brick once.
PagedFigureParts ==
    LET short == {a \in FigureParts : /\ allocs[a].exists /\ ~allocs[a].spare /\ Short(a)
                                      /\ HomeSet(a) = NoSet \/ Live(HomeSet(a))}
        key(a) == <<FigureOf[a], ShortageKey(a)>>
    IN  {a \in short : a = CHOOSE b \in short : key(b) = key(a)}

\* minifigure_origins: a mirror gives way to an open part of a figure of its
\* set with the same brick.
Origins == {<<HomeSet(a), KeyElement(allocs[a].ident), allocs[a].ident.color>> :
               a \in {b \in PagedFigureParts : HomeSet(b) # NoSet}}

\* missing_parts: the mirrors that stay in normalized_groups
ListedParts == {p \in Counted(PagedParts) :
                  <<parts[p].set, Identity(parts[p]), parts[p].ident.color>> \notin Origins}

\* missing_group_status and group_quantity_status
GroupStatus(group) ==
    LET missing == MapThenSumSet(AuthoritativeShortage, group)
        required == MapThenSumSet(AuthoritativeRequired, group)
        statuses == {EffectiveStatus(parts[p].status, AuthoritativeShortage(p)) : p \in group}
    IN  IF Cardinality(statuses) = 1 /\ statuses # {"missing"}
        THEN CHOOSE status \in statuses : TRUE
        ELSE CASE missing <= 0             -> "complete"
               [] required - missing <= 0  -> "missing"
               [] OTHER                    -> "partial"

\* Loose figures are exported from their own rows.
ExportedFigureParts(colors) ==
    {a \in FigureParts : /\ allocs[a].exists /\ HomeSet(a) = NoSet
                         /\ ~allocs[a].spare /\ Short(a)
                         /\ allocs[a].ident.element # NoElement
                         /\ colors = {} \/ allocs[a].ident.color \in colors}

\* authoritative_lego_export_rows
ExportRows(colors) ==
    LET mirrors == Counted(ExportParts(colors))
        loose == ExportedFigureParts(colors)
        elements == {parts[p].ident.element : p \in mirrors}
                      \cup {allocs[a].ident.element : a \in loose}
    IN  [element \in elements |->
            MapThenSumSet(AuthoritativeShortage,
                          {p \in mirrors : parts[p].ident.element = element})
            + MapThenSumSet(ShortBy, {a \in loose : allocs[a].ident.element = element})]

\* _export_color_values, and export_missing_csv with its two refusals
ExportColors == {parts[p].ident.color : p \in ExportParts({})}
                  \cup {allocs[a].ident.color : a \in ExportedFigureParts({})}
ExportRefused(colors) == /\ colors # {}
                         /\ \/ ~(colors \subseteq ExportColors)
                            \/ ExportRows(colors) = <<>>

\* analyze_lego_unavailable: the rows of a reported element, trashed sets included.
UnavailableMatches(element) ==
    {p \in Parts : parts[p].state = "live" /\ parts[p].ident.element = element}

-----------------------------------------------------------------------------
(* audit_missing_parts_integrity                                           *)

DuplicateParts ==
    {p \in Parts : parts[p].state = "live" /\ \E q \in Parts \ {p} :
        /\ parts[q].state = "live" /\ parts[q].set = parts[p].set
        /\ GroupKey(q) = GroupKey(p) /\ parts[q].status = parts[p].status}
CrossSource ==
    {a \in FigureParts : allocs[a].exists /\ \E p \in Parts :
        /\ parts[p].state = "live" /\ parts[p].set = HomeSet(a)
        /\ GroupKey(p) = ShortageKey(a)}

\* analyze_part_status as reconcile_part_status calls it, spares left aside;
\* only "E" is ever applied.
StatusFindings(p) ==
    LET missing == AuthoritativeMissing(allocs, parts[p])
        matches == Matching(allocs, parts[p], FALSE)
        required == IF matches = {} THEN parts[p].quantity ELSE RequiredSum(allocs, matches)
        status == parts[p].status
        If(condition, category) == IF condition THEN {category} ELSE {}
    IN  If(status = "found" /\ required - missing <= 0, "A")
          \cup If(status = "found" /\ required - missing > 0 /\ missing > 0, "B")
          \cup If(status = "missing" /\ missing <= 0, "C")
          \cup If(parts[p].present # ExpectedPresent(parts[p].owned, parts[p].unassigned), "E")
          \cup If(status \in {"received", "installed"} /\ missing > 0, "F")

-----------------------------------------------------------------------------
(***************************************************************************)
(* Properties.                                                             *)
(***************************************************************************)
\* The separate computations agree after every sequence of requests: the
\* dashboard's totals are those of the sets and the loose figures, its top
\* shortages add up to its missing pieces, the filter by colors finds exactly
\* the incomplete sets, the cards of the figures show what the list sorts and
\* counts by, the labels of a set ask for exactly its missing pieces and the
\* set's own page shows those of its items and the open spares.
BooksAgree ==
    LET dashboard == Dashboard
        book == [s \in {t \in Sets : sets[t] = "live"} |-> Completeness(s)]
        record == [f \in {g \in Figures : FigureShown(g)} |-> FigureRecord(f)]
        loose == {f \in DOMAIN record : figures[f].set = NoSet}
        incomplete == {s \in DOMAIN book : book[s].key = "incomplete"}
    IN  /\ dashboard.missing = MapThenSumSet(LAMBDA s : book[s].missing, DOMAIN book)
                                 + MapThenSumSet(LAMBDA f : record[f].missing, loose)
        /\ dashboard.owned = MapThenSumSet(LAMBDA s : book[s].owned, DOMAIN book)
                               + MapThenSumSet(LAMBDA f : record[f].owned, loose)
        /\ dashboard.owned + dashboard.missing = dashboard.required
        /\ MapThenSumSet(LAMBDA group : group[2], Shortages) = dashboard.missing
        /\ SetsMissingColors(Colors) = incomplete
        /\ \A s \in incomplete : \E color \in MissingColors : s \in SetList("incomplete", {color})
        /\ \A f \in DOMAIN record : record[f].status = FigureOrder(f)
        /\ \A s \in DOMAIN book :
             InventoryStats(s).missing =
               MapThenSumSet(ShortBy, MissingPartLabels({s}, {}) \cap SetItems)
                 + MapThenSumSet(ShortBy, {a \in ItemsOf(s) : allocs[a].spare})
        /\ \A s \in DOMAIN book :
             MapThenSumSet(ShortBy, MissingPartLabels({s}, {})) = book[s].missing

Mirror(p, a) == /\ parts[p].state = "live" /\ a \in Matching(allocs, parts[p], TRUE)

\* Two mirrors of a position that go by different identities, or a part of a
\* figure without an element id whose mirror has one, are not recognised as one.
TwoIdentities(a) ==
    \/ \E p, q \in Parts : Mirror(p, a) /\ Mirror(q, a) /\ Identity(parts[p]) # Identity(parts[q])
    \/ a \in FigureParts /\ \E p \in Parts :
          Mirror(p, a) /\ Identity(parts[p]) # KeyElement(allocs[a].ident)

\* The pieces of an element that the page lists.
PageTotal(element, listed, paged) ==
    MapThenSumSet(AuthoritativeShortage, {p \in listed : Identity(parts[p]) = element})
      + MapThenSumSet(ShortBy, {a \in paged : KeyElement(allocs[a].ident) = element})

\* The shortage of a position is counted at most once, on the missing-parts
\* page and in the export, whatever mirrors it has; a short position with a
\* mirror is on the page, unless an open part of a figure of the same set and
\* brick takes its place; no listed group looks complete or possessed, and
\* where the page masks a stored status the audit of the statuses reports the
\* row; the export orders no more of an element than the page lists (unless a
\* mirror gives way to a figure's part) and refuses no color it has offered;
\* what the page leaves out for a duplicate or for a figure the integrity audit
\* reports, and the LEGO analysis finds every exported element again, those of
\* loose figures excepted.
CountedOnce ==
    LET listed == ListedParts
        paged == PagedFigureParts
        exported == Counted(ExportParts({}))
        Times(rows, figureRows, a) ==
            Cardinality({p \in rows : a \in Matching(allocs, parts[p], TRUE)})
              + (IF a \in figureRows THEN 1 ELSE 0)
    IN  /\ \A a \in {b \in DashboardPositions : Short(b)} :
             LET mirrors == {p \in Parts : Mirror(p, a)}
             IN  /\ \/ /\ Times(listed, paged, a) <= 1
                       /\ Times(exported, ExportedFigureParts({}), a) <= 1
                    \/ TwoIdentities(a)
                 /\ mirrors # {} =>
                       \/ Times(listed, paged, a) >= 1
                       \/ \E b \in paged, p \in mirrors :
                             HomeSet(b) = HomeSet(a) /\ GroupKey(p) = ShortageKey(b)
        /\ \A group \in Groups(listed) :
             GroupStatus(group) \in {"missing", "partial", "ordered", "shipped"}
        /\ \A p \in listed :
             \/ parts[p].status \notin PossessionStatuses
             \/ StatusFindings(p) \cap {"A", "B", "F"} # {}
             \/ AuthoritativeMissing(allocs, parts[p]) = 0
        /\ listed = Counted(PagedParts) =>
             \A element \in DOMAIN ExportRows({}) :
                ExportRows({})[element] <= PageTotal(element, listed, paged)
        /\ \A color \in ExportColors : ~ExportRefused({color})
        /\ listed # Counted(PagedParts) => CrossSource # {}
        /\ \A p, q \in PagedParts :
             p # q /\ AllocationKey(p) = AllocationKey(q) /\ parts[p].status = parts[q].status
               => {p, q} \subseteq DuplicateParts
        /\ \A element \in DOMAIN ExportRows({}) :
             \/ UnavailableMatches(element) # {}
             \/ \E a \in ExportedFigureParts({}) : allocs[a].ident.element = element
=============================================================================
