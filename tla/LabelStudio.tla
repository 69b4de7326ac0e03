----------------------------- MODULE LabelStudio -----------------------------
(***************************************************************************)
(* The label studio in the browser (static/js/labels.js) and the view that *)
(* answers it (apps/organizer/views.py, label_studio).  Every change of    *)
(* the form asks for new labels and aborts the question before it; the     *)
(* answer replaces the list of sets, so that what the user has chosen      *)
(* travels with every question and back.                                   *)
(***************************************************************************)
EXTENDS LabelSheets

CONSTANTS
    Queries,    \* what the search may say, "" for nothing
    Matching,   \* the sets whose number or name contains a query
    FirstPlaces,\* where the form lets the labels begin
    NoQuestion

\* What the form posts, and the questions made of it
Posts == [type : AllTypes, query : Queries, start : Int, chosen : SUBSET LabelSets,
          state : PartStates]
Questions == [post : Posts, full : BOOLEAN, served : BOOLEAN, seen : SUBSET LabelSets]

ASSUME StudioAssumption ==
    /\ Matching \in [Queries -> SUBSET LabelSets]
    /\ "" \in Queries /\ Matching[""] = LabelSets
    /\ FirstPlaces \subseteq Nat \ {0} /\ NoQuestion \notin Questions

VARIABLES
    ownSets,   \* the sets that are not in the trash
    page,      \* the form: its fields, the sets listed, ticked, kept in hidden fields
    preview,   \* the labels shown: type, start, sets and filter they were made of
    asked,     \* the question under way, the newest of the sequence
    late,      \* a question that was aborted, its answer may have arrived
    timer,     \* the delay of the search: "off", "on", or of a form since replaced
    notice,    \* is an error shown in place of the preview?
    wanted,    \* what the user has chosen (history)
    astray     \* has a replaced form aborted the newest question? (history)

studioVars == <<ownSets, page, preview, asked, late, timer, notice, wanted, astray>>

\* selection_state.html: hidden fields for the chosen sets that are not listed;
\* without a list for labels of searched bags.
Listed(type, query, seen) == IF type = "colors" THEN {} ELSE Matching[query] \cap seen

Ticked(type, query, seen, chosen) == chosen \cap Listed(type, query, seen)

Kept(query, seen, chosen) == (chosen \cap seen) \ Matching[query]

\* The fields of the form: the filter is there for missing parts only.
Posted(form) == [type |-> form.type, query |-> form.query, start |-> form.start,
                 chosen |-> form.ticked \cup form.kept,
                 state |-> IF form.rendered = "missing_parts" THEN form.state ELSE "all"]

\* label_studio as a whole page
Rendered(post, seen) ==
    [type |-> post.type, rendered |-> post.type,
     query |-> IF post.type = "colors" THEN "" ELSE post.query,
     shown |-> Listed(post.type, post.query, seen),
     ticked |-> Ticked(post.type, post.query, seen, post.chosen),
     kept |-> Kept(post.query, seen, post.chosen),
     start |-> StartAt(post.type, post.start),
     state |-> IF post.type = "missing_parts" THEN post.state ELSE "all"]

\* studio_update.html: the list of sets is replaced, the other controls stay.
Updated(form, post, seen) ==
    LET new == Rendered(post, seen)
    IN  [form EXCEPT !.query = new.query, !.shown = new.shown,
                     !.ticked = new.ticked, !.kept = new.kept]

Preview(post, seen) == [type |-> post.type, start |-> StartAt(post.type, post.start),
                        sets |-> post.chosen \cap seen,
                        state |-> IF post.type = "missing_parts" THEN post.state ELSE "all"]

\* Without the field "selection" every set is chosen.
FirstPost(type) == [type |-> type, query |-> "", start |-> 1, chosen |-> ownSets, state |-> "all"]

StudioInit ==
    /\ ownSets = LabelSets
    /\ \E type \in LabelTypes :
         /\ page = Rendered(FirstPost(type), ownSets)
         /\ preview = Preview(FirstPost(type), ownSets)
    /\ asked = NoQuestion /\ late = NoQuestion
    /\ timer = "off" /\ notice = FALSE /\ astray = FALSE
    /\ wanted = page.ticked \cup page.kept
-----------------------------------------------------------------------------
\* refresh(): the question before is aborted, this one is the newest.
Refresh(form, full) ==
    /\ asked' = [post |-> Posted(form), full |-> full, served |-> FALSE, seen |-> {}]
    /\ late' = IF asked # NoQuestion /\ asked.served THEN asked ELSE late

\* An event "change" of the form stops the delay of the search.
Changes(form, full) ==
    /\ page' = form /\ timer' = "off"
    /\ Refresh(form, full)
    /\ UNCHANGED <<ownSets, preview, notice, astray>>

Toggle(set, s) == IF s \in set THEN set \ {s} ELSE set \cup {s}

ClickSet(s) ==
    /\ s \in page.shown
    /\ Changes([page EXCEPT !.ticked = Toggle(@, s)], FALSE)
    /\ wanted' = Toggle(wanted, s)

ClickAll ==
    /\ Changes([page EXCEPT !.ticked = page.shown], FALSE)
    /\ wanted' = wanted \cup page.shown

\* The button is part of the list; it leaves the delay alone.
ClickNone ==
    LET form == [page EXCEPT !.ticked = {}, !.kept = {}]
    IN  /\ page.type # "colors"
        /\ page' = form /\ wanted' = {}
        /\ Refresh(form, FALSE)
        /\ UNCHANGED <<ownSets, preview, timer, notice, astray>>

ChooseType(type) ==
    /\ type # page.type /\ Changes([page EXCEPT !.type = type], TRUE)
    /\ UNCHANGED wanted

ChooseStart(start) ==
    /\ start # page.start /\ start <= CapacityOf[page.rendered]
    /\ Changes([page EXCEPT !.start = start], FALSE)
    /\ UNCHANGED wanted

ChooseState(state) ==
    /\ page.rendered = "missing_parts" /\ state # page.state
    /\ Changes([page EXCEPT !.state = state], FALSE)
    /\ UNCHANGED wanted

Search(query) ==
    /\ page.type # "colors" /\ query # page.query
    /\ page' = [page EXCEPT !.query = query] /\ timer' = "on"
    /\ UNCHANGED <<ownSets, preview, asked, late, notice, wanted, astray>>

\* The delay is over.  The function of a form that a new page has replaced asks
\* as well; its answer goes nowhere, but it aborts what the page has asked.
TimerFires ==
    /\ timer # "off" /\ timer' = "off"
    /\ IF timer = "on"
       THEN Refresh(page, FALSE) /\ UNCHANGED astray
       ELSE /\ asked' = NoQuestion /\ UNCHANGED late
            /\ astray' = (astray \/ asked # NoQuestion)
    /\ UNCHANGED <<ownSets, page, preview, notice, wanted>>
-----------------------------------------------------------------------------
Serve ==
    /\ asked # NoQuestion /\ ~asked.served
    /\ asked' = [asked EXCEPT !.served = TRUE, !.seen = ownSets]
    /\ UNCHANGED <<ownSets, page, preview, late, timer, notice, wanted, astray>>

Applied(answer) ==
    /\ page' = IF answer.full THEN Rendered(answer.post, answer.seen)
               ELSE Updated(page, answer.post, answer.seen)
    /\ preview' = Preview(answer.post, answer.seen)
    /\ timer' = IF answer.full /\ timer = "on" THEN "replaced" ELSE timer
    /\ notice' = FALSE /\ astray' = FALSE
    /\ wanted' = IF answer.post.type = "colors" THEN page'.kept ELSE wanted \cap answer.seen

Arrives ==
    /\ asked # NoQuestion /\ asked.served
    /\ Applied(asked)
    /\ asked' = NoQuestion
    /\ UNCHANGED <<ownSets, late>>

\* Seeded fault: an answer is taken whatever has been asked since.
ArrivesLateAndCounts ==
    /\ late # NoQuestion /\ Applied(late)
    /\ late' = NoQuestion
    /\ UNCHANGED <<ownSets, asked>>

\* current !== sequence: an answer to an earlier question is dropped.
ArrivesLate ==
    /\ late # NoQuestion
    /\ late' = NoQuestion
    /\ UNCHANGED <<ownSets, page, preview, asked, timer, notice, wanted, astray>>

\* No answer, none within eight seconds, or one that is not a preview.
Fails ==
    /\ asked # NoQuestion
    /\ asked' = NoQuestion /\ notice' = TRUE
    /\ UNCHANGED <<ownSets, page, preview, late, timer, wanted, astray>>

Retry ==
    /\ notice /\ asked = NoQuestion
    /\ Refresh(page, FALSE)
    /\ UNCHANGED <<ownSets, page, preview, timer, notice, wanted, astray>>

\* A set goes to the trash or comes back in another window.
Elsewhere(s) ==
    /\ ownSets' = Toggle(ownSets, s)
    /\ UNCHANGED <<page, preview, asked, late, timer, notice, wanted, astray>>

StudioNext ==
    \/ ClickAll \/ ClickNone \/ TimerFires \/ Serve \/ Arrives \/ ArrivesLate \/ Fails \/ Retry
    \/ \E s \in LabelSets : ClickSet(s) \/ Elsewhere(s)
    \/ \E type \in LabelTypes : ChooseType(type)
    \/ \E start \in FirstPlaces : ChooseStart(start)
    \/ \E state \in PartStates : ChooseState(state)
    \/ \E query \in Queries : Search(query)

StudioSpec == StudioInit /\ [][StudioNext]_studioVars
-----------------------------------------------------------------------------
\* Whatever is typed, clicked, answered late or lost, the form holds the sets
\* the user has chosen, those the search does not list included; and when it has
\* come to rest, the preview is about exactly them.  Left out: a question that
\* the delay of a replaced form has aborted (labels.js refresh, label_studio).
AtRest == asked = NoQuestion /\ late = NoQuestion /\ timer = "off" /\ ~notice /\ ~astray

SelectionKept ==
    /\ page.ticked \cup page.kept = wanted
    /\ page.ticked \subseteq page.shown /\ page.kept \cap page.shown = {}
    /\ AtRest =>
         /\ [preview EXCEPT !.sets = {}]
              = [Preview(Posted(page), wanted) EXCEPT !.sets = {}]
         /\ preview.type # "colors" => preview.sets = wanted

CountOf(type, s, state) ==
    CASE type = "full" -> 1
      [] type = "per_minifigure" -> SumOf(FiguresOf[s])
      [] type = "minifigure" -> Len(FiguresOf[s])
      [] type = "missing_parts" ->
           Cardinality({i \in DOMAIN ShortPartsOf[s] :
              LET part == ShortPartsOf[s][i]
              IN  /\ ~part.spare /\ part.short > 0
                  /\ state = "missing" => part.owned = 0
                  /\ state = "partial" => part.owned > 0})

\* A number is cut off from its neighbours to the right and below and from
\* nothing else, and no two stand in one place (_collected_number_cells).
HasCell(cells, row, column) ==
    \E j \in DOMAIN cells : cells[j].row = row /\ cells[j].column = column

CutsMeetNeighbours(cells) ==
    \A i \in DOMAIN cells :
      /\ cells[i].column \in 0..(CutColumns - 1)
      /\ cells[i].right <=> HasCell(cells, cells[i].row, cells[i].column + 1)
      /\ cells[i].bottom <=> HasCell(cells, cells[i].row + 1, cells[i].column)
      /\ \A j \in DOMAIN cells :
           cells[j].row = cells[i].row /\ cells[j].column = cells[i].column => i = j

\* Every sheet is full, the labels follow each other from the start to the last
\* one, none is missing and none is printed twice; the numbers of collected
\* labels are cut apart where two stand side by side or below each other, and
\* nowhere else.
SheetsComplete ==
    AtRest =>
    LET type == preview.type
        places == FlattenSeq(Sheets(type, preview.start,
                                    LabelList(type, preview.sets, preview.state)))
        printed == {i \in DOMAIN places : places[i] # Blank}
        cells == [i \in printed |-> places[i].cells]
    IN  /\ Len(places) % CapacityOf[type] = 0
        /\ printed = preview.start..(preview.start + Cardinality(printed) - 1)
        /\ Cardinality(printed) > 0
             => Len(places) - preview.start - Cardinality(printed) + 1 < CapacityOf[type]
        /\ CASE type = "colors" -> Cardinality(printed) = CheckedCount
             [] type = "collected" ->
                  /\ FlattenSeq([k \in 1..Cardinality(printed) |->
                        [i \in DOMAIN cells[k + preview.start - 1]
                           |-> cells[k + preview.start - 1][i].number]])
                       = SelectSeq(SetOrder, LAMBDA s : s \in preview.sets)
                  /\ \A k \in printed : CutsMeetNeighbours(cells[k]) /\ Len(cells[k]) <= ChunkSize
             [] OTHER ->
                  /\ \A s \in LabelSets :
                       Cardinality({i \in printed : places[i].set = s})
                         = IF s \in preview.sets THEN CountOf(type, s, preview.state) ELSE 0
                  /\ type \in {"minifigure", "missing_parts"}
                       => \A i, j \in printed : i # j => places[i] # places[j]
=============================================================================
