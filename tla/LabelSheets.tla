----------------------------- MODULE LabelSheets -----------------------------
(***************************************************************************)
(* What the label studio prints (apps/organizer/views.py, label_studio):   *)
(* the labels of the chosen sets, the cut lines of a label of collected    *)
(* numbers, and the sheets the labels are put on.                          *)
(***************************************************************************)
EXTENDS Integers, Sequences, FiniteSets, SequencesExt

CONSTANTS
    LabelTypes,     \* the types the studio offers here, a part of AllTypes
    SetOrder,       \* the own sets in the order of their numbers
    FiguresOf,      \* the quantities of the figures of a set
    ShortPartsOf,   \* its positions with their components: owned, short, spare
    CapacityOf,     \* labels on a sheet, by type
    ChunkSize, CutColumns,  \* numbers on a collected label, and in a row of it
    CheckedCount    \* how many labels for searched bags are asked for

AllTypes == {"full", "collected", "per_minifigure", "minifigure", "missing_parts", "colors"}
LabelSets == ToSet(SetOrder)
PartStates == {"all", "missing", "partial"}
Blank == [what |-> "blank"]

ASSUME LabelAssumption ==
    /\ LabelTypes \subseteq AllTypes /\ IsInjective(SetOrder)
    /\ CapacityOf \in [AllTypes -> Nat \ {0}]
    /\ {ChunkSize, CutColumns, CheckedCount} \subseteq Nat \ {0}
    /\ \A s \in LabelSets : ToSet(FiguresOf[s]) \subseteq Nat

\* own_sets.filter(pk__in=...).order_by("set_number")
Sorted(chosen) == SelectSeq(SetOrder, LAMBDA s : s \in chosen)

\* _collected_number_cells
NumberCells(numbers) ==
    LET rowEnd(i) == LET end == ((i - 1) \div CutColumns) * CutColumns + CutColumns
                     IN IF end < Len(numbers) THEN end ELSE Len(numbers)
    IN  [i \in 1..Len(numbers) |->
           [number |-> numbers[i], row |-> (i - 1) \div CutColumns, column |-> (i - 1) % CutColumns,
            right |-> i < rowEnd(i), bottom |-> i + CutColumns <= Len(numbers)]]

\* Every ChunkSize numbers share a label.
Collected(sets) ==
    [k \in 1..((Len(sets) + ChunkSize - 1) \div ChunkSize) |->
       LET last == IF k * ChunkSize < Len(sets) THEN k * ChunkSize ELSE Len(sets)
       IN  [what |-> "collected", cells |-> NumberCells(SubSeq(sets, (k - 1) * ChunkSize + 1, last))]]

PartState(part) == IF part.owned = 0 THEN "missing" ELSE "partial"

ShortLabels(s, state) ==
    LET wanted(i) == LET part == ShortPartsOf[s][i]
                     IN  ~part.spare /\ part.short > 0
                         /\ state \in {"all", PartState(part)}
    IN  [k \in 1..Cardinality({i \in DOMAIN ShortPartsOf[s] : wanted(i)}) |->
           [what |-> "part", set |-> s,
            nr |-> SetToSortSeq({i \in DOMAIN ShortPartsOf[s] : wanted(i)}, <)[k]]]

SumOf(quantities) == FoldSeq(LAMBDA q, sum : q + sum, 0, quantities)

\* The labels of one set, in the order they are printed
LabelsOf(type, s, state) ==
    CASE type = "full" -> <<[what |-> "set", set |-> s]>>
      [] type = "per_minifigure" ->
           [i \in 1..SumOf(FiguresOf[s]) |-> [what |-> "small", set |-> s]]
      [] type = "minifigure" ->
           [i \in DOMAIN FiguresOf[s] |-> [what |-> "figure", set |-> s, nr |-> i]]
      [] type = "missing_parts" -> ShortLabels(s, state)

LabelList(type, chosen, state) ==
    LET sets == Sorted(chosen)
    IN  IF type = "collected" THEN Collected(sets)
        ELSE IF type = "colors" THEN [i \in 1..CheckedCount |-> [what |-> "bag"]]
        ELSE FlattenSeq([i \in 1..Len(sets) |-> LabelsOf(type, sets[i], state)])

Blanks(n) == [i \in 1..n |-> Blank]

StartAt(type, start) ==
    IF start < 1 THEN 1 ELSE IF start > CapacityOf[type] THEN CapacityOf[type] ELSE start

\* Seeded fault: the first sheet begins one place late.
SlotsLate(type, start, labels) ==
    LET taken == IF labels = << >> THEN << >> ELSE Blanks(StartAt(type, start)) \o labels
    IN  taken \o Blanks((-Len(taken)) % CapacityOf[type])

\* The places of the sheets: the ones before the start stay blank, so do those
\* that are left on the last sheet.
Slots(type, start, labels) ==
    LET taken == IF labels = << >> THEN << >> ELSE Blanks(StartAt(type, start) - 1) \o labels
    IN  taken \o Blanks((-Len(taken)) % CapacityOf[type])

Sheets(type, start, labels) ==
    LET slots == Slots(type, start, labels) capacity == CapacityOf[type]
    IN  [k \in 1..(Len(slots) \div capacity) |->
           SubSeq(slots, (k - 1) * capacity + 1, k * capacity)]
-----------------------------------------------------------------------------
(***************************************************************************)
(* Templates of the user: label_print_layout, in hundredths of millimetres *)
(***************************************************************************)
Bounded(value, low, high) == IF value < low THEN low ELSE IF value > high THEN high ELSE value

\* The width of a label and how many stand in a row; the height and the rows
\* are computed the same way.
TemplateLayout(template) ==
    LET page == IF template.landscape THEN 29700 ELSE 21000
        available == page - template.left - template.right
        width == Bounded(template.width, 10, available)
        fit == IF available \div width < 1 THEN 1 ELSE available \div width
    IN  [width |-> width, page |-> page,
         columns |-> IF fit < template.columns THEN fit ELSE template.columns]

\* label_preview: one sheet, and what does not fit on it is left out.
TemplateSheet(items, start, capacity) ==
    LET first == Bounded(start, 1, capacity)
        room == capacity - first + 1
    IN  Blanks(first - 1) \o (IF Len(items) > room THEN SubSeq(items, 1, room) ELSE items)
=============================================================================
