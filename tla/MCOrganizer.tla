----------------------------- MODULE MCOrganizer -----------------------------
(***************************************************************************)
(* The desks of the organizer and of the orders: the MOC with its versions, *)
(* the wishlist, the label studio, the import of an order.  They share no    *)
(* state here, so a behaviour is about one of them.                          *)
(***************************************************************************)
EXTENDS MocVersions, Wishlist, LabelStudio, OrderImport

VARIABLE desk

MCPartForms == {[line |-> "x", stock |-> "s1"]}
MCNumberOf == [n \in References |-> n]

MCSetOrder == <<"a", "b", "c", "d">>
MCFiguresOf == [s \in {"a", "b", "c", "d"} |->
                  CASE s = "a" -> <<1, 2>> [] s = "b" -> <<1>> [] s \in {"c", "d"} -> <<>>]
MCPart(owned, short, spare) == [owned |-> owned, short |-> short, spare |-> spare]
MCShortPartsOf ==
    [s \in {"a", "b", "c", "d"} |->
       CASE s = "a" -> <<MCPart(0, 2, FALSE), MCPart(1, 0, FALSE), MCPart(0, 1, TRUE)>>
         [] s = "b" -> <<MCPart(1, 1, FALSE)>>
         [] s \in {"c", "d"} -> <<>>]
MCCapacityOf == [t \in AllTypes |-> IF t = "per_minifigure" THEN 3 ELSE 2]
MCMatching == [q \in {"", "x"} |-> IF q = "" THEN {"a", "b", "c", "d"} ELSE {"a"}]

MCShortages == <<"p1", "m1", "p2">>
MCBrickOf == [row \in {"p1", "m1", "p2"} |-> IF row = "p2" THEN "b2" ELSE "b1"]
MCLine(brick, quantity, colored, valid) ==
    [brick |-> brick, quantity |-> quantity, colored |-> colored, valid |-> valid]
MCCsvFiles ==
    {<<MCLine("b1", 3, TRUE, TRUE), MCLine("b2", 1, TRUE, TRUE)>>,
     <<MCLine("b1", 1, TRUE, FALSE), MCLine("b1", 2, TRUE, TRUE), MCLine("b2", 2, FALSE, TRUE)>>}

MCShort(row, open, status, live) ==
    [row |-> row, open |-> open, status |-> status, live |-> live]
MCFirstShortfall == [open |-> 2, status |-> "missing", live |-> TRUE]
MCShortfalls ==
    {MCShort("p1", 2, "missing", TRUE), MCShort("p1", 1, "missing", TRUE),
     MCShort("p1", 2, "ordered", TRUE), MCShort("p1", 2, "missing", FALSE),
     MCShort("m1", 2, "missing", TRUE), MCShort("m1", 0, "missing", TRUE)}

\* The columns of a template fit between its margins (label_print_layout), and
\* a sheet has room for what it shows, from the start on (label_preview).
ASSUME TemplatesFit ==
    \A width \in {5, 10, 2333, 5000, 7001, 21001, 30000}, columns \in {1, 3, 10},
       margins \in {<<0, 0>>, <<0, 1>>, <<5000, 5000>>}, landscape \in BOOLEAN :
         LET layout == TemplateLayout([width |-> width, columns |-> columns, left |-> margins[1],
                                       right |-> margins[2], landscape |-> landscape])
         IN  /\ layout.columns \in 1..columns
             /\ layout.columns * layout.width + margins[1] + margins[2] <= layout.page
             /\ \A start \in 0..4, count \in 0..4 :
                  Len(TemplateSheet([i \in 1..count |-> i], start, layout.columns)) <= layout.columns

Init ==
    /\ desk \in {"moc", "wishlist", "labels", "orders"}
    /\ MocInit /\ WishInit /\ StudioInit /\ OrderImportInit
    /\ desk # "moc" => \A v \in Versions : versions[v] = NoVersion
    /\ desk # "wishlist" => alone
    /\ desk # "labels" => page.type = "full"

Next ==
    /\ UNCHANGED desk
    /\ \/ desk = "moc" /\ MocNext /\ UNCHANGED <<wishVars, studioVars, orderVars>>
       \/ desk = "wishlist" /\ WishNext /\ UNCHANGED <<mocVars, studioVars, orderVars>>
       \/ desk = "labels" /\ StudioNext /\ UNCHANGED <<mocVars, wishVars, orderVars>>
       \/ desk = "orders" /\ OrderImportNext /\ UNCHANGED <<mocVars, wishVars, studioVars>>

Spec == Init /\ [][Next]_<<desk, mocVars, wishVars, studioVars, orderVars>>

-----------------------------------------------------------------------------
\* One form at a time beside the activations; versions are stored in order.
FewForms ==
    /\ Cardinality({r \in MocRequests :
         mocRequest[r].stage \in {"version", "rename", "part", "moc"}}) <= 1
    /\ versions["v2"] # NoVersion => versions["v1"] # NoVersion
    /\ ~moc.exists => \A r \in MocRequests : mocRequest[r] = MocIdle \/ mocRequest[r].stage = "moc"

\* The second wish comes into play when requests do not overlap.
OneWish == ~alone => ~wishes["w2"].used

\* An error, a late answer, another start or a set that goes to the trash come
\* one at a time; small figure labels and collected numbers are printed from a
\* quiet form.
QuietStudio ==
    /\ page.start # 1 => page.type = "full" /\ page.query = "" /\ late = NoQuestion
    /\ late # NoQuestion => /\ ownSets = LabelSets /\ timer = "off" /\ ~notice
                            /\ page.query = "" /\ page.type = "full"
    /\ notice => timer = "off" /\ late = NoQuestion /\ page.query = ""
    /\ page.type \in {"per_minifigure", "minifigure", "collected"} =>
         timer = "off" /\ ~notice /\ late = NoQuestion /\ page.query = "" /\ ownSets = LabelSets
    /\ page.state # "partial" /\ {"a", "c", "d"} \subseteq ownSets
    /\ page.state # "all" \/ ownSets # LabelSets => page.query = "" /\ ~notice /\ late = NoQuestion
    /\ {"c", "d"} \subseteq page.ticked \cup page.kept \/ wanted = {} \/ page.type = "colors"

\* One preview at a time, which requests may confirm at once; one row changes
\* before it is imported; only an order that covers the first Part comes twice.
OnePreview ==
    LET busy == {r \in ImportRequests : confirmation[r] # NoImport}
        previews == {confirmation[r].offer : r \in busy} \cup ({offer} \ {NoImport})
        changed == {row \in OfferedRows : shortage[row] # FirstShortfall}
    IN  /\ Cardinality(previews) <= 1
        /\ \A o \in previews :
             /\ o.number = NoOrderNumber => o.supplier = NoSupplier /\ imports = <<>>
             /\ imports # <<>> => /\ o.number = imports[1].number /\ Len(imports) = 1
                                  /\ imports[1].ticked = {} /\ imports[1].marked = {"p1"}
        /\ confirmation["q2"] # NoImport =>
             /\ confirmation["q1"] # NoImport
             /\ confirmation["q1"].ticked = confirmation["q2"].ticked
        /\ IF imports = <<>> THEN Cardinality(changed) <= 1
           ELSE changed \subseteq UNION {imports[i].marked : i \in DOMAIN imports}

Bounds == FewForms /\ OneWish /\ QuietStudio /\ OnePreview
=============================================================================
