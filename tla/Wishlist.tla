------------------------------ MODULE Wishlist ------------------------------
(***************************************************************************)
(* The wishlist (apps/organizer) and its way into the collection: a set    *)
(* created from a wish is remembered in the session (apps/catalog), and    *)
(* its first refresh marks the wish as purchased (apps/integrations).      *)
(* Forms check for duplicates first and save the whole row later, with a   *)
(* call to Rebrickable between; no constraint of the table backs them up.  *)
(* A session is read at the start of a request and written whole at its    *)
(* end, after the transaction of the view.                                 *)
(***************************************************************************)
EXTENDS FiniteSets, Functions

CONSTANTS
    WishRequests,   \* requests of one owner in one session
    Wishes,         \* primary keys of WishlistItem
    Purchases,      \* primary keys of the sets that are created
    References,     \* set numbers as normalize_rebrickable_set_number gives them
    NumberOf,       \* the set_number of Rebrickable's answer, or Unknown
    Unknown, NoWish,
    PostedStatuses  \* what the forms post as status (bounds the model)

ASSUME WishAssumption ==
    /\ NumberOf \in [References -> References \cup {Unknown}]
    /\ Unknown \notin References /\ NoWish \notin Wishes

VARIABLES
    wishes,       \* WishlistItem rows ever stored
    purchases,    \* LegoSet rows: their number, or Unknown
    session,      \* newly_purchased_pending and wishlist_pending, set to wish
    wishRequest,  \* what each request is doing
    alone,        \* do the requests of this behaviour come one at a time?
    bought        \* sets whose refresh has not come yet, by wish (history)

wishVars == <<wishes, purchases, session, wishRequest, alone, bought>>

NoRow == [live |-> FALSE, used |-> FALSE, reference |-> Unknown,
          status |-> "wish"]

WishIdle == [stage |-> "idle", wish |-> NoWish, form |-> NoRow, seen |-> [newly |-> {}, wishes |-> << >>]]

WishInit ==
    /\ wishes = [w \in Wishes |-> NoRow]
    /\ purchases = [s \in Purchases |-> Unknown]
    /\ session = [newly |-> {}, wishes |-> << >>] /\ bought = << >>
    /\ wishRequest = [r \in WishRequests |-> WishIdle]
    /\ alone \in BOOLEAN

Asks(r, request) ==
    /\ wishRequest[r] = WishIdle
    /\ alone => \A q \in WishRequests : wishRequest[q] = WishIdle
    /\ wishRequest' = [wishRequest EXCEPT ![r] = request]

Answered(r) == wishRequest' = [wishRequest EXCEPT ![r] = WishIdle]

Live(w) == wishes[w].live

\* The set is on the list under another key.
Duplicate(reference, except) ==
    \E w \in Wishes \ except : Live(w) /\ wishes[w].reference = reference

-----------------------------------------------------------------------------
\* area_edit without a key, up to the question to Rebrickable: clean_reference
\* refuses a reference that is on the list.
AddWish(r, reference, status) ==
    /\ ~Duplicate(reference, {})
    /\ Asks(r, [WishIdle EXCEPT !.stage = "adding",
                   !.form = [NoRow EXCEPT !.reference = reference, !.status = status]])
    /\ UNCHANGED <<wishes, purchases, session, alone, bought>>

\* Rebrickable answers: name and pieces, under the number it knows the set by;
\* that number is looked for once more, then the row is inserted.
InsertWish(r, w) ==
    LET number == NumberOf[wishRequest[r].form.reference]
    IN  /\ wishRequest[r].stage = "adding" /\ ~wishes[w].used
        /\ wishes' = IF number = Unknown \/ Duplicate(number, {}) THEN wishes
                     ELSE [wishes EXCEPT ![w] =
                             [wishRequest[r].form EXCEPT !.live = TRUE, !.used = TRUE,
                                !.reference = number]]
        /\ Answered(r)
        /\ UNCHANGED <<purchases, session, alone, bought>>

\* area_edit of a wish: the row is read, the form writes to it, the reference
\* must not be on the list otherwise.  reference_changed compares the row with
\* itself, so that Rebrickable is not asked.
EditWish(r, w, reference, status) ==
    /\ Live(w) /\ ~Duplicate(reference, {w})
    /\ Asks(r, [WishIdle EXCEPT !.stage = "editing", !.wish = w,
                   !.form = [wishes[w] EXCEPT !.reference = reference, !.status = status]])
    /\ UNCHANGED <<wishes, purchases, session, alone, bought>>

\* The whole row is saved, and inserted again if it has been deleted.
SaveWish(r) ==
    /\ wishRequest[r].stage = "editing"
    /\ wishes' = [wishes EXCEPT ![wishRequest[r].wish] = wishRequest[r].form]
    /\ Answered(r)
    /\ UNCHANGED <<purchases, session, alone, bought>>

\* area_delete
DeleteWish(r, w) ==
    /\ Live(w) /\ Asks(r, WishIdle)
    /\ wishes' = [wishes EXCEPT ![w].live = FALSE]
    /\ UNCHANGED <<purchases, session, alone, bought>>
-----------------------------------------------------------------------------
\* set_edit with wishlist_item: the session is read, the wish is looked up and
\* its number compared with the one posted.
BuyWish(r, w) ==
    /\ Live(w)
    /\ Asks(r, [WishIdle EXCEPT !.stage = "buying", !.wish = w, !.form = wishes[w],
                                !.seen = session])
    /\ UNCHANGED <<wishes, purchases, session, alone, bought>>

\* The entries of a mapping, with one more or another value for it
WithEntry(entries, s, w) ==
    [t \in DOMAIN entries \cup {s} |-> IF t = s THEN w ELSE entries[t]]

\* Seeded fault: the session keeps one wish, like a form field.
RememberedAlone(seen, s, w) ==
    [newly |-> seen.newly \cup {s}, wishes |-> WithEntry(<< >>, s, w)]

Remembered(seen, s, w) ==
    [newly |-> seen.newly \cup {s}, wishes |-> WithEntry(seen.wishes, s, w)]

\* The set is saved (a live set of that number makes the form fail), the
\* session of this request is stored.
SavePurchase(r, s) ==
    LET request == wishRequest[r]
        number == request.form.reference
        free == \A t \in Purchases : purchases[t] # number
    IN  /\ request.stage = "buying" /\ purchases[s] = Unknown
        /\ IF free
           THEN /\ purchases' = [purchases EXCEPT ![s] = number]
                /\ session' = Remembered(request.seen, s, request.wish)
                /\ bought' = WithEntry(bought, s, request.wish)
           ELSE UNCHANGED <<purchases, session, bought>>
        /\ Answered(r)
        /\ UNCHANGED <<wishes, alone>>

\* sync_rebrickable: the session is read; with bulk it keeps its wishes.
RefreshPurchase(r, s, bulk) ==
    /\ purchases[s] # Unknown
    /\ Asks(r, [WishIdle EXCEPT !.stage = IF bulk THEN "bulk" ELSE "refreshing",
                                !.wish = s, !.seen = session])
    /\ UNCHANGED <<wishes, purchases, session, alone, bought>>

\* update(status=PURCHASED) of the wish
Marked(w) == IF w \in Wishes /\ Live(w) THEN [wishes EXCEPT ![w].status = "purchased"]
             ELSE wishes

\* The refresh succeeds and commits; with bulk it asks for no wish.  The entry
\* leaves the session if its wish was there to be marked.
CommitRefresh(r) ==
    LET request == wishRequest[r]
        s == request.wish
        seen == request.seen
        listed == s \in DOMAIN seen.wishes
        marks == listed /\ Live(seen.wishes[s])
    IN  /\ request.stage \in {"refreshing", "bulk"}
        /\ Answered(r)
        /\ IF request.stage = "refreshing"
           THEN /\ wishes' = IF listed THEN Marked(seen.wishes[s]) ELSE wishes
                /\ session' = IF s \in seen.newly \/ marks
                              THEN [newly |-> seen.newly \ {s},
                                    wishes |-> IF marks
                                               THEN Restrict(seen.wishes, DOMAIN seen.wishes \ {s})
                                               ELSE seen.wishes]
                              ELSE session
                /\ bought' = Restrict(bought, DOMAIN bought \ {s})
           ELSE UNCHANGED <<wishes, session, bought>>
        /\ UNCHANGED <<purchases, alone>>

\* The reply fails or the transaction is rolled back: nothing is stored.
RefreshFails(r) ==
    /\ wishRequest[r].stage \in {"refreshing", "bulk"}
    /\ Answered(r)
    /\ UNCHANGED <<wishes, purchases, session, alone, bought>>

WishNext ==
    \E r \in WishRequests :
       \/ \E reference \in References, status \in PostedStatuses :
            AddWish(r, reference, status) \/ \E w \in Wishes : EditWish(r, w, reference, status)
       \/ \E w \in Wishes : InsertWish(r, w) \/ DeleteWish(r, w) \/ BuyWish(r, w)
       \/ \E s \in Purchases : SavePurchase(r, s)
       \/ \E s \in Purchases, bulk \in BOOLEAN : RefreshPurchase(r, s, bulk)
       \/ SaveWish(r) \/ CommitRefresh(r) \/ RefreshFails(r)

WishSpec == WishInit /\ [][WishNext]_wishVars
-----------------------------------------------------------------------------
\* As long as the requests of the owner come one at a time, no set is on the
\* list twice, and the first refresh of a set that was created from a wish marks
\* that wish as purchased, whatever was created, refreshed or edited in between
\* and however often a refresh failed (area_edit, set_edit, sync_rebrickable).
WishesHonoured ==
    [][alone =>
        /\ \A w \in Wishes : Live(w)' => ~Duplicate(wishes[w].reference, {w})'
        /\ \A s \in DOMAIN bought \ DOMAIN bought' :
             wishes'[bought[s]].live => wishes'[bought[s]].status = "purchased"]_wishVars
=============================================================================
