-------------------------- MODULE Organizer_proofs --------------------------
(***************************************************************************)
(* The desks of the organizer and the import of an order, each for any     *)
(* rows, files and users and every interleaving of its requests: the       *)
(* wishlist, the MOC with its versions, the label studio, the order.       *)
(***************************************************************************)
EXTENDS Wishlist, MocVersions, LabelStudio, OrderImport, SumTheorems, TLAPS

-----------------------------------------------------------------------------
(***************************************************************************)
(* The wishlist: what a session remembers of the sets it has bought.       *)
(***************************************************************************)
WishStatuses == PostedStatuses \cup {"wish", "purchased"}
WishRow == [live : BOOLEAN, used : BOOLEAN, reference : References \cup {Unknown},
            status : WishStatuses]

\* What the requests and the session refer to
WishTypes ==
    /\ wishes \in [Wishes -> WishRow]
    /\ \A w \in Wishes : wishes[w].live => wishes[w].used
    /\ \A s \in DOMAIN bought : bought[s] \in Wishes

\* What a request goes on with, by what it is doing
WishRequestKnows(q) ==
    /\ q.stage = "adding" => q.form \in WishRow /\ q.form.reference \in References
    /\ q.stage = "editing" => q.wish \in Wishes /\ q.form \in WishRow /\ q.form.live /\ q.form.used
    /\ q.stage = "buying" => q.wish \in Wishes

WishRequestsKnow ==
    /\ wishRequest = [r \in WishRequests |-> wishRequest[r]]
    /\ \A r \in WishRequests : WishRequestKnows(wishRequest[r])

\* One request at a time: what it knows is what is stored.
OneAtATime ==
    \A r \in WishRequests : wishRequest[r] # WishIdle =>
        /\ \A q \in WishRequests \ {r} : wishRequest[q] = WishIdle
        /\ wishRequest[r].stage = "editing"
             => ~Duplicate(wishRequest[r].form.reference, {wishRequest[r].wish})
        /\ wishRequest[r].stage \in {"buying", "refreshing", "bulk"}
             => wishRequest[r].seen = session

\* The session knows the wish of every set whose refresh has not come.
SessionRemembers ==
    \A s \in DOMAIN bought : s \in DOMAIN session.wishes /\ session.wishes[s] = bought[s]

\* No live wish has another live one with its reference.
OnceOnList == \A w \in Wishes : Live(w) => ~Duplicate(wishes[w].reference, {w})

WishInv ==
    /\ WishTypes /\ WishRequestsKnow
    /\ alone => OneAtATime /\ SessionRemembers /\ OnceOnList

LEMMA WishInvInit == WishInit => WishInv
<1> SUFFICES ASSUME WishInit PROVE WishInv
  OBVIOUS
<1>1. NoRow \in WishRow /\ ~NoRow.live
  BY DEF NoRow, WishRow, WishStatuses
<1>2. WishTypes /\ SessionRemembers /\ OnceOnList
  BY <1>1 DEF WishInit, WishTypes, SessionRemembers, OnceOnList, Live
<1>3. WishRequestsKnow /\ OneAtATime
  BY DEF WishInit, WishRequestsKnow, WishRequestKnows, WishIdle, OneAtATime
<1> QED BY <1>2, <1>3 DEF WishInv

\* A request begins with the rows and the session as they are.
LEMMA AskKeeps ==
    ASSUME WishInv, UNCHANGED <<wishes, session, alone, bought>>,
           NEW r \in WishRequests, NEW q, Asks(r, q), WishRequestKnows(q),
           q.stage = "editing" => ~Duplicate(q.form.reference, {q.wish}),
           q.stage \in {"buying", "refreshing", "bulk"} => q.seen = session
    PROVE  WishInv'
<1>1. WishTypes' /\ (alone => SessionRemembers' /\ OnceOnList')
  BY DEF WishInv, WishTypes, SessionRemembers, OnceOnList, Live, Duplicate
<1>2. wishRequest' = [wishRequest EXCEPT ![r] = q] /\ DOMAIN wishRequest = WishRequests
  BY DEF Asks, WishInv, WishRequestsKnow
<1>3. WishRequestsKnow'
  BY <1>2 DEF WishInv, WishRequestsKnow, WishRequestKnows
<1>4. ASSUME alone PROVE OneAtATime'
  <2>1. \A p \in WishRequests \ {r} : wishRequest'[p] = WishIdle
    BY <1>2, <1>4 DEF Asks
  <2> QED BY <1>2, <2>1 DEF OneAtATime, Duplicate, Live
<1> QED BY <1>1, <1>3, <1>4 DEF WishInv

\* A request ends: the rows it leaves are typed, and right when it was alone.
LEMMA AnswerKeeps ==
    ASSUME WishInv, UNCHANGED alone, NEW r \in WishRequests, Answered(r),
           wishRequest[r] # WishIdle, WishTypes',
           alone => SessionRemembers' /\ OnceOnList'
    PROVE  WishInv'
<1>1. wishRequest' = [wishRequest EXCEPT ![r] = WishIdle] /\ DOMAIN wishRequest = WishRequests
  BY DEF Answered, WishInv, WishRequestsKnow
<1>2. WishRequestsKnow'
  BY <1>1 DEF WishInv, WishRequestsKnow, WishRequestKnows, WishIdle
<1>3. alone => OneAtATime'
  BY <1>1 DEF OneAtATime, WishInv
<1> QED BY <1>2, <1>3 DEF WishInv

LEMMA AddKeeps ==
    ASSUME WishInv, NEW r \in WishRequests, NEW reference \in References,
           NEW status \in PostedStatuses, AddWish(r, reference, status)
    PROVE  WishInv'
<1> DEFINE form == [NoRow EXCEPT !.reference = reference, !.status = status]
           q == [WishIdle EXCEPT !.stage = "adding", !.form = form]
<1>1. form \in WishRow /\ form.reference \in References
  BY DEF NoRow, WishRow, WishStatuses
<1>2. q.stage = "adding" /\ q.form = form
  BY DEF WishIdle
<1>3. WishRequestKnows(q)
  BY <1>1, <1>2 DEF WishRequestKnows
<1> QED BY <1>2, <1>3, AskKeeps DEF AddWish

LEMMA InsertKeeps ==
    ASSUME WishInv, NEW r \in WishRequests, NEW w \in Wishes, InsertWish(r, w)
    PROVE  WishInv'
<1> DEFINE form == wishRequest[r].form
           number == NumberOf[form.reference]
           row == [form EXCEPT !.live = TRUE, !.used = TRUE, !.reference = number]
<1>1. wishRequest[r] # WishIdle /\ form \in WishRow /\ number \in References \cup {Unknown}
  BY WishAssumption DEF InsertWish, WishInv, WishRequestsKnow, WishRequestKnows, WishIdle
<1>2. row \in WishRow /\ row.live /\ row.used /\ row.reference = number
  BY <1>1 DEF WishRow
<1>3. CASE number = Unknown \/ Duplicate(number, {})
  BY <1>1, <1>3, AnswerKeeps DEF InsertWish, WishInv, WishTypes, SessionRemembers, OnceOnList,
     Live, Duplicate
<1>4. CASE ~(number = Unknown \/ Duplicate(number, {}))
  <2>1. wishes' = [wishes EXCEPT ![w] = row]
    BY <1>4 DEF InsertWish
  <2>2. WishTypes'
    BY <1>2, <2>1 DEF InsertWish, WishInv, WishTypes
  <2>3. ASSUME alone PROVE SessionRemembers' /\ OnceOnList'
    <3>1. SessionRemembers'
      BY <2>3 DEF InsertWish, WishInv, SessionRemembers
    <3>2. \A v \in Wishes : Live(v) => wishes[v].reference # number
      BY <1>4 DEF Duplicate
    <3>3. OnceOnList'
      BY <1>2, <2>1, <2>3, <3>2 DEF WishInv, WishTypes, OnceOnList, Live, Duplicate
    <3> QED BY <3>1, <3>3
  <2> QED BY <1>1, <2>2, <2>3, AnswerKeeps DEF InsertWish
<1> QED BY <1>3, <1>4

LEMMA EditKeeps ==
    ASSUME WishInv, NEW r \in WishRequests, NEW w \in Wishes, NEW reference \in References,
           NEW status \in PostedStatuses, EditWish(r, w, reference, status)
    PROVE  WishInv'
<1> DEFINE form == [wishes[w] EXCEPT !.reference = reference, !.status = status]
           q == [WishIdle EXCEPT !.stage = "editing", !.wish = w, !.form = form]
<1>1. wishes[w] \in WishRow /\ wishes[w].live /\ wishes[w].used
  BY DEF EditWish, Live, WishInv, WishTypes
<1>2. form \in WishRow /\ form.live /\ form.used /\ form.reference = reference
  BY <1>1 DEF WishRow, WishStatuses
<1>3. q.stage = "editing" /\ q.wish = w /\ q.form = form
  BY DEF WishIdle
<1>4. WishRequestKnows(q) /\ ~Duplicate(q.form.reference, {q.wish})
  BY <1>2, <1>3 DEF WishRequestKnows, EditWish
<1> QED BY <1>3, <1>4, AskKeeps DEF EditWish

LEMMA SaveKeeps ==
    ASSUME WishInv, NEW r \in WishRequests, SaveWish(r)
    PROVE  WishInv'
<1> DEFINE form == wishRequest[r].form
           w == wishRequest[r].wish
<1>1. wishRequest[r] # WishIdle /\ w \in Wishes /\ form \in WishRow /\ form.live /\ form.used
  BY DEF SaveWish, WishInv, WishRequestsKnow, WishRequestKnows, WishIdle
<1>2. wishes' = [wishes EXCEPT ![w] = form]
  BY DEF SaveWish
<1>3. WishTypes'
  BY <1>1, <1>2 DEF SaveWish, WishInv, WishTypes
<1>4. ASSUME alone PROVE SessionRemembers' /\ OnceOnList'
  <2>1. SessionRemembers'
    BY <1>4 DEF SaveWish, WishInv, SessionRemembers
  <2>2. ~Duplicate(form.reference, {w})
    BY <1>1, <1>4 DEF SaveWish, WishInv, OneAtATime
  <2>3. OnceOnList'
    BY <1>1, <1>2, <1>4, <2>2 DEF WishInv, WishTypes, OnceOnList, Live, Duplicate
  <2> QED BY <2>1, <2>3
<1> QED BY <1>1, <1>3, <1>4, AnswerKeeps DEF SaveWish

LEMMA DeleteKeeps ==
    ASSUME WishInv, NEW r \in WishRequests, NEW w \in Wishes, DeleteWish(r, w)
    PROVE  WishInv'
<1>1. wishes' = [wishes EXCEPT ![w].live = FALSE]
  BY DEF DeleteWish
<1>2. wishRequest' = wishRequest
  BY DEF DeleteWish, Asks, WishInv, WishRequestsKnow
<1>3. WishTypes' /\ WishRequestsKnow'
  <2>1. WishTypes'
    <3>1. \A v \in Wishes : [wishes[v] EXCEPT !.live = FALSE] \in WishRow
      BY DEF WishInv, WishTypes, WishRow
    <3>2. wishes' \in [Wishes -> WishRow]
      BY <1>1, <3>1 DEF WishInv, WishTypes
    <3>3. \A v \in Wishes : wishes'[v].live => wishes[v].live /\ wishes'[v] = wishes[v]
      BY <1>1 DEF WishInv, WishTypes, WishRow
    <3> QED BY <3>2, <3>3 DEF DeleteWish, WishInv, WishTypes
  <2>2. WishRequestsKnow'
    BY <1>2 DEF WishInv, WishRequestsKnow, WishRequestKnows
  <2> QED BY <2>1, <2>2
<1>4. ASSUME alone PROVE OneAtATime' /\ SessionRemembers' /\ OnceOnList'
  <2>1. \A q \in WishRequests : wishRequest'[q] = WishIdle
    BY <1>2, <1>4 DEF DeleteWish, Asks
  <2>2. OnceOnList'
    BY <1>1, <1>4 DEF WishInv, WishTypes, WishRow, OnceOnList, Live, Duplicate
  <2>3. SessionRemembers'
    BY <1>4 DEF DeleteWish, WishInv, SessionRemembers
  <2> QED BY <2>1, <2>2, <2>3 DEF OneAtATime
<1> QED BY <1>3, <1>4 DEF WishInv, DeleteWish

LEMMA BuyKeeps ==
    ASSUME WishInv, NEW r \in WishRequests, NEW w \in Wishes, BuyWish(r, w)
    PROVE  WishInv'
<1> DEFINE q == [WishIdle EXCEPT !.stage = "buying", !.wish = w, !.form = wishes[w],
                                 !.seen = session]
<1>1. q.stage = "buying" /\ q.wish = w /\ q.seen = session
  BY DEF WishIdle
<1> QED BY <1>1, AskKeeps DEF BuyWish, WishRequestKnows

LEMMA PurchaseKeeps ==
    ASSUME WishInv, NEW r \in WishRequests, NEW s \in Purchases, SavePurchase(r, s)
    PROVE  WishInv'
<1> DEFINE request == wishRequest[r]
           free == \A t \in Purchases : purchases[t] # request.form.reference
<1>1. request # WishIdle /\ request.wish \in Wishes
  BY DEF SavePurchase, WishInv, WishRequestsKnow, WishRequestKnows, WishIdle
<1>2. WishTypes'
  BY <1>1 DEF SavePurchase, WishInv, WishTypes, WithEntry
<1>3. ASSUME alone PROVE SessionRemembers' /\ OnceOnList'
  <2>1. request.seen = session /\ SessionRemembers
    BY <1>1, <1>3 DEF SavePurchase, WishInv, OneAtATime
  <2>2. SessionRemembers'
    BY <2>1 DEF SavePurchase, SessionRemembers, Remembered, WithEntry
  <2>3. OnceOnList'
    BY <1>3 DEF SavePurchase, WishInv, OnceOnList, Live, Duplicate
  <2> QED BY <2>2, <2>3
<1> QED BY <1>1, <1>2, <1>3, AnswerKeeps DEF SavePurchase

LEMMA RefreshKeeps ==
    ASSUME WishInv, NEW r \in WishRequests, NEW s \in Purchases, NEW bulk \in BOOLEAN,
           RefreshPurchase(r, s, bulk)
    PROVE  WishInv'
<1> DEFINE stage == IF bulk THEN "bulk" ELSE "refreshing"
           q == [WishIdle EXCEPT !.stage = stage, !.wish = s, !.seen = session]
<1>1. q.stage \in {"bulk", "refreshing"} /\ q.seen = session
  BY DEF WishIdle
<1> QED BY <1>1, AskKeeps DEF RefreshPurchase, WishRequestKnows

LEMMA MarkedRows ==
    ASSUME WishTypes, NEW w
    PROVE  /\ Marked(w) \in [Wishes -> WishRow]
           /\ \A v \in Wishes : /\ Marked(w)[v].live = wishes[v].live
                                /\ Marked(w)[v].used = wishes[v].used
                                /\ Marked(w)[v].reference = wishes[v].reference
           /\ w \in Wishes /\ Marked(w)[w].live => Marked(w)[w].status = "purchased"
BY DEF WishTypes, WishRow, WishStatuses, Marked, Live

LEMMA CommitKeeps ==
    ASSUME WishInv, NEW r \in WishRequests, CommitRefresh(r)
    PROVE  WishInv'
<1> DEFINE request == wishRequest[r]
<1>1. request # WishIdle
  BY DEF CommitRefresh, WishIdle
<1>2. wishes' = wishes \/ \E w : wishes' = Marked(w)
  BY DEF CommitRefresh
<1>3. /\ wishes' \in [Wishes -> WishRow]
      /\ \A v \in Wishes : /\ wishes'[v].live = wishes[v].live
                           /\ wishes'[v].used = wishes[v].used
                           /\ wishes'[v].reference = wishes[v].reference
  BY <1>2, MarkedRows DEF WishInv, WishTypes
<1>4. \A s \in DOMAIN bought' : s \in DOMAIN bought /\ bought'[s] = bought[s]
  BY DEF CommitRefresh, Restrict
<1>5. WishTypes'
  BY <1>3, <1>4 DEF WishInv, WishTypes
<1>6. ASSUME alone PROVE SessionRemembers' /\ OnceOnList'
  <2>1. request.seen = session /\ SessionRemembers
    BY <1>1, <1>6 DEF CommitRefresh, WishInv, OneAtATime
  <2>2. SessionRemembers'
    BY <1>4, <2>1 DEF CommitRefresh, SessionRemembers, Restrict
  <2>3. OnceOnList'
    BY <1>3, <1>6 DEF WishInv, OnceOnList, Live, Duplicate
  <2> QED BY <2>2, <2>3
<1> QED BY <1>1, <1>5, <1>6, AnswerKeeps DEF CommitRefresh

LEMMA FailureKeeps ==
    ASSUME WishInv, NEW r \in WishRequests, RefreshFails(r)
    PROVE  WishInv'
<1>1. wishRequest[r] # WishIdle
  BY DEF RefreshFails, WishIdle
<1> QED BY <1>1, AnswerKeeps DEF RefreshFails, WishInv, WishTypes, SessionRemembers, OnceOnList,
        Live, Duplicate

LEMMA WishInvNext == WishInv /\ [WishNext]_wishVars => WishInv'
<1> SUFFICES ASSUME WishInv, [WishNext]_wishVars PROVE WishInv'
  OBVIOUS
<1>1. CASE UNCHANGED wishVars
  BY <1>1 DEF wishVars, WishInv, WishTypes, WishRequestsKnow, WishRequestKnows, OneAtATime,
     SessionRemembers, OnceOnList, Live, Duplicate
<1>2. CASE WishNext
  <2>1. PICK r \in WishRequests :
       \/ \E reference \in References, status \in PostedStatuses :
            AddWish(r, reference, status) \/ \E w \in Wishes : EditWish(r, w, reference, status)
       \/ \E w \in Wishes : InsertWish(r, w) \/ DeleteWish(r, w) \/ BuyWish(r, w)
       \/ \E s \in Purchases : SavePurchase(r, s)
       \/ \E s \in Purchases, bulk \in BOOLEAN : RefreshPurchase(r, s, bulk)
       \/ SaveWish(r) \/ CommitRefresh(r) \/ RefreshFails(r)
    BY <1>2 DEF WishNext
  <2> QED BY <2>1, AddKeeps, InsertKeeps, EditKeeps, SaveKeeps, DeleteKeeps, BuyKeeps,
          PurchaseKeeps, RefreshKeeps, CommitKeeps, FailureKeeps
<1> QED BY <1>1, <1>2

\* One form at a time: the list stays free of duplicates, and a set leaves those
\* that wait for their refresh only when its wish is marked.
LEMMA HonouredStep ==
    ASSUME WishInv, WishInv', [WishNext]_wishVars, alone
    PROVE  /\ \A w \in Wishes : Live(w)' => ~Duplicate(wishes[w].reference, {w})'
           /\ \A s \in DOMAIN bought \ DOMAIN bought' :
                wishes'[bought[s]].live => wishes'[bought[s]].status = "purchased"
<1>1. alone' = alone
  BY DEF wishVars, WishNext, AddWish, InsertWish, EditWish, SaveWish, DeleteWish, BuyWish,
     SavePurchase, RefreshPurchase, CommitRefresh, RefreshFails
<1>2. \A w \in Wishes : Live(w)' => ~Duplicate(wishes[w].reference, {w})'
  BY <1>1 DEF WishInv, OnceOnList
<1>3. ASSUME NEW s \in DOMAIN bought \ DOMAIN bought', wishes'[bought[s]].live
      PROVE  wishes'[bought[s]].status = "purchased"
  <2>1. \A r \in WishRequests, t \in Purchases : ~SavePurchase(r, t)
    BY <1>3 DEF SavePurchase, WithEntry
  <2>2. PICK r \in WishRequests : CommitRefresh(r)
    BY <1>3, <2>1 DEF wishVars, WishNext, AddWish, InsertWish, EditWish, SaveWish, DeleteWish,
       BuyWish, RefreshPurchase, RefreshFails
  <2> DEFINE request == wishRequest[r]
  <2>3. request.stage = "refreshing" /\ request.wish = s
    BY <1>3, <2>2 DEF CommitRefresh, Restrict
  <2>4. request.seen = session /\ SessionRemembers
    <3>1. request # WishIdle /\ OneAtATime /\ SessionRemembers
      BY <2>3 DEF WishInv, WishIdle
    <3> QED BY <2>3, <3>1 DEF OneAtATime
  <2>5. s \in DOMAIN request.seen.wishes /\ request.seen.wishes[s] = bought[s]
    BY <2>4 DEF SessionRemembers
  <2>6. wishes' = Marked(bought[s]) /\ bought[s] \in Wishes
    BY <2>2, <2>3, <2>5 DEF CommitRefresh, WishInv, WishTypes
  <2> QED BY <1>3, <2>6, MarkedRows DEF WishInv
<1> QED BY <1>2, <1>3

\* As long as requests do not overlap, no two live wishes ask for the same set
\* and a purchase that has been refreshed marks its wish, for any wishes, sets
\* and sessions (area_edit, set_edit, sync_rebrickable).
THEOREM WishesStayHonoured == WishSpec => WishesHonoured
<1>1. WishInv /\ WishInv' /\ [WishNext]_wishVars
        => [alone =>
            /\ \A w \in Wishes : Live(w)' => ~Duplicate(wishes[w].reference, {w})'
            /\ \A s \in DOMAIN bought \ DOMAIN bought' :
                 wishes'[bought[s]].live => wishes'[bought[s]].status = "purchased"]_wishVars
  BY HonouredStep
<1> QED BY <1>1, WishInvInit, WishInvNext, PTL DEF WishSpec, WishesHonoured

-----------------------------------------------------------------------------
(***************************************************************************)
(* The MOC: an activation under the lock, and forms that were open before. *)
(***************************************************************************)
MocRow == [exists : BOOLEAN, version : VersionNames]

\* Keys of parts are below the next one; the rows of versions are rows.
MocTypes ==
    /\ moc \in MocRow
    /\ nextPart \in Nat \ {0} /\ DOMAIN mocParts \subseteq 1..(nextPart - 1)
    /\ \A k \in DOMAIN mocParts : mocParts[k] \in Contents
    /\ versions = [v \in Versions |-> versions[v]]
    /\ \A v \in Versions : versions[v] # NoVersion => versions[v] \in VersionRow

\* What a request goes on with, by what it is doing
MocRequestKnows(q) ==
    /\ DOMAIN q = {"stage", "key", "content", "version", "name", "snapshot", "gone"}
    /\ q.stage = "version" => q.snapshot \in Seq(Contents)
    /\ q.stage = "rename" =>
         /\ q.version \in Versions /\ versions[q.version] # NoVersion
         /\ q.snapshot = versions[q.version].snapshot
    /\ q.stage \in {"locked", "deleted"} => q.name \in VersionNames /\ q.snapshot \in Seq(Contents)
    /\ q.stage = "part" => q.key \in {NoValue} \cup 1..(nextPart - 1)

\* The activation that has deleted the parts still sees what was there.
NothingBeside ==
    \A r \in MocRequests :
       /\ Doing(r, "locked") \/ Doing(r, "deleted") => mocLock = {r}
       /\ Doing(r, "deleted") => mocRequest[r].gone = DOMAIN mocParts

MocRequestsKnow ==
    /\ mocRequest = [r \in MocRequests |-> mocRequest[r]]
    /\ \A r \in MocRequests : MocRequestKnows(mocRequest[r])

MocInv == MocTypes /\ MocRequestsKnow /\ NothingBeside

LEMMA MocInvInit == MocInit => MocInv
<1> SUFFICES ASSUME MocInit PROVE MocInv
  OBVIOUS
<1>1. moc \in MocRow
  BY MocAssumption DEF MocInit, MocRow
<1>2. nextPart \in Nat \ {0} /\ DOMAIN mocParts \subseteq 1..(nextPart - 1)
  <2>1. nextPart = 2 /\ DOMAIN mocParts = {1}
    BY DEF MocInit
  <2> QED BY <2>1
<1>3. \A k \in DOMAIN mocParts : mocParts[k] \in Contents
  BY MocAssumption DEF MocInit
<1>4. /\ versions = [v \in Versions |-> versions[v]]
      /\ \A v \in Versions : versions[v] # NoVersion => versions[v] \in VersionRow
  <2>1. ASSUME NEW n \in VersionNames, NEW c \in Contents
        PROVE  [live |-> TRUE, name |-> n, snapshot |-> <<c>>] \in VersionRow
    BY DEF VersionRow
  <2> QED BY <2>1 DEF MocInit
<1>5. MocTypes
  BY <1>1, <1>2, <1>3, <1>4 DEF MocTypes
<1>6. MocRequestsKnow /\ NothingBeside
  BY DEF MocInit, MocRequestsKnow, MocRequestKnows, NothingBeside, Doing, MocIdle
<1> QED BY <1>5, <1>6 DEF MocInv

\* Every place up to the number of parts is the place of one part.
LEMMA PlacesFilled ==
    ASSUME MocTypes
    PROVE  /\ IsFiniteSet(DOMAIN mocParts) /\ Cardinality(DOMAIN mocParts) \in Nat
           /\ \A i \in 1..Cardinality(DOMAIN mocParts) : \E k \in DOMAIN mocParts : Place(k) = i
<1> DEFINE S == DOMAIN mocParts
           n == Cardinality(S)
           upTo(k) == {j \in S : j <= k}
           f == [k \in S |-> Place(k)]
<1>1. IsFiniteSet(S) /\ n \in Nat /\ S \subseteq Nat
  <2>1. IsFiniteSet(1..(nextPart - 1)) /\ S \in SUBSET (1..(nextPart - 1))
    BY FS_Interval DEF MocTypes
  <2>2. IsFiniteSet(S)
    BY <2>1, FS_Subset
  <2> QED BY <2>1, <2>2, FS_CardinalityType
<1>2. ASSUME NEW k \in S
      PROVE  IsFiniteSet(upTo(k)) /\ Place(k) \in 1..n
  <2>1. IsFiniteSet(upTo(k)) /\ Cardinality(upTo(k)) <= n /\ Cardinality(upTo(k)) \in Nat
    BY <1>1, FS_Subset, FS_CardinalityType
  <2>2. k \in upTo(k)
    BY <1>1
  <2>3. Cardinality(upTo(k)) # 0
    BY <2>1, <2>2, FS_EmptySet
  <2> QED BY <1>1, <2>1, <2>3 DEF Place
<1>3. ASSUME NEW j \in S, NEW k \in S, j < k PROVE f[j] # f[k]
  <2>1. upTo(j) \in SUBSET upTo(k) /\ k \in upTo(k) /\ k \notin upTo(j)
    BY <1>1, <1>3
  <2>2. Cardinality(upTo(k)) # Cardinality(upTo(j))
    BY <1>2, <2>1, FS_Subset
  <2> QED BY <2>2 DEF Place
<1>4. f \in Injection(S, 1..n)
  <2>1. f \in [S -> 1..n]
    BY <1>2
  <2>2. \A j, k \in S : j # k => f[j] # f[k]
    BY <1>1, <1>3
  <2> QED BY <2>1, <2>2 DEF Injection, IsInjective
<1>5. IsFiniteSet(1..n) /\ Cardinality(1..n) = n
  BY <1>1, FS_Interval
<1>6. f \in Surjection(S, 1..n)
  BY <1>4, <1>5, FS_Injection
<1>7. \A i \in 1..n : \E k \in S : f[k] = i
  BY <1>6 DEF Surjection, Range
<1> QED BY <1>1, <1>7

LEMMA RowsAsSequence ==
    ASSUME NEW S, NEW n \in Nat, NEW f \in [1..n -> S]
    PROVE  f \in Seq(S)
OBVIOUS

LEMMA SnapshotHolds == ASSUME MocTypes PROVE Snapshot \in Seq(Contents)
<1> DEFINE n == Cardinality(DOMAIN mocParts)
<1>1. n \in Nat
  BY PlacesFilled
<1>2. \A i \in 1..n : mocParts[CHOOSE k \in DOMAIN mocParts : Place(k) = i] \in Contents
  BY PlacesFilled DEF MocTypes
<1>3. Snapshot \in [1..n -> Contents]
  BY <1>2, Zenon DEF Snapshot
<1> QED BY <1>1, <1>3, RowsAsSequence

\* No version loses or changes its snapshot.
SnapshotsKept ==
    \A v \in Versions : versions[v] # NoVersion =>
       versions'[v] # NoVersion /\ versions'[v].snapshot = versions[v].snapshot

LEMMA BeginningKeeps ==
    ASSUME MocInv, NEW r \in MocRequests, NEW q, Begins(r, q), MocRequestKnows(q),
           q.stage \notin {"locked", "deleted"},
           UNCHANGED <<moc, mocParts, nextPart, versions, mocLock>>
    PROVE  MocInv'
<1>1. /\ mocRequest = [p \in MocRequests |-> mocRequest[p]]
      /\ mocRequest' = [mocRequest EXCEPT ![r] = q]
  BY DEF Begins, MocInv, MocRequestsKnow
<1>2. MocTypes'
  BY DEF MocInv, MocTypes
<1>3. MocRequestsKnow'
  BY <1>1 DEF MocInv, MocRequestsKnow, MocRequestKnows
<1>4. NothingBeside'
  BY <1>1 DEF MocInv, NothingBeside, Doing
<1> QED BY <1>2, <1>3, <1>4 DEF MocInv

\* A request ends that has not deleted any part.  Beside an activation that has,
\* it neither adds nor removes one.
LEMMA FinishingKeeps ==
    ASSUME MocInv, MocTypes', NEW r \in MocRequests, Finishes(r), SnapshotsKept,
           ~Doing(r, "locked"), ~Doing(r, "deleted"), UNCHANGED mocLock, nextPart' >= nextPart,
           (\E q \in MocRequests \ {r} : Doing(q, "deleted")) => DOMAIN mocParts' = DOMAIN mocParts
    PROVE  MocInv'
<1>1. /\ mocRequest = [p \in MocRequests |-> mocRequest[p]]
      /\ mocRequest' = [mocRequest EXCEPT ![r] = MocIdle]
  BY DEF Finishes, MocInv, MocRequestsKnow
<1>2. ASSUME NEW q \in MocRequests PROVE MocRequestKnows(mocRequest[q])'
  <2>1. CASE q = r
    BY <1>1, <2>1 DEF MocRequestKnows, MocIdle
  <2>2. CASE q # r
    <3>1. mocRequest'[q] = mocRequest[q] /\ MocRequestKnows(mocRequest[q])
      BY <1>1, <2>2 DEF MocInv, MocRequestsKnow
    <3>2. mocRequest[q].stage = "part" => mocRequest[q].key \in {NoValue} \cup 1..(nextPart' - 1)
      BY <3>1 DEF MocRequestKnows, MocInv, MocTypes
    <3> QED BY <3>1, <3>2 DEF MocRequestKnows, SnapshotsKept
  <2> QED BY <2>1, <2>2
<1>3. MocRequestsKnow'
  BY <1>1, <1>2 DEF MocRequestsKnow
<1>4. NothingBeside'
  <2>1. ASSUME NEW q \in MocRequests, q # r
        PROVE  mocRequest'[q] = mocRequest[q]
    BY <1>1, <2>1
  <2>2. mocRequest'[r].stage = "idle"
    BY <1>1 DEF MocIdle
  <2> QED BY <2>1, <2>2 DEF MocInv, NothingBeside, Doing
<1> QED BY <1>3, <1>4 DEF MocInv

LEMMA TakeSnapshotKeeps ==
    ASSUME MocInv, NEW r \in MocRequests, TakeSnapshot(r) PROVE MocInv'
<1> DEFINE q == [MocIdle EXCEPT !.stage = "version", !.snapshot = Snapshot]
<1>1. q.stage = "version" /\ q.snapshot = Snapshot /\ DOMAIN q = DOMAIN MocIdle
  BY DEF MocIdle
<1>2. MocRequestKnows(q)
  BY <1>1, SnapshotHolds DEF MocInv, MocRequestKnows, MocIdle
<1> QED BY <1>1, <1>2, BeginningKeeps DEF TakeSnapshot

LEMMA LoadVersionKeeps ==
    ASSUME MocInv, NEW r \in MocRequests, NEW v \in Versions, LoadVersion(r, v) PROVE MocInv'
<1> DEFINE q == [MocIdle EXCEPT !.stage = "rename", !.version = v,
                                !.snapshot = versions[v].snapshot]
<1>1. /\ q.stage = "rename" /\ q.version = v /\ q.snapshot = versions[v].snapshot
      /\ DOMAIN q = DOMAIN MocIdle
  BY DEF MocIdle
<1>2. MocRequestKnows(q)
  BY <1>1 DEF LoadVersion, Stored, MocRequestKnows, MocIdle
<1> QED BY <1>1, <1>2, BeginningKeeps DEF LoadVersion

LEMMA LoadPartKeeps ==
    ASSUME MocInv, NEW r \in MocRequests, NEW k \in DOMAIN mocParts \cup {NoValue},
           LoadPart(r, k)
    PROVE  MocInv'
<1> DEFINE q == [MocIdle EXCEPT !.stage = "part", !.key = k]
<1>1. q.stage = "part" /\ q.key = k /\ DOMAIN q = DOMAIN MocIdle
  BY DEF MocIdle
<1>2. MocRequestKnows(q)
  BY <1>1 DEF MocInv, MocTypes, MocRequestKnows, MocIdle
<1> QED BY <1>1, <1>2, BeginningKeeps DEF LoadPart

LEMMA LoadMocKeeps ==
    ASSUME MocInv, NEW r \in MocRequests, LoadMoc(r) PROVE MocInv'
<1> DEFINE q == [MocIdle EXCEPT !.stage = "moc"]
<1>1. q.stage = "moc" /\ DOMAIN q = DOMAIN MocIdle
  BY DEF MocIdle
<1>2. MocRequestKnows(q)
  BY <1>1 DEF MocRequestKnows, MocIdle
<1> QED BY <1>1, <1>2, BeginningKeeps DEF LoadMoc

LEMMA StoreVersionKeeps ==
    ASSUME MocInv, NEW r \in MocRequests, NEW v \in Versions, NEW name \in VersionNames,
           StoreVersion(r, v, name)
    PROVE  MocInv' /\ SnapshotsKept
<1> DEFINE row == [live |-> TRUE, name |-> name, snapshot |-> mocRequest[r].snapshot]
<1>1. mocRequest[r].snapshot \in Seq(Contents)
  BY DEF StoreVersion, Doing, MocInv, MocRequestsKnow, MocRequestKnows
<1>2. row \in VersionRow
  BY <1>1 DEF VersionRow
<1>3. versions' = versions \/ versions' = [versions EXCEPT ![v] = row]
  BY DEF StoreVersion
<1>4. MocTypes' /\ SnapshotsKept
  BY <1>2, <1>3 DEF StoreVersion, MocInv, MocTypes, SnapshotsKept
<1>5. nextPart' >= nextPart /\ DOMAIN mocParts' = DOMAIN mocParts /\ UNCHANGED mocLock
  BY DEF StoreVersion, MocInv, MocTypes
<1> QED BY <1>4, <1>5, FinishingKeeps DEF StoreVersion, Doing

LEMMA SaveVersionKeeps ==
    ASSUME MocInv, NEW r \in MocRequests, NEW name \in VersionNames, SaveVersion(r, name)
    PROVE  MocInv' /\ SnapshotsKept
<1> DEFINE v == mocRequest[r].version
           row == [live |-> TRUE, name |-> name, snapshot |-> mocRequest[r].snapshot]
<1>1. /\ v \in Versions /\ versions[v] # NoVersion
      /\ mocRequest[r].snapshot = versions[v].snapshot
  BY DEF SaveVersion, Doing, MocInv, MocRequestsKnow, MocRequestKnows
<1>2. row \in VersionRow /\ row.snapshot = versions[v].snapshot /\ row # NoVersion
  <2>1. versions[v] \in VersionRow
    BY <1>1 DEF MocInv, MocTypes
  <2>2. row.snapshot = versions[v].snapshot /\ versions[v].snapshot \in Seq(Contents)
    BY <1>1, <2>1 DEF VersionRow
  <2>3. row \in VersionRow
    BY <2>2 DEF VersionRow
  <2> QED BY <2>2, <2>3, MocAssumption
<1>3. versions' = versions \/ versions' = [versions EXCEPT ![v] = row]
  BY DEF SaveVersion
<1>4. MocTypes' /\ SnapshotsKept
  BY <1>1, <1>2, <1>3 DEF SaveVersion, MocInv, MocTypes, SnapshotsKept
<1>5. nextPart' >= nextPart /\ DOMAIN mocParts' = DOMAIN mocParts /\ UNCHANGED mocLock
  BY DEF SaveVersion, MocInv, MocTypes
<1> QED BY <1>4, <1>5, FinishingKeeps DEF SaveVersion, Doing

\* A version that goes to the trash keeps its name and its snapshot.
LEMMA BinnedVersion ==
    ASSUME MocTypes, NEW v \in Versions, versions[v] # NoVersion
    PROVE  LET row == [versions[v] EXCEPT !.live = FALSE]
           IN  /\ row \in VersionRow /\ row # NoVersion
               /\ row.snapshot = versions[v].snapshot
<1>1. versions[v] \in VersionRow
  BY DEF MocTypes
<1> QED BY <1>1, MocAssumption DEF VersionRow

LEMMA DeleteVersionKeeps ==
    ASSUME MocInv, NEW r \in MocRequests, NEW v \in Versions, DeleteVersion(r, v)
    PROVE  MocInv' /\ SnapshotsKept
<1> DEFINE row == [versions[v] EXCEPT !.live = FALSE]
<1>1. /\ versions' = [versions EXCEPT ![v] = row]
      /\ row \in VersionRow /\ row # NoVersion /\ row.snapshot = versions[v].snapshot
  BY BinnedVersion DEF DeleteVersion, Stored, MocInv
<1>2. MocTypes' /\ SnapshotsKept
  BY <1>1 DEF DeleteVersion, MocInv, MocTypes, SnapshotsKept
<1>3. MocRequestsKnow' /\ NothingBeside'
  BY <1>2 DEF DeleteVersion, MocInv, MocRequestsKnow, MocRequestKnows, SnapshotsKept,
     NothingBeside, Doing
<1> QED BY <1>2, <1>3 DEF MocInv

LEMMA LockMocKeeps ==
    ASSUME MocInv, NEW r \in MocRequests, NEW v \in Versions, LockMoc(r, v)
    PROVE  MocInv' /\ SnapshotsKept
<1> DEFINE q == [MocIdle EXCEPT !.stage = "locked", !.version = v, !.name = versions[v].name,
                                !.snapshot = versions[v].snapshot]
<1>1. /\ q.stage = "locked" /\ q.name = versions[v].name /\ q.snapshot = versions[v].snapshot
      /\ DOMAIN q = DOMAIN MocIdle
  BY DEF MocIdle
<1>2. versions[v] \in VersionRow
  BY DEF LockMoc, Stored, MocInv, MocTypes
<1>3. MocRequestKnows(q)
  <2>1. q.name \in VersionNames /\ q.snapshot \in Seq(Contents)
    BY <1>1, <1>2 DEF VersionRow
  <2> QED BY <1>1, <2>1 DEF MocRequestKnows, MocIdle
<1>4. /\ mocRequest = [p \in MocRequests |-> mocRequest[p]]
      /\ mocRequest' = [mocRequest EXCEPT ![r] = q]
  BY DEF LockMoc, Begins, MocInv, MocRequestsKnow
<1>5. MocTypes' /\ SnapshotsKept
  BY DEF LockMoc, MocInv, MocTypes, SnapshotsKept
<1>6. MocRequestsKnow'
  BY <1>3, <1>4 DEF LockMoc, MocInv, MocRequestsKnow, MocRequestKnows
<1>7. NothingBeside'
  <2>1. mocLock \subseteq {r} /\ mocLock' = {r} /\ Doing(r, "idle")
    BY DEF LockMoc, RowFree
  <2>2. ASSUME NEW p \in MocRequests, p # r
        PROVE  ~(Doing(p, "locked") \/ Doing(p, "deleted"))'
    BY <1>4, <2>1, <2>2 DEF MocInv, NothingBeside, Doing
  <2> QED BY <1>1, <1>4, <2>1, <2>2 DEF NothingBeside, Doing
<1> QED BY <1>5, <1>6, <1>7 DEF MocInv

LEMMA DeletePartsKeeps ==
    ASSUME MocInv, NEW r \in MocRequests, DeleteParts(r)
    PROVE  MocInv' /\ SnapshotsKept
<1> DEFINE q == [mocRequest[r] EXCEPT !.stage = "deleted", !.gone = DOMAIN mocParts]
<1>1. MocRequestKnows(mocRequest[r]) /\ mocRequest[r].stage = "locked" /\ mocLock = {r}
  BY DEF DeleteParts, Doing, MocInv, MocRequestsKnow, NothingBeside
<1>2. /\ q.stage = "deleted" /\ q.gone = DOMAIN mocParts /\ q.name = mocRequest[r].name
      /\ q.snapshot = mocRequest[r].snapshot /\ DOMAIN q = DOMAIN mocRequest[r]
  BY <1>1 DEF MocRequestKnows
<1>3. MocRequestKnows(q)
  BY <1>1, <1>2 DEF MocRequestKnows
<1>4. /\ mocRequest = [p \in MocRequests |-> mocRequest[p]]
      /\ mocRequest' = [mocRequest EXCEPT ![r] = q]
  BY DEF DeleteParts, MocInv, MocRequestsKnow
<1>5. MocTypes' /\ SnapshotsKept
  BY DEF DeleteParts, MocInv, MocTypes, SnapshotsKept
<1>6. MocRequestsKnow'
  BY <1>3, <1>4 DEF DeleteParts, MocInv, MocRequestsKnow, MocRequestKnows
<1>7. NothingBeside'
  BY <1>1, <1>2, <1>4 DEF DeleteParts, MocInv, NothingBeside, Doing
<1> QED BY <1>5, <1>6, <1>7 DEF MocInv

\* The contents of a part that is restored name a stock row that exists, or none.
LEMMA RestoredContent ==
    ASSUME NEW c \in Contents
    PROVE  Restored(c) \in Contents /\ Restored(c).stock \notin VanishedStock
<1>1. c.stock \in VanishedStock => [c EXCEPT !.stock = NoStock] \in Contents
  BY DEF Contents
<1>2. c.stock \in VanishedStock => [c EXCEPT !.stock = NoStock].stock = NoStock
  BY DEF Contents
<1> QED BY <1>1, <1>2, MocAssumption DEF Restored

\* What an activation that commits leaves: the parts of its snapshot, nothing else.
LEMMA ActivationLeaves ==
    ASSUME MocInv, NEW r \in MocRequests, CommitActivation(r)
    PROVE  LET snapshot == mocRequest[r].snapshot
               new == nextPart..(nextPart + Len(snapshot) - 1)
           IN  /\ snapshot \in Seq(Contents) /\ Len(snapshot) \in Nat
               /\ DOMAIN snapshot = 1..Len(snapshot)
               /\ mocParts' = [k \in new |-> Restored(snapshot[k - nextPart + 1])]
               /\ \A k \in new : k - nextPart + 1 \in DOMAIN snapshot
<1> DEFINE snapshot == mocRequest[r].snapshot
           new == nextPart..(nextPart + Len(snapshot) - 1)
<1>1. snapshot \in Seq(Contents) /\ mocRequest[r].gone = DOMAIN mocParts
  BY DEF CommitActivation, Doing, MocInv, MocRequestsKnow, MocRequestKnows, NothingBeside
<1>2. Len(snapshot) \in Nat /\ DOMAIN snapshot = 1..Len(snapshot)
  BY <1>1
<1>3. \A k \in new : k - nextPart + 1 \in DOMAIN snapshot
  BY <1>2 DEF MocInv, MocTypes
<1>4. DOMAIN mocParts \ mocRequest[r].gone = {}
  BY <1>1
<1>5. mocParts' = [k \in new |-> Restored(snapshot[k - nextPart + 1])]
  BY <1>4 DEF CommitActivation
<1> QED BY <1>1, <1>2, <1>3, <1>5

LEMMA CommitActivationKeeps ==
    ASSUME MocInv, NEW r \in MocRequests, CommitActivation(r)
    PROVE  MocInv' /\ SnapshotsKept
<1> DEFINE snapshot == mocRequest[r].snapshot
           new == nextPart..(nextPart + Len(snapshot) - 1)
<1>1. /\ snapshot \in Seq(Contents) /\ Len(snapshot) \in Nat
      /\ DOMAIN snapshot = 1..Len(snapshot)
      /\ mocParts' = [k \in new |-> Restored(snapshot[k - nextPart + 1])]
      /\ \A k \in new : k - nextPart + 1 \in DOMAIN snapshot
  BY ActivationLeaves
<1>2. /\ nextPart' \in Nat \ {0} /\ nextPart' >= nextPart
      /\ DOMAIN mocParts' \subseteq 1..(nextPart' - 1)
  <2>1. nextPart' = nextPart + Len(snapshot) /\ nextPart \in Nat \ {0} /\ DOMAIN mocParts' = new
    BY <1>1 DEF CommitActivation, MocInv, MocTypes
  <2>2. \A a \in Nat \ {0}, n \in Nat :
          a + n \in Nat \ {0} /\ a + n >= a /\ a..(a + n - 1) \subseteq 1..((a + n) - 1)
    OBVIOUS
  <2>3. Len(snapshot) \in Nat
    BY <1>1
  <2> HIDE DEF snapshot
  <2> QED BY <2>1, <2>2, <2>3
<1>3. \A k \in new : snapshot[k - nextPart + 1] \in Contents
  BY <1>1
<1>4. \A k \in DOMAIN mocParts' : mocParts'[k] \in Contents
  BY <1>1, <1>3, RestoredContent
<1>5. moc' \in MocRow
  <2>1. moc' = [moc EXCEPT !.version = mocRequest[r].name] /\ mocRequest[r].name \in VersionNames
    BY DEF CommitActivation, Doing, MocInv, MocRequestsKnow, MocRequestKnows
  <2> QED BY <2>1 DEF MocInv, MocTypes, MocRow
<1>6. MocTypes' /\ SnapshotsKept
  BY <1>2, <1>4, <1>5 DEF CommitActivation, MocInv, MocTypes, SnapshotsKept
<1>7. /\ mocRequest = [p \in MocRequests |-> mocRequest[p]]
      /\ mocRequest' = [mocRequest EXCEPT ![r] = MocIdle]
  BY DEF CommitActivation, Finishes, MocInv, MocRequestsKnow
<1>8. MocRequestsKnow'
  <2>1. ASSUME NEW q \in MocRequests, q # r PROVE MocRequestKnows(mocRequest[q])'
    <3>1. mocRequest'[q] = mocRequest[q] /\ MocRequestKnows(mocRequest[q])
      BY <1>7, <2>1 DEF MocInv, MocRequestsKnow
    <3>2. mocRequest[q].stage = "part" => mocRequest[q].key \in {NoValue} \cup 1..(nextPart' - 1)
      BY <1>2, <3>1 DEF MocRequestKnows, MocInv, MocTypes
    <3>3. UNCHANGED versions
      BY DEF CommitActivation
    <3> QED BY <3>1, <3>2, <3>3 DEF MocRequestKnows
  <2>2. MocRequestKnows(MocIdle)'
    BY DEF MocRequestKnows, MocIdle
  <2>3. mocRequest'[r] = MocIdle
    BY <1>7
  <2>4. \A q \in MocRequests : MocRequestKnows(mocRequest[q])'
    BY <2>1, <2>2, <2>3 DEF MocRequestKnows
  <2> QED BY <1>7, <2>4 DEF MocRequestsKnow
<1>9. NothingBeside'
  <2>1. mocLock = {r}
    BY DEF CommitActivation, MocInv, NothingBeside
  <2>2. ASSUME NEW q \in MocRequests PROVE ~(Doing(q, "locked") \/ Doing(q, "deleted"))'
    BY <1>7, <2>1 DEF MocInv, NothingBeside, Doing, MocIdle
  <2> QED BY <2>2 DEF NothingBeside
<1> QED BY <1>6, <1>8, <1>9 DEF MocInv

LEMMA SavePartKeeps ==
    ASSUME MocInv, NEW r \in MocRequests, NEW content \in PartForms, SavePart(r, content)
    PROVE  MocInv' /\ SnapshotsKept
<1> DEFINE k == IF mocRequest[r].key = NoValue THEN nextPart ELSE mocRequest[r].key
<1>1. /\ k \in 1..nextPart /\ content \in Contents /\ nextPart \in Nat \ {0}
      /\ DOMAIN mocParts \subseteq 1..(nextPart - 1)
  <2>1. mocRequest[r].key \in {NoValue} \cup 1..(nextPart - 1) /\ nextPart \in Nat \ {0}
    BY DEF SavePart, Doing, MocInv, MocTypes, MocRequestsKnow, MocRequestKnows
  <2> QED BY <2>1, MocAssumption DEF MocInv, MocTypes
<1>2. CASE ~moc.exists
  <2>1. MocTypes' /\ SnapshotsKept /\ nextPart' >= nextPart /\ DOMAIN mocParts' = DOMAIN mocParts
    BY <1>1, <1>2 DEF SavePart, MocInv, MocTypes, SnapshotsKept
  <2> QED BY <2>1, FinishingKeeps DEF SavePart, Doing
<1>3. CASE moc.exists
  <2>1. /\ mocParts' = [j \in DOMAIN mocParts \cup {k} |-> IF j = k THEN content ELSE mocParts[j]]
        /\ nextPart' = (IF k = nextPart THEN nextPart + 1 ELSE nextPart)
    BY <1>3 DEF SavePart
  <2>2. /\ nextPart' \in Nat \ {0} /\ nextPart' >= nextPart
        /\ DOMAIN mocParts' \subseteq 1..(nextPart' - 1)
    BY <1>1, <2>1
  <2>3. \A j \in DOMAIN mocParts' : mocParts'[j] \in Contents
    BY <1>1, <2>1 DEF MocInv, MocTypes
  <2>4. MocTypes' /\ SnapshotsKept
    BY <2>2, <2>3 DEF SavePart, MocInv, MocTypes, SnapshotsKept
  <2>5. ASSUME NEW q \in MocRequests \ {r}, Doing(q, "deleted")
        PROVE  DOMAIN mocParts' = DOMAIN mocParts
    <3>1. ~RowFree(r)
      BY <2>5 DEF RowFree, MocInv, NothingBeside
    <3>2. k \in DOMAIN mocParts
      BY <3>1 DEF SavePart
    <3> QED BY <2>1, <3>2
  <2> QED BY <2>2, <2>4, <2>5, FinishingKeeps DEF SavePart, Doing
<1> QED BY <1>2, <1>3

LEMMA SaveMocKeeps ==
    ASSUME MocInv, NEW r \in MocRequests, NEW name \in VersionNames, SaveMoc(r, name)
    PROVE  MocInv' /\ SnapshotsKept
<1>1. MocTypes' /\ SnapshotsKept /\ nextPart' >= nextPart /\ DOMAIN mocParts' = DOMAIN mocParts
  BY DEF SaveMoc, MocInv, MocTypes, MocRow, SnapshotsKept
<1> QED BY <1>1, FinishingKeeps DEF SaveMoc, Doing

LEMMA DeleteMocKeeps ==
    ASSUME MocInv, NEW r \in MocRequests, DeleteMoc(r)
    PROVE  MocInv' /\ SnapshotsKept
<1>1. /\ versions' = [v \in Versions |-> IF Stored(v) THEN [versions[v] EXCEPT !.live = FALSE]
                                         ELSE versions[v]]
      /\ mocParts' = <<>> /\ DOMAIN mocParts' = {}
      /\ moc' = [moc EXCEPT !.exists = FALSE] /\ UNCHANGED <<nextPart, mocLock, mocRequest>>
  BY DEF DeleteMoc
<1>2. ASSUME NEW v \in Versions, versions[v] # NoVersion
      PROVE  /\ versions'[v] \in VersionRow /\ versions'[v] # NoVersion
             /\ versions'[v].snapshot = versions[v].snapshot
  <2>1. CASE Stored(v)
    BY <1>1, <1>2, <2>1, BinnedVersion DEF MocInv
  <2>2. CASE ~Stored(v)
    BY <1>1, <1>2, <2>2 DEF MocInv, MocTypes
  <2> QED BY <2>1, <2>2
<1>3. \A v \in Versions : versions'[v] # NoVersion => versions'[v] \in VersionRow
  BY <1>1, <1>2 DEF Stored
<1>4. moc' \in MocRow
  BY <1>1 DEF MocInv, MocTypes, MocRow
<1>5. MocTypes' /\ SnapshotsKept
  BY <1>1, <1>2, <1>3, <1>4 DEF MocInv, MocTypes, SnapshotsKept
<1>6. MocRequestsKnow'
  BY <1>1, <1>5 DEF MocInv, MocRequestsKnow, MocRequestKnows, SnapshotsKept
<1>7. NothingBeside'
  <2>1. \A q \in MocRequests : ~(Doing(q, "locked") \/ Doing(q, "deleted"))
    BY DEF DeleteMoc, RowFree, Doing, MocInv, NothingBeside
  <2> QED BY <1>1, <2>1 DEF NothingBeside, Doing
<1> QED BY <1>5, <1>6, <1>7 DEF MocInv

\* Whatever a request does, the invariant holds after it and no version has
\* changed its snapshot.
LEMMA MocStep ==
    ASSUME MocInv, NEW r \in MocRequests, Activation(r) \/ MocForm(r)
    PROVE  MocInv' /\ SnapshotsKept
<1>1. CASE Activation(r)
  BY <1>1, LockMocKeeps, DeletePartsKeeps, CommitActivationKeeps DEF Activation
<1>2. ASSUME \/ TakeSnapshot(r) \/ LoadMoc(r)
             \/ \E k \in DOMAIN mocParts \cup {NoValue} : LoadPart(r, k)
             \/ \E v \in Versions : LoadVersion(r, v)
      PROVE  MocInv' /\ SnapshotsKept
  <2>1. MocInv'
    BY <1>2, TakeSnapshotKeeps, LoadMocKeeps, LoadPartKeeps, LoadVersionKeeps
  <2>2. UNCHANGED versions
    BY <1>2 DEF TakeSnapshot, LoadMoc, LoadPart, LoadVersion
  <2> QED BY <2>1, <2>2 DEF SnapshotsKept
<1>3. ASSUME \/ DeleteMoc(r)
             \/ \E content \in PartForms : SavePart(r, content)
             \/ \E name \in VersionNames : SaveVersion(r, name) \/ SaveMoc(r, name)
             \/ \E v \in Versions : DeleteVersion(r, v)
             \/ \E v \in Versions, name \in VersionNames : StoreVersion(r, v, name)
      PROVE  MocInv' /\ SnapshotsKept
  BY <1>3, DeleteMocKeeps, SavePartKeeps, SaveVersionKeeps, SaveMocKeeps, DeleteVersionKeeps,
     StoreVersionKeeps
<1> QED BY <1>1, <1>2, <1>3 DEF MocForm

LEMMA MocInvNext == MocInv /\ [MocNext]_mocVars => MocInv'
<1>1. ASSUME MocInv, UNCHANGED mocVars PROVE MocInv'
  BY <1>1 DEF mocVars, MocInv, MocTypes, MocRequestsKnow, MocRequestKnows, NothingBeside, Doing
<1> QED BY <1>1, MocStep DEF MocNext

\* Rows under other keys, one for one: the same bill.
LEMMA SameBill ==
    ASSUME NEW rows, NEW others, NEW a \in Int, NEW n \in Nat,
           DOMAIN others = 1..n, DOMAIN rows = (a + 1)..(a + n),
           \A i \in 1..n : rows[a + i] = others[i]
    PROVE  Bill(rows) = Bill(others)
<1>1. ASSUME NEW c \in Contents
      PROVE  Cardinality({k \in DOMAIN rows : rows[k] = c})
               = Cardinality({k \in DOMAIN others : others[k] = c})
  <2> DEFINE S == {i \in DOMAIN others : others[i] = c}
             T == {k \in DOMAIN rows : rows[k] = c}
             f == [i \in S |-> a + i]
  <2>1. IsFiniteSet(S)
    <3>1. IsFiniteSet(1..n)
      BY FS_Interval
    <3>2. S \in SUBSET (1..n)
      OBVIOUS
    <3> QED BY <3>1, <3>2, FS_Subset
  <2>2. f \in [S -> T]
    <3>1. \A i \in S : i \in 1..n /\ a + i \in (a + 1)..(a + n) /\ rows[a + i] = c
      OBVIOUS
    <3> QED BY <3>1
  <2>3. \A i, j \in S : i # j => f[i] # f[j]
    OBVIOUS
  <2>4. ASSUME NEW k \in T PROVE k - a \in S /\ f[k - a] = k
    <3>1. k \in Int /\ k - a \in 1..n /\ a + (k - a) = k
      OBVIOUS
    <3> QED BY <3>1
  <2>5. f \in Bijection(S, T)
    BY <2>2, <2>3, <2>4 DEF Bijection, Injection, Surjection, IsInjective, Range
  <2> QED BY <2>1, <2>5, FS_Bijection DEF ExistsBijection
<1> QED BY <1>1 DEF Bill

LEMMA ActivationRestoresAll ==
    ASSUME MocInv, NEW r \in MocRequests, CommitActivation(r)
    PROVE  /\ Bill(mocParts') = Bill([i \in DOMAIN mocRequest[r].snapshot |->
                                       Restored(mocRequest[r].snapshot[i])])
           /\ \A k \in DOMAIN mocParts' : mocParts'[k].stock \notin VanishedStock
           /\ moc'.version = mocRequest[r].name
<1> DEFINE snapshot == mocRequest[r].snapshot
           n == Len(snapshot)
           new == nextPart..(nextPart + n - 1)
           restored == [i \in DOMAIN snapshot |-> Restored(snapshot[i])]
<1>1. /\ snapshot \in Seq(Contents) /\ n \in Nat /\ DOMAIN snapshot = 1..n
      /\ mocParts' = [k \in new |-> Restored(snapshot[k - nextPart + 1])]
      /\ \A k \in new : k - nextPart + 1 \in DOMAIN snapshot
  BY ActivationLeaves
<1>2. nextPart \in Nat \ {0}
  BY DEF MocInv, MocTypes
<1>3. Bill(mocParts') = Bill(restored)
  <2> DEFINE a == nextPart - 1
  <2>1. a \in Int /\ DOMAIN mocParts' = (a + 1)..(a + n) /\ DOMAIN restored = 1..n
    BY <1>1, <1>2
  <2>2. ASSUME NEW i \in 1..n PROVE mocParts'[a + i] = restored[i]
    <3>1. a + i \in new /\ (a + i) - nextPart + 1 = i
      BY <1>1, <1>2
    <3> QED BY <1>1, <3>1
  <2> HIDE DEF a, restored, n
  <2> QED BY <1>1, <2>1, <2>2, SameBill DEF n
<1>4. ASSUME NEW k \in DOMAIN mocParts' PROVE mocParts'[k].stock \notin VanishedStock
  <2>1. k \in new /\ snapshot[k - nextPart + 1] \in Contents
    BY <1>1, <1>4
  <2> QED BY <1>1, <2>1, RestoredContent
<1>5. moc'.version = mocRequest[r].name
  BY DEF CommitActivation, MocInv, MocTypes, MocRow
<1> QED BY <1>3, <1>4, <1>5

\* Only its own commit ends an activation that has deleted the parts.
LEMMA ActivationEnds ==
    ASSUME MocInv, [MocNext]_mocVars, NEW r \in MocRequests, Doing(r, "deleted"),
           mocRequest'[r].stage = "idle"
    PROVE  CommitActivation(r)
<1>1. mocRequest[r].stage = "deleted" /\ mocRequest = [p \in MocRequests |-> mocRequest[p]]
  BY DEF Doing, MocInv, MocRequestsKnow
<1>2. PICK q \in MocRequests : Activation(q) \/ MocForm(q)
  BY <1>1 DEF MocNext, mocVars
<1>3. mocRequest'[r] # mocRequest[r]
  BY <1>1
<1>4. \A p \in MocRequests \ {q} : mocRequest'[p] = mocRequest[p]
  BY <1>1, <1>2 DEF Activation, MocForm, LockMoc, DeleteParts, CommitActivation, TakeSnapshot,
     LoadMoc, DeleteMoc, LoadPart, SavePart, SaveVersion, SaveMoc, LoadVersion, DeleteVersion,
     StoreVersion, Begins, Finishes
<1>5. q = r
  BY <1>3, <1>4
<1> QED BY <1>1, <1>2, <1>3, <1>5 DEF Activation, MocForm, LockMoc, DeleteParts, TakeSnapshot,
        LoadMoc, DeleteMoc, LoadPart, SavePart, SaveVersion, SaveMoc, LoadVersion,
        DeleteVersion, StoreVersion, Doing

\* Whatever requests interleave with it, an activation leaves the parts of its
\* snapshot, none of them on a stock row that is gone, and no request changes a
\* snapshot, for any parts and versions (moc_version_activate).
THEOREM ActivationAlwaysRestores == MocSpec => ActivationRestores
<1>1. ASSUME MocInv, [MocNext]_mocVars
      PROVE  /\ \A r \in MocRequests :
                  Doing(r, "deleted") /\ mocRequest'[r].stage = "idle" =>
                    /\ Bill(mocParts') = Bill([i \in DOMAIN mocRequest[r].snapshot |->
                                                Restored(mocRequest[r].snapshot[i])])
                    /\ \A k \in DOMAIN mocParts' : mocParts'[k].stock \notin VanishedStock
                    /\ moc'.version = mocRequest[r].name
             /\ \A v \in Versions :
                  versions[v] # NoVersion => versions'[v].snapshot = versions[v].snapshot
  <2>1. SnapshotsKept
    BY <1>1, MocStep DEF MocNext, mocVars, SnapshotsKept
  <2> QED BY <1>1, <2>1, ActivationEnds, ActivationRestoresAll DEF SnapshotsKept
<1> QED BY <1>1, MocInvInit, MocInvNext, PTL DEF MocSpec, ActivationRestores

-----------------------------------------------------------------------------
(***************************************************************************)
(* The label studio: the form, the question on its way and the preview.    *)
(***************************************************************************)
Pages == [type : AllTypes, rendered : AllTypes, query : Queries, shown : SUBSET LabelSets,
          ticked : SUBSET LabelSets, kept : SUBSET LabelSets, start : Int, state : PartStates]
Previews == [type : AllTypes, start : Int, sets : SUBSET LabelSets, state : PartStates]

\* The fields of the form, of the preview and of the question on its way
StudioTypes ==
    /\ ownSets \in SUBSET LabelSets
    /\ page \in Pages /\ preview \in Previews
    /\ asked # NoQuestion => asked \in Questions
    /\ timer \in {"off", "on", "replaced"} /\ notice \in BOOLEAN /\ astray \in BOOLEAN

\* The form holds what the user has chosen, listed and not listed.
FormHolds ==
    /\ page.ticked \cup page.kept = wanted
    /\ page.ticked \subseteq page.shown /\ page.kept \cap page.shown = {}

\* What a question or a preview says of the form; the search may have changed.
Tells(post, form) ==
    /\ post.type = form.type
    /\ StartAt(post.type, post.start) = StartAt(form.type, form.start)
    /\ post.type = "missing_parts" => post.state = Posted(form).state

QuestionHolds ==
    asked # NoQuestion => Tells(asked.post, page) /\ asked.post.chosen = wanted

\* An aborted question may still be answered; nobody listens.
PreviewHolds ==
    asked = NoQuestion /\ timer # "on" /\ ~notice /\ ~astray =>
      /\ preview.type = page.type
      /\ preview.start = StartAt(page.type, page.start)
      /\ preview.state = IF page.type = "missing_parts" THEN Posted(page).state ELSE "all"
      /\ preview.type # "colors" => preview.sets = wanted

StudioInv == StudioTypes /\ FormHolds /\ QuestionHolds /\ PreviewHolds

LEMMA StartFixed ==
    ASSUME NEW type \in AllTypes, NEW start \in Int
    PROVE  /\ StartAt(type, start) \in Int
           /\ StartAt(type, StartAt(type, start)) = StartAt(type, start)
<1>1. CapacityOf[type] \in Nat \ {0}
  BY LabelAssumption
<1> QED BY <1>1 DEF StartAt

LEMMA PostTells ==
    ASSUME NEW form \in Pages
    PROVE  /\ Posted(form) \in Posts /\ Tells(Posted(form), form)
           /\ Posted(form).chosen = form.ticked \cup form.kept
<1>1. Posted(form) \in Posts
  BY DEF Pages, Posted, Posts, PartStates
<1> QED BY <1>1 DEF Posted, Tells

\* The answer lists the chosen sets or keeps them aside.
LEMMA AnswerLists ==
    ASSUME NEW post \in Posts, NEW seen \in SUBSET LabelSets
    PROVE  LET new == Rendered(post, seen)
           IN  /\ new \in Pages
               /\ new.ticked \subseteq new.shown /\ new.kept \cap new.shown = {}
               /\ post.type # "colors" => new.ticked \cup new.kept = post.chosen \cap seen
               /\ post.type = "colors" => new.ticked = {}
<1> DEFINE new == Rendered(post, seen)
<1>1. /\ post.type \in AllTypes /\ post.query \in Queries /\ post.start \in Int
      /\ post.chosen \in SUBSET LabelSets /\ post.state \in PartStates
  BY DEF Posts
<1>2. /\ new.type = post.type /\ new.rendered = post.type
      /\ new.query = (IF post.type = "colors" THEN "" ELSE post.query)
      /\ new.shown = Listed(post.type, post.query, seen)
      /\ new.ticked = Ticked(post.type, post.query, seen, post.chosen)
      /\ new.kept = Kept(post.query, seen, post.chosen)
      /\ new.start = StartAt(post.type, post.start)
      /\ new.state = IF post.type = "missing_parts" THEN post.state ELSE "all"
  BY DEF Rendered
<1>3. new \in Pages
  <2>1. "" \in Queries /\ "all" \in PartStates /\ StartAt(post.type, post.start) \in Int
    BY <1>1, StudioAssumption, StartFixed DEF PartStates
  <2>2. /\ new.shown \in SUBSET LabelSets /\ new.ticked \in SUBSET LabelSets
        /\ new.kept \in SUBSET LabelSets
    BY <1>1, <1>2 DEF Listed, Ticked, Kept
  <2> QED BY <1>1, <1>2, <2>1, <2>2 DEF Pages, Rendered
<1>4. new.ticked \subseteq new.shown /\ new.kept \cap new.shown = {}
  BY <1>2 DEF Listed, Ticked, Kept
<1> QED BY <1>1, <1>2, <1>3, <1>4 DEF Listed, Ticked, Kept

LEMMA StudioInvInit == StudioInit => StudioInv
<1> SUFFICES ASSUME StudioInit PROVE StudioInv
  OBVIOUS
<1>1. PICK type \in LabelTypes : /\ page = Rendered(FirstPost(type), ownSets)
                                 /\ preview = Preview(FirstPost(type), ownSets)
  BY DEF StudioInit
<1> DEFINE post == FirstPost(type)
<1>2. post \in Posts /\ ownSets = LabelSets /\ type \in AllTypes
  <2>1. type \in AllTypes /\ "" \in Queries /\ "all" \in PartStates
    BY StudioAssumption, LabelAssumption DEF PartStates
  <2>2. ownSets = LabelSets /\ ownSets \in SUBSET LabelSets
    BY DEF StudioInit
  <2>3. post \in Posts
    <3>1. 1 \in Int
      OBVIOUS
    <3> QED BY <2>1, <2>2, <3>1, Zenon DEF FirstPost, Posts
  <2> QED BY <2>1, <2>2, <2>3
<1>3. /\ post.type = type /\ post.query = "" /\ post.chosen = LabelSets /\ post.start = 1
      /\ post.state = "all"
  BY <1>2 DEF FirstPost
<1>4. page \in Pages /\ page.ticked \subseteq page.shown /\ page.kept \cap page.shown = {}
  BY <1>1, <1>2, AnswerLists
<1>5. preview \in Previews
  <2>1. StartAt(type, 1) \in Int /\ "all" \in PartStates
    BY <1>2, StartFixed DEF PartStates
  <2> QED BY <1>1, <1>2, <1>3, <2>1 DEF Preview, Previews
<1>6. StudioTypes /\ FormHolds /\ QuestionHolds
  BY <1>2, <1>4, <1>5 DEF StudioInit, StudioTypes, FormHolds, QuestionHolds
<1>7. /\ page.type = type /\ page.rendered = type /\ page.start = StartAt(type, 1)
      /\ page.state = "all" /\ (type # "colors" => page.ticked \cup page.kept = LabelSets)
  BY <1>1, <1>2, <1>3, AnswerLists DEF Rendered
<1>8. /\ preview.type = type /\ preview.start = StartAt(type, 1) /\ preview.sets = LabelSets
      /\ preview.state = "all"
  BY <1>1, <1>2, <1>3 DEF Preview
<1>9. PreviewHolds
  BY <1>2, <1>7, <1>8, StartFixed DEF StudioInit, PreviewHolds, Posted
<1> QED BY <1>6, <1>9 DEF StudioInv

\* The form asks: the question is about the form as it is now.
LEMMA AskingHolds ==
    ASSUME StudioInv, FormHolds', page' \in Pages, NEW full \in BOOLEAN, Refresh(page', full),
           timer' \in {"off", "on", "replaced"}, UNCHANGED <<ownSets, preview, notice, astray>>
    PROVE  StudioInv'
<1> DEFINE q == [post |-> Posted(page'), full |-> full, served |-> FALSE, seen |-> {}]
<1>1. asked' = q /\ q \in Questions /\ q.post = Posted(page')
  BY PostTells DEF Refresh, Questions
<1>2. asked' # NoQuestion
  BY <1>1, StudioAssumption
<1>3. StudioTypes' /\ PreviewHolds'
  BY <1>1, <1>2 DEF StudioInv, StudioTypes, PreviewHolds
<1>4. QuestionHolds'
  BY <1>1, PostTells DEF QuestionHolds, FormHolds
<1> QED BY <1>3, <1>4 DEF StudioInv

LEMMA ClickSetHolds ==
    ASSUME StudioInv, NEW s \in LabelSets, ClickSet(s) PROVE StudioInv'
<1>1. page' = [page EXCEPT !.ticked = Toggle(page.ticked, s)] /\ page \in Pages
  BY DEF ClickSet, Changes, StudioInv, StudioTypes
<1>2. /\ page'.ticked = Toggle(page.ticked, s) /\ page'.kept = page.kept
      /\ page'.shown = page.shown /\ page' \in Pages
  BY <1>1 DEF Pages, Toggle
<1>3. FormHolds'
  BY <1>2 DEF ClickSet, StudioInv, FormHolds, Toggle
<1> QED BY <1>1, <1>2, <1>3, AskingHolds DEF ClickSet, Changes

LEMMA ClickAllHolds == ASSUME StudioInv, ClickAll PROVE StudioInv'
<1>1. page' = [page EXCEPT !.ticked = page.shown] /\ page \in Pages
  BY DEF ClickAll, Changes, StudioInv, StudioTypes
<1>2. /\ page'.ticked = page.shown /\ page'.kept = page.kept
      /\ page'.shown = page.shown /\ page' \in Pages
  BY <1>1 DEF Pages
<1>3. FormHolds'
  BY <1>2 DEF ClickAll, StudioInv, FormHolds
<1> QED BY <1>1, <1>2, <1>3, AskingHolds DEF ClickAll, Changes

LEMMA ClickNoneHolds == ASSUME StudioInv, ClickNone PROVE StudioInv'
<1>1. page' = [page EXCEPT !.ticked = {}, !.kept = {}] /\ page \in Pages
  BY DEF ClickNone, StudioInv, StudioTypes
<1>2. page'.ticked = {} /\ page'.kept = {} /\ page' \in Pages
  BY <1>1 DEF Pages
<1>3. FormHolds'
  BY <1>2 DEF ClickNone, StudioInv, FormHolds
<1>4. timer' \in {"off", "on", "replaced"}
  BY DEF ClickNone, StudioInv, StudioTypes
<1> QED BY <1>1, <1>2, <1>3, <1>4, AskingHolds DEF ClickNone

\* Type, start and filter change nothing of the choice.
LEMMA FieldHolds ==
    ASSUME StudioInv, page' \in Pages, NEW full \in BOOLEAN, Changes(page', full),
           UNCHANGED wanted, page'.ticked = page.ticked, page'.kept = page.kept,
           page'.shown = page.shown
    PROVE  StudioInv'
<1>1. FormHolds'
  BY DEF StudioInv, FormHolds
<1> QED BY <1>1, AskingHolds DEF Changes

LEMMA ChoicesHold ==
    ASSUME StudioInv,
           \/ \E type \in LabelTypes : ChooseType(type)
           \/ \E start \in FirstPlaces : ChooseStart(start)
           \/ \E state \in PartStates : ChooseState(state)
    PROVE  StudioInv'
<1>0. page \in Pages
  BY DEF StudioInv, StudioTypes
<1>1. ASSUME NEW type \in LabelTypes, ChooseType(type) PROVE StudioInv'
  <2>1. page' = [page EXCEPT !.type = type] /\ type \in AllTypes
    BY <1>1, LabelAssumption DEF ChooseType, Changes
  <2>2. /\ page' \in Pages /\ page'.ticked = page.ticked /\ page'.kept = page.kept
        /\ page'.shown = page.shown
    BY <1>0, <2>1 DEF Pages
  <2>3. Changes(page', TRUE) /\ UNCHANGED wanted
    BY <1>1, <2>1 DEF ChooseType
  <2> QED BY <2>2, <2>3, FieldHolds
<1>2. ASSUME NEW start \in FirstPlaces, ChooseStart(start) PROVE StudioInv'
  <2>0. start \in Int
    <3>1. start \in Nat
      BY <1>2, StudioAssumption
    <3> QED BY <3>1
  <2>1. page' = [page EXCEPT !.start = start]
    BY <1>2 DEF ChooseStart, Changes
  <2>2. /\ page' \in Pages /\ page'.ticked = page.ticked /\ page'.kept = page.kept
        /\ page'.shown = page.shown
    BY <1>0, <2>0, <2>1 DEF Pages
  <2>3. Changes(page', FALSE) /\ UNCHANGED wanted
    BY <1>2, <2>1 DEF ChooseStart
  <2> QED BY <2>2, <2>3, FieldHolds
<1>3. ASSUME NEW state \in PartStates, ChooseState(state) PROVE StudioInv'
  <2>1. page' = [page EXCEPT !.state = state]
    BY <1>3 DEF ChooseState, Changes
  <2>2. /\ page' \in Pages /\ page'.ticked = page.ticked /\ page'.kept = page.kept
        /\ page'.shown = page.shown
    BY <1>0, <2>1 DEF Pages
  <2>3. Changes(page', FALSE) /\ UNCHANGED wanted
    BY <1>3, <2>1 DEF ChooseState
  <2> QED BY <2>2, <2>3, FieldHolds
<1> QED BY <1>1, <1>2, <1>3

LEMMA SearchHolds ==
    ASSUME StudioInv, NEW query \in Queries, Search(query) PROVE StudioInv'
<1>1. page \in Pages /\ page' = [page EXCEPT !.query = query]
  BY DEF Search, StudioInv, StudioTypes
<1>2. /\ page' \in Pages /\ page'.type = page.type /\ page'.start = page.start
      /\ page'.ticked = page.ticked /\ page'.kept = page.kept /\ page'.shown = page.shown
      /\ Posted(page').state = Posted(page).state
  BY <1>1 DEF Pages, Posted
<1>3. StudioTypes' /\ FormHolds'
  BY <1>2 DEF Search, StudioInv, StudioTypes, FormHolds
<1>4. QuestionHolds' /\ PreviewHolds'
  BY <1>2 DEF Search, StudioInv, QuestionHolds, PreviewHolds, Tells
<1> QED BY <1>3, <1>4 DEF StudioInv

LEMMA TimerHolds == ASSUME StudioInv, TimerFires PROVE StudioInv'
<1>1. CASE timer = "on"
  BY <1>1, AskingHolds DEF TimerFires, StudioInv, StudioTypes, FormHolds
<1>2. CASE timer # "on"
  <2>1. asked' = NoQuestion /\ astray' = (astray \/ asked # NoQuestion)
    BY <1>2 DEF TimerFires
  <2>2. StudioTypes' /\ FormHolds' /\ QuestionHolds'
    BY <2>1 DEF TimerFires, StudioInv, StudioTypes, FormHolds, QuestionHolds
  <2>3. PreviewHolds'
    BY <1>2, <2>1 DEF TimerFires, StudioInv, PreviewHolds
  <2> QED BY <2>2, <2>3 DEF StudioInv
<1> QED BY <1>1, <1>2

LEMMA ServeHolds == ASSUME StudioInv, Serve PROVE StudioInv'
<1>1. /\ asked \in Questions /\ asked # NoQuestion
      /\ asked' = [asked EXCEPT !.served = TRUE, !.seen = ownSets]
  BY DEF Serve, StudioInv, StudioTypes
<1>2. asked' \in Questions /\ asked'.post = asked.post
  BY <1>1 DEF Questions, StudioInv, StudioTypes
<1>3. asked' # NoQuestion
  BY <1>2, StudioAssumption
<1> QED BY <1>1, <1>2, <1>3 DEF Serve, StudioInv, StudioTypes, FormHolds, QuestionHolds,
        PreviewHolds

\* The answer replaces the list; the preview it brings is about the form.
LEMMA ArrivesHolds == ASSUME StudioInv, Arrives PROVE StudioInv'
<1> DEFINE post == asked.post
           seen == asked.seen
           new == Rendered(post, seen)
<1>1. /\ asked \in Questions /\ post \in Posts /\ seen \in SUBSET LabelSets
      /\ Tells(post, page) /\ post.chosen = wanted /\ page \in Pages
  BY DEF Arrives, StudioInv, StudioTypes, QuestionHolds, Questions
<1>2. /\ post.type \in AllTypes /\ post.start \in Int /\ post.chosen \in SUBSET LabelSets
      /\ post.state \in PartStates
  BY <1>1 DEF Posts
<1>3. /\ page' = (IF asked.full THEN new ELSE Updated(page, post, seen))
      /\ preview' = Preview(post, seen) /\ asked' = NoQuestion
      /\ timer' = (IF asked.full /\ timer = "on" THEN "replaced" ELSE timer)
      /\ notice' = FALSE /\ astray' = FALSE /\ ownSets' = ownSets
      /\ wanted' = (IF post.type = "colors" THEN page'.kept ELSE wanted \cap seen)
  BY DEF Arrives, Applied
<1>4. /\ new \in Pages
      /\ new.ticked \subseteq new.shown /\ new.kept \cap new.shown = {}
      /\ post.type # "colors" => new.ticked \cup new.kept = post.chosen \cap seen
      /\ post.type = "colors" => new.ticked = {}
  BY <1>1, AnswerLists
<1>5. /\ new.type = post.type /\ new.rendered = post.type
      /\ new.start = StartAt(post.type, post.start)
      /\ new.state = IF post.type = "missing_parts" THEN post.state ELSE "all"
  BY DEF Rendered
<1>6. /\ page' \in Pages /\ page'.ticked = new.ticked /\ page'.kept = new.kept
      /\ page'.shown = new.shown /\ page'.type = post.type
  <2>1. CASE asked.full
    BY <1>3, <1>4, <1>5, <2>1
  <2>2. CASE ~asked.full
    <3>1. page' = [page EXCEPT !.query = new.query, !.shown = new.shown,
                               !.ticked = new.ticked, !.kept = new.kept]
      BY <1>3, <2>2 DEF Updated
    <3>2. page.type = post.type
      BY <1>1 DEF Tells
    <3> QED BY <1>1, <1>4, <3>1, <3>2 DEF Pages
  <2> QED BY <2>1, <2>2
<1>7. FormHolds' /\ wanted' = page'.ticked \cup page'.kept
  BY <1>1, <1>3, <1>4, <1>6 DEF FormHolds
<1>8. preview' \in Previews
  <2>1. StartAt(post.type, post.start) \in Int /\ post.chosen \cap seen \in SUBSET LabelSets
    BY <1>1, <1>2, StartFixed
  <2>2. (IF post.type = "missing_parts" THEN post.state ELSE "all") \in PartStates
    BY <1>2 DEF PartStates
  <2> QED BY <1>2, <1>3, <2>1, <2>2 DEF Preview, Previews
<1>9. StudioTypes' /\ QuestionHolds'
  BY <1>3, <1>6, <1>8 DEF StudioInv, StudioTypes, QuestionHolds
<1>10. StartAt(page'.type, page'.start) = StartAt(post.type, post.start)
  <2>1. CASE asked.full
    BY <1>2, <1>3, <1>5, <2>1, StartFixed
  <2>2. CASE ~asked.full
    BY <1>1, <1>3, <2>2 DEF Updated, Tells, Pages
  <2> QED BY <2>1, <2>2
<1>11. post.type = "missing_parts" => Posted(page').state = post.state
  <2>1. CASE asked.full
    BY <1>3, <1>5, <2>1 DEF Posted
  <2>2. CASE ~asked.full
    <3>1. page'.rendered = page.rendered /\ page'.state = page.state
      BY <1>1, <1>3, <2>2 DEF Updated, Pages
    <3> QED BY <1>1, <3>1 DEF Tells, Posted
  <2> QED BY <2>1, <2>2
<1>12. PreviewHolds'
  <2>1. /\ preview'.type = post.type /\ preview'.start = StartAt(post.type, post.start)
        /\ preview'.sets = post.chosen \cap seen
        /\ preview'.state = IF post.type = "missing_parts" THEN post.state ELSE "all"
    BY <1>3 DEF Preview
  <2>2. post.type # "colors" => preview'.sets = wanted'
    BY <1>1, <1>3, <2>1
  <2> QED BY <1>6, <1>10, <1>11, <2>1, <2>2 DEF PreviewHolds
<1> QED BY <1>7, <1>9, <1>12 DEF StudioInv

LEMMA QuietStepsHold ==
    ASSUME StudioInv, ArrivesLate \/ Fails \/ \E s \in LabelSets : Elsewhere(s)
    PROVE  StudioInv'
<1>1. CASE ArrivesLate
  BY <1>1 DEF ArrivesLate, StudioInv, StudioTypes, FormHolds, QuestionHolds, PreviewHolds
<1>2. CASE Fails
  BY <1>2 DEF Fails, StudioInv, StudioTypes, FormHolds, QuestionHolds, PreviewHolds
<1>3. ASSUME NEW s \in LabelSets, Elsewhere(s) PROVE StudioInv'
  <2>1. ownSets' \in SUBSET LabelSets
    BY <1>3 DEF Elsewhere, Toggle, StudioInv, StudioTypes
  <2> QED BY <1>3, <2>1 DEF Elsewhere, StudioInv, StudioTypes, FormHolds, QuestionHolds,
          PreviewHolds
<1> QED BY <1>1, <1>2, <1>3

LEMMA RetryHolds == ASSUME StudioInv, Retry PROVE StudioInv'
<1>1. page' \in Pages /\ FormHolds' /\ Refresh(page', FALSE)
  BY DEF Retry, StudioInv, StudioTypes, FormHolds
<1> QED BY <1>1, AskingHolds DEF Retry, StudioInv, StudioTypes

LEMMA StudioInvNext == StudioInv /\ [StudioNext]_studioVars => StudioInv'
<1>1. ASSUME StudioInv, UNCHANGED studioVars PROVE StudioInv'
  BY <1>1 DEF studioVars, StudioInv, StudioTypes, FormHolds, QuestionHolds, PreviewHolds
<1>2. ASSUME StudioInv, StudioNext PROVE StudioInv'
  BY <1>2, ClickAllHolds, ClickNoneHolds, TimerHolds, ServeHolds, ArrivesHolds, QuietStepsHold,
     RetryHolds, ClickSetHolds, ChoicesHold, SearchHolds DEF StudioNext
<1> QED BY <1>1, <1>2

LEMMA StudioInvKeepsSelection == StudioInv => SelectionKept
<1> SUFFICES ASSUME StudioInv PROVE SelectionKept
  OBVIOUS
<1>1. ASSUME AtRest
      PROVE  /\ [preview EXCEPT !.sets = {}] = [Preview(Posted(page), wanted) EXCEPT !.sets = {}]
             /\ preview.type # "colors" => preview.sets = wanted
  <2>1. /\ preview.type = page.type
        /\ preview.start = StartAt(page.type, page.start)
        /\ preview.state = (IF page.type = "missing_parts" THEN Posted(page).state ELSE "all")
        /\ preview.type # "colors" => preview.sets = wanted
    BY <1>1 DEF AtRest, StudioInv, PreviewHolds
  <2>2. preview \in Previews /\ Posted(page).type = page.type /\ Posted(page).start = page.start
    BY DEF StudioInv, StudioTypes, Posted
  <2> DEFINE other == Preview(Posted(page), wanted)
  <2>3. /\ other.type = preview.type /\ other.start = preview.start
        /\ other.state = preview.state /\ DOMAIN other = {"type", "start", "sets", "state"}
    BY <2>1, <2>2 DEF Preview
  <2>4. [preview EXCEPT !.sets = {}]
          = [type |-> preview.type, start |-> preview.start, sets |-> {}, state |-> preview.state]
    BY <2>2 DEF Previews
  <2>5. [other EXCEPT !.sets = {}]
          = [type |-> other.type, start |-> other.start, sets |-> {}, state |-> other.state]
    BY DEF Preview
  <2> QED BY <2>1, <2>3, <2>4, <2>5
<1> QED BY <1>1 DEF StudioInv, FormHolds, SelectionKept

\* However clicks, searches, timers, answers and errors interleave, the form
\* holds what the user has chosen, and at rest the preview shows the form, for
\* any sets, capacities and searches (labels.js refresh, label_studio).
THEOREM SelectionStaysKept == StudioSpec => []SelectionKept
BY StudioInvInit, StudioInvNext, StudioInvKeepsSelection, PTL DEF StudioSpec

-----------------------------------------------------------------------------
(***************************************************************************)
(* The cut lines of collected numbers.                                     *)
(***************************************************************************)
\* Quotient and remainder give a number back,
LEMMA RowAndColumn ==
  ASSUME NEW n \in Nat
  PROVE /\ n \div CutColumns \in Nat /\ n % CutColumns \in 0..(CutColumns - 1)
        /\ n = (n \div CutColumns) * CutColumns + (n % CutColumns)
  BY LabelAssumption, SMTT(30) DEF LabelAssumption

\* and no other two do.
LEMMA OnePlace ==
  ASSUME NEW q \in Nat, NEW r \in 0..(CutColumns - 1), NEW p \in Nat, NEW s \in 0..(CutColumns - 1),
         q * CutColumns + r = p * CutColumns + s
  PROVE q = p /\ r = s
<1>0. CutColumns \in Nat \ {0} BY LabelAssumption DEF LabelAssumption
<1>1. (q - p) * CutColumns = s - r BY <1>0, SMTT(30)
<1>2. s - r < CutColumns /\ r - s < CutColumns BY <1>0
<1>3. ~(q - p >= 1)
  <2> SUFFICES ASSUME q - p >= 1 PROVE FALSE OBVIOUS
  <2>1. (q - p) * CutColumns >= CutColumns BY <1>0, SMTT(30)
  <2> QED BY <2>1, <1>1, <1>2, <1>0
<1>4. ~(q - p <= -1)
  <2> SUFFICES ASSUME q - p <= -1 PROVE FALSE OBVIOUS
  <2>1. (q - p) * CutColumns <= -CutColumns BY <1>0, SMTT(30)
  <2> QED BY <2>1, <1>1, <1>2, <1>0
<1>5. q = p BY <1>3, <1>4
<1> QED BY <1>1, <1>5, <1>0

\* The cut lines of a label of collected numbers lie between neighbours and
\* nowhere else, however many numbers it has and however many stand in a row
\* (_collected_number_cells): the run tries rows of two.
THEOREM CutsAlwaysMeet ==
  ASSUME NEW S, NEW numbers \in Seq(S)
  PROVE CutsMeetNeighbours(NumberCells(numbers))
<1> DEFINE n == Len(numbers)
           cells == NumberCells(numbers)
           row(i) == (i - 1) \div CutColumns
           column(i) == (i - 1) % CutColumns
<1>1. CutColumns \in Nat \ {0} /\ n \in Nat BY LabelAssumption DEF LabelAssumption
<1>2. DOMAIN cells = 1..n BY DEF NumberCells
<1>3. \A i \in 1..n :
        /\ cells[i].row = row(i) /\ cells[i].column = column(i)
        /\ cells[i].bottom <=> (i + CutColumns <= n)
        /\ cells[i].right <=> (i < (IF row(i) * CutColumns + CutColumns < n
                                  THEN row(i) * CutColumns + CutColumns ELSE n))
  BY DEF NumberCells
<1>4. \A i \in 1..n : /\ row(i) \in Nat /\ column(i) \in 0..(CutColumns - 1)
                      /\ i - 1 = row(i) * CutColumns + column(i)
  <2> TAKE i \in 1..n
  <2>1. i - 1 \in Nat BY <1>1
  <2> QED BY <2>1, RowAndColumn
<1> HIDE DEF cells, row, column, n
\* The cell of a place is the one the place is counted from.
<1>5. ASSUME NEW j \in 1..n, NEW q \in Nat, NEW r \in 0..(CutColumns - 1)
      PROVE  row(j) = q /\ column(j) = r <=> j - 1 = q * CutColumns + r
  BY <1>4, <1>1, OnePlace
<1>6. ASSUME NEW i \in 1..n
      PROVE  /\ cells[i].right <=> \E j \in 1..n : row(j) = row(i) /\ column(j) = column(i) + 1
             /\ cells[i].bottom <=> \E j \in 1..n : row(j) = row(i) + 1 /\ column(j) = column(i)
  <2> DEFINE before == row(i) * CutColumns
  <2>1. /\ row(i) \in Nat /\ column(i) \in 0..(CutColumns - 1)
        /\ i - 1 = before + column(i)
    BY <1>4
  <2>2. before \in Nat BY <2>1, <1>1, SMTT(30)
  <2>3. (row(i) + 1) * CutColumns = before + CutColumns BY <2>1, <1>1, SMTT(30)
  <2>4. \A j \in 1..n : column(j) = column(i) + 1 => column(i) + 1 < CutColumns
    BY <1>4, <2>1, <1>1
  <2>5. ASSUME column(i) + 1 < CutColumns, NEW j \in 1..n
        PROVE  row(j) = row(i) /\ column(j) = column(i) + 1 <=> j - 1 = before + (column(i) + 1)
    <3>1. column(i) + 1 \in 0..(CutColumns - 1) BY <2>5, <2>1, <1>1
    <3> QED BY <3>1, <1>5, <2>1
  <2>6. ASSUME NEW j \in 1..n
        PROVE  row(j) = row(i) + 1 /\ column(j) = column(i)
                 <=> j - 1 = before + CutColumns + column(i)
    <3>1. row(i) + 1 \in Nat BY <2>1
    <3>2. row(j) = row(i) + 1 /\ column(j) = column(i)
            <=> j - 1 = (row(i) + 1) * CutColumns + column(i)
      BY <3>1, <1>5, <2>1
    <3> QED BY <3>2, <2>3
  <2>7. /\ cells[i].bottom <=> (i + CutColumns <= n)
        /\ cells[i].right <=> (i < (IF before + CutColumns < n THEN before + CutColumns ELSE n))
    BY <1>3
  <2> HIDE DEF before
  <2>8. cells[i].right <=> i < n /\ column(i) + 1 < CutColumns
    BY <2>7, <1>1, <2>1, <2>2
  <2>9. cells[i].right <=> \E j \in 1..n : row(j) = row(i) /\ column(j) = column(i) + 1
    <3>1. ASSUME i < n, column(i) + 1 < CutColumns
          PROVE  \E j \in 1..n : row(j) = row(i) /\ column(j) = column(i) + 1
      <4>1. i + 1 \in 1..n /\ (i + 1) - 1 = before + (column(i) + 1)
        BY <3>1, <2>1, <2>2, <1>1
      <4> QED BY <4>1, <2>5, <3>1
    <3>2. ASSUME NEW j \in 1..n, row(j) = row(i), column(j) = column(i) + 1
          PROVE  i < n /\ column(i) + 1 < CutColumns
      <4>1. column(i) + 1 < CutColumns BY <3>2, <2>4
      <4>2. j - 1 = before + (column(i) + 1) BY <4>1, <2>5, <3>2
      <4> QED BY <4>1, <4>2, <2>1, <2>2, <1>1
    <3> QED BY <2>8, <3>1, <3>2
  <2>10. cells[i].bottom <=> \E j \in 1..n : row(j) = row(i) + 1 /\ column(j) = column(i)
    <3>1. ASSUME i + CutColumns <= n
          PROVE  \E j \in 1..n : row(j) = row(i) + 1 /\ column(j) = column(i)
      <4>1. i + CutColumns \in 1..n /\ (i + CutColumns) - 1 = before + CutColumns + column(i)
        BY <3>1, <2>1, <2>2, <1>1
      <4> QED BY <4>1, <2>6
    <3>2. ASSUME NEW j \in 1..n, row(j) = row(i) + 1, column(j) = column(i)
          PROVE  i + CutColumns <= n
      <4>1. j - 1 = before + CutColumns + column(i) BY <2>6, <3>2
      <4> QED BY <4>1, <2>1, <2>2, <1>1
    <3> QED BY <2>7, <3>1, <3>2
  <2> QED BY <2>9, <2>10
<1>7. \A i, j \in 1..n : row(j) = row(i) /\ column(j) = column(i) => i = j
  BY <1>4, <1>1
<1>8. \A i \in 1..n : cells[i].row = row(i) /\ cells[i].column = column(i)
  BY <1>3
<1>9. cells = NumberCells(numbers) BY DEF cells
<1> HIDE DEF cells
<1>10. ASSUME NEW q, NEW r
       PROVE  HasCell(cells, q, r) <=> \E j \in 1..n : row(j) = q /\ column(j) = r
  BY <1>2, <1>8 DEF HasCell
<1>11. ASSUME NEW i \in 1..n
       PROVE  /\ cells[i].column \in 0..(CutColumns - 1)
              /\ cells[i].right <=> HasCell(cells, cells[i].row, cells[i].column + 1)
              /\ cells[i].bottom <=> HasCell(cells, cells[i].row + 1, cells[i].column)
              /\ \A j \in 1..n :
                   cells[j].row = cells[i].row /\ cells[j].column = cells[i].column => i = j
  <2>1. cells[i].row = row(i) /\ cells[i].column = column(i) BY <1>8
  <2>2. HasCell(cells, row(i), column(i) + 1) <=> cells[i].right
    <3>1. HasCell(cells, row(i), column(i) + 1)
            <=> \E j \in 1..n : row(j) = row(i) /\ column(j) = column(i) + 1
      BY <1>10
    <3> QED BY <3>1, <1>6, Zenon
  <2>3. HasCell(cells, row(i) + 1, column(i)) <=> cells[i].bottom
    <3>1. HasCell(cells, row(i) + 1, column(i))
            <=> \E j \in 1..n : row(j) = row(i) + 1 /\ column(j) = column(i)
      BY <1>10
    <3> QED BY <3>1, <1>6, Zenon
  <2>4. \A j \in 1..n : cells[j].row = cells[i].row /\ cells[j].column = cells[i].column => i = j
    BY <1>7, <1>8
  <2>5. column(i) \in 0..(CutColumns - 1) BY <1>4
  <2> QED BY <2>1, <2>2, <2>3, <2>4, <2>5, Zenon
<1>12. CutsMeetNeighbours(cells) BY <1>2, <1>11, Zenon DEF CutsMeetNeighbours
<1> QED BY <1>9, <1>12
-----------------------------------------------------------------------------
(***************************************************************************)
(* The import of an order: lines that cover shortages, and requests that   *)
(* confirm what an earlier one has offered.                                *)
(***************************************************************************)
\* What a line gives a row that lacks parts, the lines, the orders on offer and
\* the orders that are stored
Entry == [row : OfferedRows, amount : Nat, open : Nat]
Line == [quantity : Nat, given : SUBSET Entry]
Lines == UNION {[D -> Line] : D \in SUBSET UNION {DOMAIN file : file \in CsvFiles}}
Numbers == OrderNumbers \cup {NoOrderNumber}
Offers == [number : Numbers, supplier : Suppliers \cup {NoSupplier}, lines : Lines]
Orders == [number : Numbers, supplier : Suppliers \cup {Source}, lines : Lines,
           ticked : SUBSET OfferedRows, marked : SUBSET PartRows]

\* What a line gives in all, as ImportedOrdersCover adds it up
Amounts(given) == MapThenSumSet(LAMBDA entry : entry.amount, given)

\* Every line is long enough for what it gives, and gives no row more than it lacks.
Enough(lines) ==
    \A k \in DOMAIN lines :
      /\ Amounts(lines[k].given) <= lines[k].quantity
      /\ \A entry \in lines[k].given : entry.amount <= entry.open

\* What the request read from the session
Read(r) == confirmation[r].offer

\* Whatever is on offer or read, every line of it is long enough.
ImportTypes ==
    /\ DOMAIN shortage = OfferedRows
    /\ \A row \in OfferedRows : DOMAIN shortage[row] = {"open", "status", "live"}
                                /\ shortage[row].open \in Nat
    /\ offer # NoImport => offer \in Offers /\ Enough(offer.lines)
    /\ imports \in Seq(Orders)
    /\ confirmation = [r \in ImportRequests |-> confirmation[r]]
    /\ \A r \in ImportRequests : confirmation[r] # NoImport =>
         /\ confirmation[r] \in [offer : Offers, ticked : SUBSET OfferedRows]
         /\ Enough(Read(r).lines)

\* What an order says is what its preview said.
OrdersCover ==
    \A i \in DOMAIN imports :
      /\ Enough(imports[i].lines)
      /\ \A row \in imports[i].marked :
           /\ imports[i].ticked = {} \/ row \in imports[i].ticked
           /\ \E entry \in Given(imports[i].lines) : entry.row = row /\ entry.amount = entry.open

\* Unless two requests have crossed, a number that is being confirmed is not
\* stored yet, and no other request confirms it.
NumbersOnce ==
    /\ \A r, q \in ImportRequests :
         r # q /\ confirmation[r] # NoImport /\ confirmation[q] # NoImport
           /\ Read(r).number = Read(q).number
         => Read(r).number \in crossed
    /\ \A r \in ImportRequests, i \in DOMAIN imports :
         confirmation[r] # NoImport /\ Read(r).number \notin crossed \cup {NoOrderNumber}
         => ~(imports[i].number = Read(r).number /\ imports[i].supplier = Read(r).supplier)
    /\ \A i, j \in DOMAIN imports :
         imports[j].number = imports[i].number /\ imports[j].supplier = imports[i].supplier =>
           \/ i = j \/ imports[i].number \in crossed \cup {NoOrderNumber}
           \/ imports[i].supplier = Source

ImportInv == ImportTypes /\ OrdersCover /\ NumbersOnce

\* The amounts as a function, for the theorems about sums
AmountOf == [entry \in Entry |-> entry.amount]

LEMMA AmountsAreTotal ==
    ASSUME NEW given \in SUBSET Entry
    PROVE  Amounts(given) = Total(AmountOf, given)
<1>1. ASSUME NEW iter
      PROVE  [t \in SUBSET given |-> IF t = {} THEN 0 ELSE Pick(t).amount + iter[t \ {Pick(t)}]]
             = [t \in SUBSET given |-> Unfold(AmountOf, iter, t)]
  BY PickInSet DEF AmountOf, Unfold
<1>2. Amounts(given) = (CHOOSE iter : iter =
         [t \in SUBSET given |-> IF t = {} THEN 0 ELSE Pick(t).amount + iter[t \ {Pick(t)}]])[given]
  BY DEF Amounts, MapThenSumSet, MapThenFoldSet, Pick
<1>3. (CHOOSE iter : iter =
         [t \in SUBSET given |-> IF t = {} THEN 0 ELSE Pick(t).amount + iter[t \ {Pick(t)}]])
        = Iter(AmountOf, given)
  BY <1>1, Zenon DEF Iter, Solves
<1> QED BY <1>2, <1>3, TotalIsIter

LEMMA AmountsAdd ==
    ASSUME NEW given \in SUBSET Entry, IsFiniteSet(given), NEW entry \in Entry
    PROVE  /\ Amounts(given) \in Nat /\ IsFiniteSet(given \cup {entry})
           /\ Amounts(given \cup {entry}) <= Amounts(given) + entry.amount
<1> DEFINE more == given \cup {entry}
<1>1. \A e \in Entry : AmountOf[e] = e.amount /\ e.amount \in Nat
  BY DEF AmountOf, Entry
<1>2. Amounts(given) = Total(AmountOf, given) /\ Amounts(more) = Total(AmountOf, more)
  BY AmountsAreTotal
<1>3. IsFiniteSet(more)
  BY FS_AddElement
<1>4. Total(AmountOf, given) \in Nat
  BY <1>1, TotalType
<1>5. Total(AmountOf, more) <= Total(AmountOf, given) + entry.amount
  <2>1. CASE entry \in given
    <3>1. more = given
      BY <2>1
    <3>2. \A t, a \in Nat : t <= t + a
      OBVIOUS
    <3> QED BY <1>1, <1>4, <3>1, <3>2
  <2>2. CASE entry \notin given
    <3>1. more \ {entry} = given
      BY <2>2
    <3>2. Total(AmountOf, more) = AmountOf[entry] + Total(AmountOf, more \ {entry})
      BY <1>1, <1>3, TotalRemove
    <3>3. \A t, a \in Nat : a + t <= t + a
      OBVIOUS
    <3> QED BY <1>1, <1>4, <3>1, <3>2, <3>3
  <2> QED BY <2>1, <2>2
<1> QED BY <1>2, <1>3, <1>4, <1>5

\* What a line of a length may have given so far, and what is left of it
Within(quantity) ==
    {done \in [left : Nat, given : SUBSET Entry] :
       /\ IsFiniteSet(done.given) /\ Amounts(done.given) + done.left <= quantity
       /\ \A entry \in done.given : entry.amount <= entry.open}

\* A candidate gets at most what is left, and at most what it lacks.
LEMMA GiveWithin ==
    ASSUME ImportTypes, NEW line, NEW quantity \in Nat, NEW done \in Within(quantity),
           NEW row \in OfferedRows
    PROVE  Give(line, done, row) \in Within(quantity)
<1> DEFINE lacks == Lacks(line, row)
           amount == IF lacks < done.left THEN lacks ELSE done.left
           entry == [row |-> row, amount |-> amount, open |-> shortage[row].open]
           given == done.given
<1>1. /\ done.left \in Nat /\ given \in SUBSET Entry /\ IsFiniteSet(given)
      /\ Amounts(given) + done.left <= quantity /\ \A e \in given : e.amount <= e.open
  BY DEF Within
<1>2. shortage[row].open \in Nat /\ lacks \in Nat /\ lacks <= shortage[row].open
  BY DEF ImportTypes, Lacks
<1>3. amount \in Nat /\ amount <= shortage[row].open /\ amount <= done.left
  BY <1>1, <1>2
<1>4. CASE amount = 0
  BY <1>4 DEF Give
<1>5. CASE amount # 0
  <2> DEFINE new == [left |-> done.left - amount, given |-> given \cup {entry}]
  <2>1. Give(line, done, row) = new
    BY <1>5 DEF Give
  <2>2. entry \in Entry /\ entry.amount = amount /\ entry.open = shortage[row].open
    BY <1>2, <1>3 DEF Entry
  <2> HIDE DEF entry
  <2>3. /\ Amounts(given) \in Nat /\ IsFiniteSet(given \cup {entry})
        /\ Amounts(given \cup {entry}) <= Amounts(given) + entry.amount
    BY <1>1, <2>2, AmountsAdd
  <2>4. Amounts(given \cup {entry}) \in Nat
    BY <1>1, <2>2, <2>3, AmountsAdd
  <2> HIDE DEF amount
  <2>5. Amounts(given \cup {entry}) + (done.left - amount) <= quantity /\ done.left - amount \in Nat
    BY <1>1, <1>3, <2>2, <2>3, <2>4
  <2>6. \A e \in given \cup {entry} : e.amount <= e.open
    BY <1>1, <1>3, <2>2
  <2> HIDE DEF given
  <2>7. new.left = done.left - amount /\ new.given = given \cup {entry}
    OBVIOUS
  <2>8. new \in [left : Nat, given : SUBSET Entry]
    BY <1>1, <2>2, <2>5
  <2> QED BY <2>1, <2>3, <2>5, <2>6, <2>7, <2>8 DEF Within
<1> QED BY <1>4, <1>5

\* The loop over the candidates gives no more than the line has.
LEMMA AllocationsWithin ==
    ASSUME ImportTypes, NEW line, line.quantity \in Nat
    PROVE  /\ Allocations(line) \in SUBSET Entry /\ IsFiniteSet(Allocations(line))
           /\ Amounts(Allocations(line)) <= line.quantity
           /\ \A entry \in Allocations(line) : entry.amount <= entry.open
<1> DEFINE I == DOMAIN Shortages
           Good == Within(line.quantity)
           base == [left |-> line.quantity, given |-> {}]
           last == [s \in SUBSET I |-> Max(s)]
           H == [p \in I \X Good |-> Give(line, p[2], Shortages[p[1]])]
           Loop(iter) == [s \in SUBSET I |-> IF s = {} THEN base
                            ELSE Give(line, iter[s \ {Max(s)}], Shortages[Max(s)])]
           result == FoldLeft(LAMBDA done, row : Give(line, done, row), base, Shortages)
<1>1. Amounts({}) = 0
  BY AmountsAreTotal, TotalUnfolds, FS_EmptySet
<1>2. base \in Good
  BY <1>1, FS_EmptySet DEF Within
<1>3. IsFiniteSet(I) /\ \A i \in I : Shortages[i] \in OfferedRows
  <2>1. I = 1..Len(Shortages) /\ Len(Shortages) \in Nat
    BY ImportAssumption DEF OfferedRows
  <2> QED BY <2>1, FS_Interval, ImportAssumption DEF OfferedRows
<1>4. \A s \in SUBSET I : s # {} => last[s] = Max(s) /\ last[s] \in s
  <2>1. I = 1..Len(Shortages) /\ Len(Shortages) \in Nat
    BY ImportAssumption DEF OfferedRows
  <2>2. \A s \in SUBSET I : s # {} => Max(s) \in s
    BY <2>1, LastOf
  <2> QED BY <2>2
<1>5. H \in [I \X Good -> Good]
  BY <1>3, GiveWithin
<1>6. \E iter : iter = Loop(iter)
  <2> HIDE DEF Good, base, last, H, I
  <2>1. PICK iter \in [SUBSET I -> Good] : FoldSolves(iter, H, base, last, SUBSET I)
    BY <1>2, <1>3, <1>4, <1>5, FoldSolved
  <2>2. ASSUME NEW s \in SUBSET I, s # {}
        PROVE  H[<<last[s], iter[s \ {last[s]}]>>]
                 = Give(line, iter[s \ {Max(s)}], Shortages[Max(s)])
    <3>1. last[s] = Max(s) /\ last[s] \in I /\ iter[s \ {last[s]}] \in Good
      BY <1>4, <2>2, <2>1
    <3> QED BY <3>1 DEF H
  <2>3. iter = Loop(iter)
    BY <2>1, <2>2 DEF FoldSolves
  <2> QED BY <2>3
<1> DEFINE it == CHOOSE iter : iter = Loop(iter)
<1>7. result = it[I]
  BY DEF FoldLeft, MapThenFoldSet
<1>8. it = Loop(it)
  BY <1>6
<1> HIDE DEF it, H, base, Good, last
<1>9. it[{}] = base
  BY <1>8
<1>10. ASSUME NEW s \in SUBSET I, s # {}, it[s \ {last[s]}] \in Good
       PROVE  it[s] \in Good
  <2>1. it[s] = Give(line, it[s \ {last[s]}], Shortages[last[s]])
    BY <1>4, <1>8, <1>10
  <2>2. Shortages[last[s]] \in OfferedRows
    BY <1>3, <1>4, <1>10
  <2> QED BY <1>10, <2>1, <2>2, GiveWithin DEF Good
<1>11. it[I] \in Good
  <2> HIDE DEF I
  <2>1. it[{}] \in Good
    BY <1>2, <1>9
  <2>2. \A s \in SUBSET I : s # {} => last[s] \in s
    BY <1>4
  <2>3. \A s \in SUBSET I : s # {} /\ it[s \ {last[s]}] \in Good => it[s] \in Good
    BY <1>10
  <2>4. IsFiniteSet(I)
    BY <1>3
  <2> QED BY <2>1, <2>2, <2>3, <2>4, FoldStays, ZenonT(60)
<1> DEFINE given == result.given
<1>12. /\ given \in SUBSET Entry /\ IsFiniteSet(given) /\ result.left \in Nat
       /\ Amounts(given) + result.left <= line.quantity
       /\ \A entry \in given : entry.amount <= entry.open
  BY <1>7, <1>11, Zenon DEF Good, Within
<1> HIDE DEF result
<1>13. Amounts(given) \in Nat
  BY <1>12, AmountsAreTotal, TotalType DEF AmountOf, Entry
<1>14. Amounts(given) <= line.quantity
  BY <1>12, <1>13
<1>15. Allocations(line) = IF line.colored THEN given ELSE {}
  BY DEF Allocations, base, result
<1> QED BY <1>1, <1>12, <1>14, <1>15, FS_EmptySet

LEMMA ImportInitially == OrderImportInit => ImportInv
<1> SUFFICES ASSUME OrderImportInit PROVE ImportInv
  OBVIOUS
<1> USE DEF OrderImportInit
<1>1. ImportTypes
  BY ImportAssumption DEF ImportTypes
<1>2. DOMAIN imports = {}
  OBVIOUS
<1>3. OrdersCover /\ NumbersOnce
  BY <1>2 DEF OrdersCover, NumbersOnce
<1> QED BY <1>1, <1>3 DEF ImportInv

\* The shortages are not what orders and confirmations say.
LEMMA OrdersUntouched ==
    ASSUME ImportInv, UNCHANGED <<imports, confirmation, crossed>>
    PROVE  OrdersCover' /\ NumbersOnce'
<1> USE DEF ImportInv
<1>1. OrdersCover'
  BY DEF OrdersCover, Enough, Given
<1>2. NumbersOnce'
  BY DEF NumbersOnce, Read
<1> QED BY <1>1, <1>2

LEMMA PreviewKeeps ==
    ASSUME ImportInv, NEW file \in CsvFiles, NEW number \in Numbers,
           NEW supplier \in Suppliers \cup {NoSupplier}, PreviewOrder(file, number, supplier)
    PROVE  ImportInv'
<1> USE DEF ImportInv
<1> DEFINE D == Parsed(file)
           lines == [i \in D |-> [quantity |-> file[i].quantity, given |-> Allocations(file[i])]]
<1>1. ASSUME NEW i \in D
      PROVE  /\ lines[i] \in Line /\ Amounts(lines[i].given) <= lines[i].quantity
             /\ \A entry \in lines[i].given : entry.amount <= entry.open
  <2>1. file[i].quantity \in Nat
    BY ImportAssumption DEF Parsed
  <2>2. /\ Allocations(file[i]) \in SUBSET Entry
        /\ Amounts(Allocations(file[i])) <= file[i].quantity
        /\ \A entry \in Allocations(file[i]) : entry.amount <= entry.open
    BY <2>1, AllocationsWithin
  <2> QED BY <2>1, <2>2 DEF Line
<1>2. lines \in Lines
  <2>1. D \in SUBSET UNION {DOMAIN csv : csv \in CsvFiles}
    BY DEF Parsed
  <2>2. lines \in [D -> Line]
    BY <1>1
  <2> HIDE DEF lines, D
  <2> QED BY <2>1, <2>2 DEF Lines
<1>3. Enough(lines)
  BY <1>1 DEF Enough
<1>4. offer' = [number |-> number, supplier |-> supplier, lines |-> lines]
  BY DEF PreviewOrder
<1> HIDE DEF lines, D
<1>5. offer' \in Offers /\ Enough(offer'.lines)
  BY <1>2, <1>3, <1>4 DEF Offers
<1>6. UNCHANGED <<shortage, imports, confirmation, crossed>>
  BY DEF PreviewOrder
<1>7. ImportTypes'
  BY <1>5, <1>6 DEF ImportTypes, Read, Enough
<1> QED BY <1>6, <1>7, OrdersUntouched

LEMMA ExpiryKeeps ==
    ASSUME ImportInv, OfferExpires
    PROVE  ImportInv'
<1> USE DEF ImportInv, OfferExpires
<1>1. ImportTypes'
  BY DEF ImportTypes, Read, Enough
<1> QED BY <1>1, OrdersUntouched

LEMMA ShortageKeeps ==
    ASSUME ImportInv, NEW new \in Shortfalls, ShortageChanges(new)
    PROVE  ImportInv'
<1> USE DEF ImportInv, ShortageChanges
<1>1. DOMAIN shortage' = OfferedRows
      /\ \A row \in OfferedRows : DOMAIN shortage'[row] = {"open", "status", "live"}
                                  /\ shortage'[row].open \in Nat
  BY ImportAssumption DEF ImportTypes
<1>2. ImportTypes'
  BY <1>1 DEF ImportTypes, Read, Enough
<1> QED BY <1>2, OrdersUntouched

\* What a request has read stays as it was, unless it is this request.
LEMMA EndKeeps ==
    ASSUME ImportInv, NEW r \in ImportRequests, ConfirmationEnds(r)
    PROVE  ImportInv'
<1> USE DEF ImportInv, ConfirmationEnds
<1>1. /\ confirmation' = [q \in ImportRequests |-> confirmation'[q]] /\ confirmation'[r] = NoImport
      /\ \A q \in ImportRequests : q # r => confirmation'[q] = confirmation[q]
  BY DEF ImportTypes
<1>2. ImportTypes'
  BY <1>1 DEF ImportTypes, Read, Enough
<1>3. OrdersCover'
  BY DEF OrdersCover, Enough, Given
<1>4. NumbersOnce'
  BY <1>1 DEF NumbersOnce, Read
<1> QED BY <1>2, <1>3, <1>4

\* The number it reads is not stored yet, or a request with it is crossed.
LEMMA OpenKeeps ==
    ASSUME ImportInv, NEW r \in ImportRequests, NEW ticked \in SUBSET OfferedRows,
           OpenConfirmation(r, ticked)
    PROVE  ImportInv'
<1> USE DEF ImportInv
<1> DEFINE q == [offer |-> offer, ticked |-> ticked]
<1>1. /\ confirmation[r] = NoImport /\ offer # NoImport
      /\ UNCHANGED <<shortage, offer, imports>>
      /\ confirmation' = [p \in ImportRequests |-> confirmation'[p]] /\ confirmation'[r] = q
      /\ \A p \in ImportRequests : p # r => confirmation'[p] = confirmation[p]
  BY DEF ImportTypes, OpenConfirmation
<1>2. /\ crossed \subseteq crossed'
      /\ \A p \in ImportRequests :
           confirmation[p] # NoImport /\ Read(p).number = offer.number => offer.number \in crossed'
  BY DEF OpenConfirmation, Read
<1>3. offer.number # NoOrderNumber =>
        \A i \in DOMAIN imports :
          ~(imports[i].number = offer.number /\ imports[i].supplier = offer.supplier)
  BY DEF OpenConfirmation, AlreadyThere
<1>4. q.offer = offer /\ q \in [offer : Offers, ticked : SUBSET OfferedRows] /\ Enough(offer.lines)
  BY <1>1 DEF ImportTypes
<1> HIDE DEF q
<1>5. ImportTypes'
  BY <1>1, <1>4 DEF ImportTypes, Read, Enough
<1>6. OrdersCover'
  BY <1>1 DEF OrdersCover, Enough, Given
<1>7. Read(r)' = offer /\ \A p \in ImportRequests : p # r => Read(p)' = Read(p)
  BY <1>1, <1>4 DEF Read
<1>8. NumbersOnce'
  <2>1. ASSUME NEW p \in ImportRequests, NEW o \in ImportRequests, p # o,
               confirmation'[p] # NoImport, confirmation'[o] # NoImport,
               Read(p)'.number = Read(o)'.number
        PROVE  Read(p)'.number \in crossed'
    BY <1>1, <1>2, <1>7, <2>1 DEF NumbersOnce
  <2>2. ASSUME NEW p \in ImportRequests, NEW i \in DOMAIN imports, confirmation'[p] # NoImport,
               Read(p)'.number \notin crossed' \cup {NoOrderNumber}
        PROVE  ~(imports[i].number = Read(p)'.number /\ imports[i].supplier = Read(p)'.supplier)
    BY <1>1, <1>2, <1>3, <1>7, <2>2 DEF NumbersOnce
  <2>3. \A i, j \in DOMAIN imports :
         imports[j].number = imports[i].number /\ imports[j].supplier = imports[i].supplier =>
           \/ i = j \/ imports[i].number \in crossed' \cup {NoOrderNumber}
           \/ imports[i].supplier = Source
    BY <1>2 DEF NumbersOnce
  <2> QED BY <1>1, <2>1, <2>2, <2>3 DEF NumbersOnce, Read
<1> QED BY <1>5, <1>6, <1>8

\* A Part is marked because a line gives it what it lacked when it was shown.
LEMMA StoreKeeps ==
    ASSUME ImportInv, NEW r \in ImportRequests, StoreOrder(r)
    PROVE  ImportInv'
<1> USE DEF ImportInv
<1> DEFINE q == confirmation[r]
           order == [number |-> q.offer.number, supplier |-> StoredSupplier(q.offer.supplier),
                     lines |-> q.offer.lines, ticked |-> q.ticked, marked |-> MarkedParts(q)]
<1>1. /\ q # NoImport /\ imports' = Append(imports, order) /\ UNCHANGED <<offer, crossed>>
      /\ confirmation' = [p \in ImportRequests |-> confirmation'[p]]
      /\ confirmation'[r] = NoImport
      /\ \A p \in ImportRequests : p # r => confirmation'[p] = confirmation[p]
  BY DEF ImportTypes, StoreOrder
<1>2. /\ q \in [offer : Offers, ticked : SUBSET OfferedRows] /\ Enough(q.offer.lines)
      /\ q.offer.number \in Numbers /\ q.offer.lines \in Lines
      /\ q.offer.supplier \in Suppliers \cup {NoSupplier}
  BY <1>1 DEF ImportTypes, Read, Offers
<1>3. /\ MarkedParts(q) \in SUBSET PartRows
      /\ StoredSupplier(q.offer.supplier) \in Suppliers \cup {Source}
  BY <1>2 DEF MarkedParts, StoredSupplier
<1>4. order \in Orders
  BY <1>2, <1>3 DEF Orders
<1>5. /\ order.number = q.offer.number /\ order.lines = q.offer.lines /\ order.ticked = q.ticked
      /\ order.marked = MarkedParts(q) /\ order.supplier = StoredSupplier(q.offer.supplier)
  OBVIOUS
<1> HIDE DEF order
<1> DEFINE n == Len(imports) + 1
<1>6. /\ imports' \in Seq(Orders) /\ n \in Nat /\ n \notin DOMAIN imports
      /\ DOMAIN imports' = DOMAIN imports \cup {n} /\ imports'[n] = order
      /\ \A i \in DOMAIN imports : imports'[i] = imports[i]
  BY <1>1, <1>4 DEF ImportTypes
<1> HIDE DEF n
<1>7. ImportTypes'
  <2>1. DOMAIN shortage' = OfferedRows
        /\ \A row \in OfferedRows : DOMAIN shortage'[row] = {"open", "status", "live"}
                                    /\ shortage'[row].open \in Nat
    BY DEF ImportTypes, StoreOrder
  <2> QED BY <1>1, <1>6, <2>1 DEF ImportTypes, Read, Enough
<1>8. ASSUME NEW row \in order.marked
      PROVE  /\ order.ticked = {} \/ row \in order.ticked
             /\ \E entry \in Given(order.lines) : entry.row = row /\ entry.amount = entry.open
  <2>1. row \in Covered(q.offer.lines) /\ (q.ticked = {} \/ row \in q.ticked)
    BY <1>5, <1>8 DEF MarkedParts
  <2>2. PICK entry \in Given(order.lines) : entry.row = row /\ entry.amount >= entry.open
    BY <1>5, <2>1 DEF Covered
  <2>3. PICK k \in DOMAIN order.lines : entry \in order.lines[k].given
    BY DEF Given
  <2>4. order.lines[k] \in Line
    BY <1>2, <1>5 DEF Lines
  <2>5. entry \in Entry
    BY <2>3, <2>4 DEF Line
  <2>6. entry.amount \in Nat /\ entry.open \in Nat
    BY <2>5 DEF Entry
  <2>7. entry.amount <= entry.open
    BY <1>2, <1>5, <2>3 DEF Enough
  <2>8. entry.amount = entry.open
    BY <2>2, <2>6, <2>7
  <2> QED BY <1>5, <2>1, <2>2, <2>8
<1>9. OrdersCover'
  <2>1. \A i \in DOMAIN imports' :
          /\ Enough(imports'[i].lines)
          /\ \A row \in imports'[i].marked :
               /\ imports'[i].ticked = {} \/ row \in imports'[i].ticked
               /\ \E entry \in Given(imports'[i].lines) :
                    entry.row = row /\ entry.amount = entry.open
    BY <1>2, <1>5, <1>6, <1>8 DEF OrdersCover
  <2> QED BY <2>1 DEF OrdersCover, Enough, Given
<1>10. \A p \in ImportRequests : p # r => Read(p)' = Read(p)
  BY <1>1 DEF Read
\* An earlier order with this number and supplier
<1>11. ASSUME NEW i \in DOMAIN imports, imports[i].number = order.number,
              imports[i].supplier = order.supplier
       PROVE  order.number \in crossed \cup {NoOrderNumber} \/ order.supplier = Source
  <2>1. CASE q.offer.supplier = NoSupplier
    BY <1>5, <2>1 DEF StoredSupplier
  <2>2. CASE q.offer.supplier # NoSupplier
    <3>1. order.supplier = Read(r).supplier /\ order.number = Read(r).number
      BY <1>5, <2>2 DEF StoredSupplier, Read
    <3> QED BY <1>1, <1>11, <3>1 DEF NumbersOnce
  <2> QED BY <2>1, <2>2
<1>12. NumbersOnce'
  <2>1. ASSUME NEW p \in ImportRequests, NEW o \in ImportRequests, p # o,
               confirmation'[p] # NoImport, confirmation'[o] # NoImport,
               Read(p)'.number = Read(o)'.number
        PROVE  Read(p)'.number \in crossed'
    BY <1>1, <1>10, <2>1 DEF NumbersOnce
  <2>2. ASSUME NEW p \in ImportRequests, NEW i \in DOMAIN imports', confirmation'[p] # NoImport,
               Read(p)'.number \notin crossed' \cup {NoOrderNumber}
        PROVE  ~(imports'[i].number = Read(p)'.number /\ imports'[i].supplier = Read(p)'.supplier)
    <3>1. p # r /\ confirmation[p] # NoImport /\ Read(p)' = Read(p) /\ crossed' = crossed
      BY <1>1, <1>10, <2>2
    <3>2. order.number = Read(r).number
      BY <1>5 DEF Read
    <3>3. order.number # Read(p).number
      BY <1>1, <2>2, <3>1, <3>2 DEF NumbersOnce
    <3>4. CASE i = n
      BY <1>6, <3>1, <3>3, <3>4
    <3>5. CASE i \in DOMAIN imports
      BY <1>6, <2>2, <3>1, <3>5 DEF NumbersOnce
    <3> QED BY <1>6, <3>4, <3>5
  <2>3. ASSUME NEW i \in DOMAIN imports', NEW j \in DOMAIN imports',
               imports'[j].number = imports'[i].number, imports'[j].supplier = imports'[i].supplier,
               i # j
        PROVE  imports'[i].number \in crossed' \cup {NoOrderNumber} \/ imports'[i].supplier = Source
    <3>1. CASE i = n
      BY <1>1, <1>6, <1>11, <2>3, <3>1
    <3>2. CASE j = n
      BY <1>1, <1>6, <1>11, <2>3, <3>2
    <3>3. CASE i \in DOMAIN imports /\ j \in DOMAIN imports
      BY <1>1, <1>6, <2>3, <3>3 DEF NumbersOnce
    <3> QED BY <1>6, <3>1, <3>2, <3>3
  <2> QED BY <2>1, <2>2, <2>3 DEF NumbersOnce, Read
<1> QED BY <1>7, <1>9, <1>12

LEMMA ImportInductive ==
    ASSUME ImportInv, [OrderImportNext]_orderVars
    PROVE  ImportInv'
<1>1. CASE UNCHANGED orderVars
  <2>1. UNCHANGED <<shortage, offer, imports, confirmation, crossed>>
    BY <1>1 DEF orderVars
  <2>2. ImportTypes'
    BY <2>1 DEF ImportInv, ImportTypes, Read, Enough
  <2> QED BY <2>1, <2>2, OrdersUntouched DEF ImportInv
<1>2. CASE OrderImportNext
  BY <1>2, PreviewKeeps, ExpiryKeeps, StoreKeeps, EndKeeps, OpenKeeps, ShortageKeeps
  DEF OrderImportNext, Numbers
<1> QED BY <1>1, <1>2

LEMMA InvImpliesCover == ImportInv => ImportedOrdersCover
<1> SUFFICES ASSUME ImportInv PROVE ImportedOrdersCover
  OBVIOUS
<1>1. ASSUME NEW i \in DOMAIN imports, NEW k \in DOMAIN imports[i].lines
      PROVE  MapThenSumSet(LAMBDA entry : entry.amount, imports[i].lines[k].given)
               <= imports[i].lines[k].quantity
  BY DEF ImportInv, OrdersCover, Enough, Amounts
<1> QED BY <1>1 DEF ImportInv, OrdersCover, NumbersOnce, ImportedOrdersCover

\* No line of an imported order gives more than it has; a Part it has marked was
\* ticked, or nothing was, and is covered by what it lacked when it was shown; and
\* a number of a supplier is stored once unless confirmations of it have crossed,
\* for any shortages, files and requests (order_import, order_import_confirm).
THEOREM ImportedOrdersStayCovered == OrderImportSpec => []ImportedOrdersCover
<1>1. OrderImportInit => ImportInv
  BY ImportInitially
<1>2. ImportInv /\ [OrderImportNext]_orderVars => ImportInv'
  BY ImportInductive
<1>3. ImportInv => ImportedOrdersCover
  BY InvImpliesCover
<1> QED BY <1>1, <1>2, <1>3, PTL DEF OrderImportSpec
=============================================================================
