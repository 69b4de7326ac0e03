--------------------------- MODULE Accounts_proofs ---------------------------
(***************************************************************************)
(* Sessions and addresses of accounts, for any number of accounts, keys    *)
(* and requests that overlap.                                              *)
(***************************************************************************)
EXTENDS AccountAddresses, AccountSessions, FiniteSetTheorems, TLAPS

OwnerRow == [exists : BOOLEAN, active : BOOLEAN, password : Nat, factor : BOOLEAN]
SessionRow == [user : Owners, password : Nat]

SessionTypes ==
    /\ owner \in [Owners -> OwnerRow]
    /\ sessions \in [Keys -> SessionRow \cup {NoSession}]
    /\ registry \in [Keys -> Owners \cup {NoOwner}]
    /\ browsers \subseteq used /\ used \subseteq Keys
    /\ \A k \in Keys : k \notin used => sessions[k] = NoSession /\ registry[k] = NoOwner

\* What a request knows; its session, if there is still one, is of its user.
RequestKnows(q) ==
    /\ DOMAIN q = {"stage", "user", "key", "row", "listed"}
    /\ q.stage = "idle" => q.key = NoKey
    /\ q.stage \in {"challenge", "login"} => q.user \in Owners /\ q.key = NoKey
    /\ q.stage \in {"login", "password", "factor"} => q.row \in OwnerRow
    /\ q.stage = "password" => q.row.exists
    /\ q.stage \notin {"idle", "challenge", "login"} =>
         /\ q.user \in Owners /\ q.key \in used
         /\ sessions[q.key] = NoSession \/ sessions[q.key].user = q.user

RequestsKnow ==
    /\ DOMAIN sessionRequest = SessionRequests
    /\ \A r \in SessionRequests : RequestKnows(sessionRequest[r])

Leaving(k) == \E r \in SessionRequests : Stage(r, "flush") /\ sessionRequest[r].key = k

\* The list names the right account, or nobody.  It names nobody for a session
\* that a browser knows only while a logout is between its two steps, or was
\* cut off there.  Such a session is of an account that exists, usable or not.
ListHolds ==
    /\ \A k \in Keys : registry[k] # NoOwner /\ sessions[k] # NoSession
         => registry[k] = sessions[k].user
    /\ \A k \in browsers : sessions[k] # NoSession =>
         /\ owner[sessions[k].user].exists
         /\ k \in cut \/ registry[k] = sessions[k].user \/ Leaving(k)

SessionInv == SessionTypes /\ RequestsKnow /\ ListHolds

LEMMA AtRestKnows == RequestKnows(RequestAtRest)
BY DEF RequestKnows, RequestAtRest

LEMMA OwnerRowsWithin ==
    ASSUME NEW A, NEW B, A \subseteq B, NEW C, NEW D, C \subseteq D, NEW F
    PROVE  \A row \in [exists : A, active : A, password : C, factor : F] :
             row \in [exists : B, active : B, password : D, factor : F]
OBVIOUS

LEMMA SessionInvInit == SessionInit => SessionInv
<1> SUFFICES ASSUME SessionInit PROVE SessionInv
  OBVIOUS
<1>1. SessionTypes
  <2> DEFINE Rows == [exists : {TRUE}, active : {TRUE}, password : {1}, factor : BOOLEAN]
  <2>0. {TRUE} \subseteq BOOLEAN /\ {1} \subseteq Nat
    OBVIOUS
  <2>1. \A row \in Rows : row \in OwnerRow
    BY <2>0, OwnerRowsWithin, Zenon DEF OwnerRow
  <2>2. owner \in [Owners -> Rows]
    BY DEF SessionInit
  <2> HIDE DEF Rows
  <2>3. owner \in [Owners -> OwnerRow]
    BY <2>1, <2>2
  <2> QED BY <2>3 DEF SessionInit, SessionTypes
<1>2. RequestsKnow
  BY AtRestKnows DEF SessionInit, RequestsKnow
<1>3. ListHolds
  BY DEF SessionInit, ListHolds
<1> QED BY <1>1, <1>2, <1>3 DEF SessionInv

LEMMA Moves ==
    ASSUME SessionInv, NEW r \in SessionRequests, NEW q, Becomes(r, q)
    PROVE  /\ DOMAIN sessionRequest' = SessionRequests /\ sessionRequest'[r] = q
           /\ \A s \in SessionRequests \ {r} : sessionRequest'[s] = sessionRequest[s]
BY DEF SessionInv, RequestsKnow, Becomes

\* One request goes on with what it knows, the others know what they knew.
LEMMA StillKnow ==
    ASSUME SessionInv, NEW r \in SessionRequests, NEW q, Becomes(r, q),
           used \subseteq used',
           \A k \in used : sessions'[k] = sessions[k] \/ sessions'[k] = NoSession,
           RequestKnows(sessionRequest[r])'
    PROVE  RequestsKnow'
<1>1. ASSUME NEW s \in SessionRequests \ {r}
      PROVE  RequestKnows(sessionRequest[s])'
  <2>1. RequestKnows(sessionRequest[s]) /\ sessionRequest'[s] = sessionRequest[s]
    BY Moves DEF SessionInv, RequestsKnow
  <2> QED BY <2>1 DEF RequestKnows
<1> QED BY <1>1, Moves DEF RequestsKnow

\* Sessions end, nobody starts one; what is left stays listed as it was.
LEMMA StillListed ==
    ASSUME SessionInv, browsers' \subseteq browsers,
           \A k \in Keys : sessions'[k] # NoSession =>
             /\ sessions'[k] = sessions[k] /\ registry'[k] = registry[k]
             /\ k \in browsers /\ owner[sessions[k].user].exists
                  => owner'[sessions[k].user].exists
             /\ k \in cut \/ Leaving(k) => k \in cut' \/ Leaving(k)'
    PROVE  ListHolds'
<1>1. \A k \in browsers : k \in Keys
  BY DEF SessionInv, SessionTypes
<1> QED BY <1>1 DEF SessionInv, ListHolds

\* A request that is not in a logout leaves none by what it does next.
LEMMA StillLeaving ==
    ASSUME SessionInv, NEW r \in SessionRequests, NEW q, Becomes(r, q), ~Stage(r, "flush"),
           NEW k, Leaving(k)
    PROVE  Leaving(k)'
BY Moves DEF Leaving, Stage

-----------------------------------------------------------------------------
LEMMA Knows ==
    ASSUME SessionInv, NEW r \in SessionRequests
    PROVE  RequestKnows(sessionRequest[r])
BY DEF SessionInv, RequestsKnow

\* Steps of a request that write nothing but what it knows.
LEMMA AskKeeps ==
    ASSUME SessionInv, NEW r \in SessionRequests, NEW q, Becomes(r, q), ~Stage(r, "flush"),
           UNCHANGED <<owner, sessions, registry, used, browsers, cut>>, RequestKnows(q)
    PROVE  SessionInv'
<1>1. SessionTypes'
  BY DEF SessionInv, SessionTypes
<1>2. sessionRequest'[r] = q
  BY Moves
<1>3. RequestKnows(sessionRequest[r])'
  BY <1>2 DEF RequestKnows
<1>4. RequestsKnow'
  BY <1>3, StillKnow
<1>5. ListHolds'
  BY StillLeaving, StillListed
<1> QED BY <1>1, <1>4, <1>5 DEF SessionInv

LEMMA LoginKeeps ==
    ASSUME SessionInv, NEW r \in SessionRequests,
           (\E o \in Owners : Authenticate(r, o)) \/ Challenge(r)
    PROVE  SessionInv'
<1>1. ASSUME NEW o \in Owners, Authenticate(r, o)
      PROVE  SessionInv'
  <2> DEFINE q == [RequestAtRest EXCEPT !.stage = IF owner[o].factor THEN "challenge" ELSE "login",
                                        !.user = o, !.row = owner[o]]
  <2>1. owner[o] \in OwnerRow
    BY DEF SessionInv, SessionTypes
  <2>2. RequestKnows(q)
    BY <2>1 DEF RequestKnows, RequestAtRest
  <2>3. Becomes(r, q) /\ ~Stage(r, "flush")
    BY <1>1 DEF Authenticate, Stage
  <2> QED BY <1>1, <2>2, <2>3, AskKeeps DEF Authenticate
<1>2. CASE Challenge(r)
  <2> DEFINE o == sessionRequest[r].user
             q == [sessionRequest[r] EXCEPT !.stage = "login", !.row = owner[o]]
  <2>0. RequestKnows(sessionRequest[r]) /\ sessionRequest[r].stage = "challenge"
    BY <1>2, Knows DEF Challenge, Stage
  <2>1. owner[o] \in OwnerRow
    BY <2>0 DEF SessionInv, SessionTypes, RequestKnows
  <2>2. RequestKnows(q)
    BY <2>0, <2>1 DEF RequestKnows
  <2>3. Becomes(r, q) \/ Becomes(r, RequestAtRest)
    BY <1>2 DEF Challenge, Rests
  <2>4. ~Stage(r, "flush")
    BY <2>0 DEF Stage
  <2>5. UNCHANGED <<owner, sessions, registry, used, browsers, cut>>
    BY <1>2 DEF Challenge
  <2> QED BY <2>2, <2>3, <2>4, <2>5, AskKeeps, AtRestKnows
<1> QED BY <1>1, <1>2

LEMMA EnterKeeps ==
    ASSUME SessionInv, NEW r \in SessionRequests, NEW k \in Keys, NEW view \in Views,
           Enter(r, k, view)
    PROVE  SessionInv'
<1> DEFINE o == sessions[k].user
           q == [stage |-> view, user |-> o, key |-> k,
                 row |-> IF view \in {"password", "factor"} THEN owner[o] ELSE NoOwner,
                 listed |-> IF view = "others" THEN KeysOf(o) \ {k} ELSE {}]
<1>1. /\ k \in used /\ o \in Owners /\ owner[o] \in OwnerRow /\ owner[o].exists
      /\ sessions[k] # NoSession
  BY DEF Enter, Usable, SessionInv, SessionTypes, SessionRow
<1>2. RequestKnows(q)
  BY <1>1 DEF RequestKnows, Views
<1>3. Becomes(r, q) /\ ~Stage(r, "flush")
  BY DEF Enter, Stage
<1> QED BY <1>2, <1>3, AskKeeps DEF Enter

LEMMA RevokedKeeps ==
    ASSUME SessionInv, NEW r \in SessionRequests, OthersRevoked(r)
    PROVE  SessionInv'
<1> DEFINE q == [sessionRequest[r] EXCEPT !.stage = "answer"]
<1>1. RequestKnows(sessionRequest[r]) /\ sessionRequest[r].stage = "others"
  BY Knows DEF OthersRevoked, Stage
<1>2. RequestKnows(q) /\ Becomes(r, q) /\ ~Stage(r, "flush")
  BY <1>1 DEF RequestKnows, OthersRevoked, Proceeds, Stage
<1> QED BY <1>2, AskKeeps DEF OthersRevoked

LEMMA EndKeeps ==
    ASSUME SessionInv, NEW r \in SessionRequests, RequestEnds(r)
    PROVE  SessionInv'
<1>0. Becomes(r, RequestAtRest)
  BY DEF RequestEnds, Rests
<1>1. CASE ~Stage(r, "flush")
  BY <1>0, <1>1, AskKeeps, AtRestKnows DEF RequestEnds
<1>2. CASE Stage(r, "flush")
  <2>1. SessionTypes'
    BY DEF RequestEnds, SessionInv, SessionTypes
  <2>2. RequestKnows(sessionRequest[r])'
    BY <1>0, Moves DEF RequestKnows, RequestAtRest
  <2>3. RequestsKnow'
    BY <1>0, <2>2, StillKnow DEF RequestEnds
  <2>4. \A k : k \in cut \/ Leaving(k) => k \in cut' \/ Leaving(k)'
    BY <1>0, <1>2, Moves DEF Leaving, Stage, RequestEnds
  <2>5. ListHolds'
    BY <2>4, StillListed DEF RequestEnds
  <2> QED BY <2>1, <2>3, <2>5 DEF SessionInv
<1> QED BY <1>1, <1>2

-----------------------------------------------------------------------------
\* A new session has a key that nobody has yet.
LEMMA FreshKey ==
    ASSUME SessionInv, NEW k \in Keys \ used
    PROVE  /\ sessions[k] = NoSession /\ registry[k] = NoOwner /\ k \notin browsers
           /\ \A r \in SessionRequests :
                sessionRequest[r].stage \notin {"idle", "challenge", "login"} =>
                  sessionRequest[r].key # k
BY DEF SessionInv, SessionTypes, RequestsKnow, RequestKnows

LEMMA StartKeeps ==
    ASSUME SessionInv, NEW r \in SessionRequests, NEW k \in Keys, StartSession(r, k)
    PROVE  SessionInv'
<1> DEFINE q == sessionRequest[r]
           session == [user |-> q.user, password |-> q.row.password]
           next == [q EXCEPT !.stage = "track", !.key = k, !.row = NoOwner]
<1>1. /\ RequestKnows(q) /\ q.stage = "login" /\ k \notin used
      /\ sessions' = [sessions EXCEPT ![k] = session] /\ used' = used \cup {k}
      /\ Becomes(r, next) /\ UNCHANGED <<owner, registry, browsers, cut>>
  BY Knows DEF StartSession, Stage
<1>2. session \in SessionRow /\ session # NoSession /\ session.user = q.user /\ q.user \in Owners
  BY <1>1, SessionAssumption DEF RequestKnows, OwnerRow, SessionRow
<1>3. /\ DOMAIN next = DOMAIN q /\ next.stage = "track" /\ next.key = k /\ next.user = q.user
      /\ DOMAIN q = {"stage", "user", "key", "row", "listed"}
  BY <1>1 DEF RequestKnows
<1>4. /\ sessions'[k] = session
      /\ \A j \in Keys \ {k} : sessions'[j] = sessions[j]
  BY <1>1 DEF SessionInv, SessionTypes
<1> HIDE DEF session, next, q
<1>5. SessionTypes'
  BY <1>1, <1>2, <1>4 DEF SessionInv, SessionTypes
<1>6. sessionRequest'[r] = next
  BY <1>1, Moves
<1>7. RequestKnows(sessionRequest[r])'
  BY <1>1, <1>2, <1>3, <1>4, <1>6 DEF RequestKnows
<1>8. RequestsKnow'
  <2>1. \A j \in used : sessions'[j] = sessions[j]
    BY <1>1, <1>4 DEF SessionInv, SessionTypes
  <2>2. used \subseteq used'
    BY <1>1
  <2> QED BY <1>1, <1>7, <2>1, <2>2, StillKnow
<1>9. ListHolds'
  <2>1. ~Stage(r, "flush")
    BY <1>1 DEF Stage, q
  <2>2. \A j : Leaving(j) => Leaving(j)'
    BY <1>1, <2>1, StillLeaving
  <2>3. registry[k] = NoOwner /\ k \notin browsers
    BY <1>1, FreshKey
  <2>4. \A j \in browsers : j \in Keys /\ j # k
    BY <2>3 DEF SessionInv, SessionTypes
  <2> QED BY <1>1, <1>4, <2>2, <2>3, <2>4 DEF SessionInv, ListHolds
<1> QED BY <1>5, <1>8, <1>9 DEF SessionInv

LEMMA PasswordKeeps ==
    ASSUME SessionInv, NEW r \in SessionRequests, NEW k \in Keys, ChangePassword(r, k)
    PROVE  SessionInv'
<1> DEFINE q == sessionRequest[r]
           n == owner[q.user].password + 1
           session == [user |-> q.user, password |-> n]
           row == [q.row EXCEPT !.password = n]
           next == [q EXCEPT !.stage = "answer", !.key = k, !.row = NoOwner]
<1>1. /\ RequestKnows(q) /\ q.stage = "password" /\ k \notin used
      /\ sessions' = [sessions EXCEPT ![q.key] = NoSession, ![k] = session]
      /\ owner' = [owner EXCEPT ![q.user] = row]
      /\ used' = used \cup {k}
      /\ Becomes(r, next) /\ UNCHANGED <<registry, browsers, cut>>
  BY Knows DEF ChangePassword, Stage
<1>n. q.user \in Owners /\ q.key \in used /\ q.row \in OwnerRow /\ q.row.exists
  BY <1>1 DEF RequestKnows
<1>m. n \in Nat
  BY <1>n DEF SessionInv, SessionTypes, OwnerRow
<1>2. session \in SessionRow /\ session # NoSession /\ session.user = q.user
  BY <1>n, <1>m, SessionAssumption DEF SessionRow
<1>r. row \in OwnerRow /\ row.exists
  BY <1>n, <1>m DEF OwnerRow
<1>3. /\ DOMAIN next = DOMAIN q /\ next.stage = "answer" /\ next.key = k /\ next.user = q.user
      /\ DOMAIN q = {"stage", "user", "key", "row", "listed"}
  BY <1>1 DEF RequestKnows
<1>k. q.key \in Keys /\ q.key # k
  BY <1>1, <1>n DEF SessionInv, SessionTypes
<1> HIDE DEF session, next, q, row, n
<1>4. /\ sessions'[k] = session /\ sessions'[q.key] = NoSession
      /\ \A j \in Keys \ {k, q.key} : sessions'[j] = sessions[j]
  BY <1>1, <1>k DEF SessionInv, SessionTypes
<1>5. SessionTypes'
  <2>1. owner' \in [Owners -> OwnerRow]
    BY <1>1, <1>n, <1>r DEF SessionInv, SessionTypes
  <2>2. sessions' \in [Keys -> SessionRow \cup {NoSession}]
    BY <1>1, <1>2 DEF SessionInv, SessionTypes
  <2> QED BY <1>1, <1>4, <2>1, <2>2 DEF SessionInv, SessionTypes
<1>6. sessionRequest'[r] = next
  BY <1>1, Moves
<1>7. RequestKnows(sessionRequest[r])'
  BY <1>1, <1>n, <1>2, <1>3, <1>4, <1>6 DEF RequestKnows
<1>8. RequestsKnow'
  <2>1. \A j \in used : sessions'[j] = sessions[j] \/ sessions'[j] = NoSession
    BY <1>1, <1>4 DEF SessionInv, SessionTypes
  <2>2. used \subseteq used'
    BY <1>1
  <2> QED BY <1>1, <1>7, <2>1, <2>2, StillKnow
<1>9. ListHolds'
  <2>1. ~Stage(r, "flush")
    BY <1>1 DEF Stage, q
  <2>2. \A j : Leaving(j) => Leaving(j)'
    BY <1>1, <2>1, StillLeaving
  <2>3. registry[k] = NoOwner /\ k \notin browsers
    BY <1>1, FreshKey
  <2>4. \A j \in browsers : j \in Keys /\ j # k
    BY <2>3 DEF SessionInv, SessionTypes
  <2>5. \A o \in Owners : owner[o].exists => owner'[o].exists
    BY <1>1, <1>n, <1>r DEF SessionInv, SessionTypes
  <2>6. \A j \in browsers : sessions'[j] # NoSession =>
          sessions'[j] = sessions[j] /\ sessions[j].user \in Owners
    BY <1>4, <2>4 DEF SessionInv, SessionTypes, SessionRow
  <2>7. \A j \in Keys : registry'[j] # NoOwner /\ sessions'[j] # NoSession
          => registry'[j] = sessions'[j].user
    BY <1>1, <1>4, <2>3 DEF SessionInv, ListHolds
  <2> QED BY <1>1, <2>2, <2>5, <2>6, <2>7 DEF SessionInv, ListHolds
<1> QED BY <1>5, <1>8, <1>9 DEF SessionInv

-----------------------------------------------------------------------------
\* The list is written from a request, the sessions stay.
LEMMA AnswersKeep ==
    ASSUME SessionInv, NEW r \in SessionRequests, Track(r) \/ Answer(r) \/ Unlist(r)
    PROVE  SessionInv'
<1> DEFINE q == sessionRequest[r]
<1>k. PICK k : k = q.key
  OBVIOUS
<1>1. /\ RequestKnows(q) /\ q.stage \in {"track", "answer", "leave"}
      /\ UNCHANGED <<owner, sessions, used>>
  BY Knows DEF Track, Answer, Unlist, Stage
<1>2. /\ q.user \in Owners /\ k \in used /\ k \in Keys
      /\ sessions[k] = NoSession \/ sessions[k].user = q.user
  BY <1>k, <1>1 DEF RequestKnows, SessionInv, SessionTypes
<1>3. PICK next : Becomes(r, next) /\ RequestKnows(next)
  <2>1. /\ RequestKnows([q EXCEPT !.stage = "answer"])
        /\ RequestKnows([q EXCEPT !.stage = "flush"])
    BY <1>1 DEF RequestKnows
  <2> QED BY <2>1, AtRestKnows DEF Track, Answer, Unlist, Proceeds, Rests
<1> HIDE DEF q
<1>4. /\ \A j \in Keys \ {k} : registry'[j] = registry[j]
      /\ registry'[k] \in {q.user, NoOwner, registry[k]}
      /\ DOMAIN registry' = Keys
  BY <1>k, <1>2 DEF Track, Answer, Unlist, Listed, ListedByMiddleware, SessionInv, SessionTypes, q
<1>5. browsers' \subseteq used
  BY <1>k, <1>2 DEF Track, Answer, Unlist, SessionInv, SessionTypes, q
<1>6. SessionTypes'
  <2>1. registry' \in [Keys -> Owners \cup {NoOwner}]
    BY <1>k, <1>2 DEF Track, Answer, Unlist, Listed, ListedByMiddleware, SessionInv, SessionTypes, q
  <2> QED BY <1>1, <1>2, <1>4, <1>5, <2>1 DEF SessionInv, SessionTypes
<1>7. RequestsKnow'
  <2>1. sessionRequest'[r] = next
    BY <1>3, Moves
  <2>2. RequestKnows(sessionRequest[r])'
    BY <1>1, <1>3, <2>1 DEF RequestKnows
  <2> QED BY <1>1, <1>3, <2>2, StillKnow
<1>8. ListHolds'
  <2>0. ~Stage(r, "flush")
    BY <1>1 DEF Stage, q
  <2>1. \A j : Leaving(j) => Leaving(j)'
    BY <1>3, <2>0, StillLeaving
  <2>2. \A j \in Keys : registry'[j] # NoOwner /\ sessions'[j] # NoSession
          => registry'[j] = sessions'[j].user
    BY <1>1, <1>2, <1>4 DEF SessionInv, ListHolds
  <2>3. \A j \in browsers \ {k} : j \in Keys
    BY DEF SessionInv, SessionTypes
  <2>4. CASE Answer(r)
    <3>1. \/ /\ owner[q.user].exists /\ registry'[k] = q.user /\ browsers' = browsers \cup {k}
             /\ cut' = cut \ {k}
          \/ /\ ~owner[q.user].exists /\ registry' = registry /\ browsers' = browsers
             /\ cut' = cut \ {k}
      BY <1>k, <1>2, <2>4 DEF Answer, Listed, ListedByMiddleware, SessionInv, SessionTypes, q
    <3> QED BY <1>1, <1>2, <1>4, <2>1, <2>2, <2>3, <3>1 DEF SessionInv, ListHolds
  <2>5. CASE Track(r)
    <3>1. /\ browsers' = browsers /\ cut' = cut
          /\ registry'[k] \in {q.user, registry[k]}
      BY <1>k, <1>2, <2>5 DEF Track, Listed, SessionInv, SessionTypes, q
    <3> QED BY <1>1, <1>2, <1>4, <2>1, <2>2, <2>3, <3>1 DEF SessionInv, ListHolds
  <2>6. CASE Unlist(r)
    <3>1. browsers' = browsers /\ cut' = cut
      BY <2>6 DEF Unlist
    <3>2. sessionRequest'[r] = [q EXCEPT !.stage = "flush"]
      BY <2>6, Moves DEF Unlist, Proceeds, q
    <3>3. sessionRequest'[r].stage = "flush" /\ sessionRequest'[r].key = k
      BY <1>k, <1>1, <3>2 DEF RequestKnows
    <3>4. Leaving(k)'
      BY <3>3 DEF Leaving, Stage
    <3> QED BY <1>1, <1>2, <1>4, <2>1, <2>2, <2>3, <3>1, <3>4 DEF SessionInv, ListHolds
  <2> QED BY <2>4, <2>5, <2>6
<1> QED BY <1>6, <1>7, <1>8 DEF SessionInv

\* Other passwords, a second factor more or less: the accounts are still there.
LEMMA AccountsKeep ==
    ASSUME SessionInv,
           (\E o \in Owners : ResetPassword(o)) \/ (\E r \in SessionRequests : SwitchFactor(r))
    PROVE  SessionInv'
<1>1. ASSUME NEW o \in Owners, ResetPassword(o)
      PROVE  SessionInv'
  <2>1. /\ UNCHANGED <<sessions, registry, used, browsers, sessionRequest, cut>>
        /\ owner' = [owner EXCEPT ![o].password = @ + 1]
    BY <1>1 DEF ResetPassword
  <2>2. owner[o] \in OwnerRow
    BY DEF SessionInv, SessionTypes
  <2>3. [owner[o] EXCEPT !.password = @ + 1] \in OwnerRow
    BY <2>2 DEF OwnerRow
  <2>4. owner' \in [Owners -> OwnerRow]
    BY <2>1, <2>3 DEF SessionInv, SessionTypes
  <2>5. \A u \in Owners : owner'[u].exists = owner[u].exists
    BY <2>1, <2>2 DEF SessionInv, SessionTypes, OwnerRow
  <2>6. SessionTypes' /\ RequestsKnow'
    BY <2>1, <2>4 DEF SessionInv, SessionTypes, RequestsKnow, RequestKnows
  <2>7. \A k : Leaving(k) => Leaving(k)'
    BY <2>1 DEF Leaving, Stage
  <2>8. \A k \in Keys : sessions[k] # NoSession => sessions[k].user \in Owners
    BY DEF SessionInv, SessionTypes, SessionRow
  <2>9. ListHolds'
    BY <2>1, <2>5, <2>7, <2>8, StillListed
  <2> QED BY <2>6, <2>9 DEF SessionInv
<1>2. ASSUME NEW r \in SessionRequests, SwitchFactor(r)
      PROVE  SessionInv'
  <2> DEFINE q == sessionRequest[r]
             next == [q EXCEPT !.stage = "answer", !.row = NoOwner]
  <2>1. /\ RequestKnows(q) /\ q.stage = "factor" /\ Becomes(r, next)
        /\ UNCHANGED <<sessions, registry, used, browsers, cut>>
    BY <1>2, Knows DEF SwitchFactor, Stage
  <2>2. q.user \in Owners /\ q.row \in OwnerRow /\ owner[q.user] \in OwnerRow
    BY <2>1 DEF RequestKnows, SessionInv, SessionTypes
  <2>3. RequestKnows(next)
    BY <2>1 DEF RequestKnows
  <2>4. owner' \in {owner, [owner EXCEPT ![q.user].factor = ~q.row.factor]}
    BY <1>2 DEF SwitchFactor
  <2>n. ~Stage(r, "flush")
    BY <2>1 DEF Stage
  <2> HIDE DEF next
  <2>b. (~q.row.factor) \in BOOLEAN
    BY <2>2 DEF OwnerRow
  <2>c. [owner[q.user] EXCEPT !.factor = ~q.row.factor] \in OwnerRow
    BY <2>2, <2>b DEF OwnerRow
  <2>5. owner' \in [Owners -> OwnerRow]
    BY <2>2, <2>4, <2>c DEF SessionInv, SessionTypes
  <2>6. \A u \in Owners : owner'[u].exists = owner[u].exists
    BY <2>2, <2>4 DEF SessionInv, SessionTypes, OwnerRow
  <2>7. SessionTypes'
    BY <2>1, <2>5 DEF SessionInv, SessionTypes
  <2>8. sessionRequest'[r] = next
    BY <2>1, Moves
  <2>9. RequestKnows(sessionRequest[r])'
    BY <2>1, <2>3, <2>8 DEF RequestKnows
  <2>10. RequestsKnow'
    BY <2>1, <2>9, StillKnow
  <2>11. \A k : Leaving(k) => Leaving(k)'
    BY <2>1, <2>n, StillLeaving
  <2>12. \A k \in Keys : sessions[k] # NoSession => sessions[k].user \in Owners
    BY DEF SessionInv, SessionTypes, SessionRow
  <2>13. ListHolds'
    BY <2>1, <2>6, <2>11, <2>12, StillListed
  <2> QED BY <2>7, <2>10, <2>13 DEF SessionInv
<1> QED BY <1>1, <1>2

-----------------------------------------------------------------------------
\* Sessions end, and rows of the list go; the accounts that still have a
\* session stay.
LEMMA EndingKeeps ==
    ASSUME SessionInv,
           owner' \in [Owners -> OwnerRow], sessions' \in [Keys -> SessionRow \cup {NoSession}],
           registry' \in [Keys -> Owners \cup {NoOwner}],
           used' = used, browsers' \subseteq browsers, cut' = cut,
           \A k \in Keys :
             /\ sessions'[k] = sessions[k] \/ sessions'[k] = NoSession
             /\ registry'[k] = registry[k] \/ (registry'[k] = NoOwner /\ sessions'[k] = NoSession)
             /\ sessions'[k] # NoSession /\ owner[sessions[k].user].exists
                  => owner'[sessions[k].user].exists,
           RequestsKnow',
           \A k \in Keys : sessions'[k] # NoSession /\ Leaving(k) => Leaving(k)'
    PROVE  SessionInv'
<1>1. SessionTypes'
  BY DEF SessionInv, SessionTypes
<1>2. ListHolds'
  BY StillListed
<1> QED BY <1>1, <1>2 DEF SessionInv

LEMMA RevokeKeeps ==
    ASSUME SessionInv, NEW r \in SessionRequests, NEW k \in Keys,
           RevokeOne(r, k) \/ RevokeOther(r, k)
    PROVE  SessionInv'
<1> DEFINE q == sessionRequest[r]
<1>1. /\ RequestKnows(q) /\ q.stage \in {"one", "others"} /\ Revoked(k)
      /\ UNCHANGED <<owner, used, browsers, cut>>
  BY Knows DEF RevokeOne, RevokeOther, Stage
<1>2. PICK next : Becomes(r, next) /\ RequestKnows(next)
  <2>1. /\ RequestKnows([q EXCEPT !.stage = "answer"])
        /\ RequestKnows([q EXCEPT !.listed = @ \ {k}])
    BY <1>1 DEF RequestKnows
  <2> QED BY <2>1 DEF RevokeOne, RevokeOther, Proceeds
<1>3. ~Stage(r, "flush")
  BY <1>1 DEF Stage
<1>4. \A j \in Keys :
        /\ sessions'[j] = sessions[j] \/ sessions'[j] = NoSession
        /\ registry'[j] = registry[j] \/ (registry'[j] = NoOwner /\ sessions'[j] = NoSession)
  BY <1>1 DEF Revoked, SessionInv, SessionTypes
<1>5. /\ sessions' \in [Keys -> SessionRow \cup {NoSession}]
      /\ registry' \in [Keys -> Owners \cup {NoOwner}] /\ owner' \in [Owners -> OwnerRow]
  BY <1>1 DEF Revoked, SessionInv, SessionTypes
<1>6. RequestsKnow'
  <2>1. sessionRequest'[r] = next
    BY <1>2, Moves
  <2>2. \A j \in used : sessions'[j] = sessions[j] \/ sessions'[j] = NoSession
    BY <1>4 DEF SessionInv, SessionTypes
  <2>3. RequestKnows(sessionRequest[r])'
    BY <1>1, <1>2, <2>1, <2>2 DEF RequestKnows
  <2> QED BY <1>1, <1>2, <2>2, <2>3, StillKnow
<1>7. \A j : Leaving(j) => Leaving(j)'
  BY <1>2, <1>3, StillLeaving
<1> QED BY <1>1, <1>4, <1>5, <1>6, <1>7, EndingKeeps

LEMMA FlushKeeps ==
    ASSUME SessionInv, NEW r \in SessionRequests, Flush(r)
    PROVE  SessionInv'
<1> DEFINE q == sessionRequest[r]
<1>k. PICK k : k = q.key
  OBVIOUS
<1>1. /\ RequestKnows(q) /\ q.stage = "flush" /\ Becomes(r, RequestAtRest)
      /\ sessions' = [sessions EXCEPT ![k] = NoSession] /\ browsers' = browsers \ {k}
      /\ UNCHANGED <<owner, registry, used, cut>>
  BY <1>k, Knows DEF Flush, Stage, Rests
<1>2. k \in Keys
  BY <1>k, <1>1 DEF RequestKnows, SessionInv, SessionTypes
<1>3. /\ \A j \in Keys : sessions'[j] = sessions[j] \/ sessions'[j] = NoSession
      /\ sessions'[k] = NoSession
  BY <1>1, <1>2 DEF SessionInv, SessionTypes
<1>4. RequestsKnow'
  <2>1. RequestKnows(sessionRequest[r])'
    BY <1>1, Moves DEF RequestKnows, RequestAtRest
  <2>2. \A j \in used : sessions'[j] = sessions[j] \/ sessions'[j] = NoSession
    BY <1>3 DEF SessionInv, SessionTypes
  <2> QED BY <1>1, <2>1, <2>2, StillKnow
<1>5. \A j : j # k /\ Leaving(j) => Leaving(j)'
  BY <1>k, <1>1, Moves DEF Leaving, Stage
<1>6. /\ sessions' \in [Keys -> SessionRow \cup {NoSession}]
      /\ registry' \in [Keys -> Owners \cup {NoOwner}] /\ owner' \in [Owners -> OwnerRow]
  BY <1>1 DEF SessionInv, SessionTypes
<1> QED BY <1>1, <1>3, <1>4, <1>5, <1>6, EndingKeeps

LEMMA AccountEndKeeps ==
    ASSUME SessionInv, NEW r \in SessionRequests, NEW row \in OwnerRow, EndAccount(r, row)
    PROVE  SessionInv'
<1> DEFINE q == sessionRequest[r]
<1>k. PICK o, k : o = q.user /\ k = q.key
  OBVIOUS
<1>1. /\ RequestKnows(q) /\ q.stage = "end" /\ Becomes(r, RequestAtRest)
      /\ owner' = [owner EXCEPT ![o] = row] /\ browsers' = browsers \ {k}
      /\ UNCHANGED <<used, cut>>
  BY <1>k, Knows DEF EndAccount, Stage, Rests
<1>2. /\ sessions' = [j \in Keys |-> IF sessions[j] # NoSession /\ sessions[j].user = o
                                     THEN NoSession ELSE sessions[j]]
      /\ registry' = [j \in Keys |-> IF registry[j] = o THEN NoOwner ELSE registry[j]]
  BY <1>k DEF EndAccount
<1>3. o \in Owners /\ o # NoOwner
  BY <1>k, <1>1, SessionAssumption DEF RequestKnows
<1>4. \A j \in Keys :
        /\ sessions'[j] = sessions[j] \/ sessions'[j] = NoSession
        /\ registry'[j] = registry[j] \/ (registry'[j] = NoOwner /\ sessions'[j] = NoSession)
        /\ sessions'[j] # NoSession => sessions[j].user # o
  BY <1>2, <1>3 DEF SessionInv, ListHolds
<1>5. \A j \in Keys : sessions'[j] # NoSession =>
        owner'[sessions[j].user] = owner[sessions[j].user]
  <2>1. \A j \in Keys : sessions'[j] # NoSession => sessions[j].user \in Owners \ {o}
    BY <1>4 DEF SessionInv, SessionTypes, SessionRow
  <2> QED BY <1>1, <2>1 DEF SessionInv, SessionTypes
<1>6. /\ sessions' \in [Keys -> SessionRow \cup {NoSession}]
      /\ registry' \in [Keys -> Owners \cup {NoOwner}] /\ owner' \in [Owners -> OwnerRow]
  BY <1>1, <1>2 DEF SessionInv, SessionTypes
<1>7. RequestsKnow'
  <2>1. RequestKnows(sessionRequest[r])'
    BY <1>1, Moves DEF RequestKnows, RequestAtRest
  <2>2. \A j \in used : sessions'[j] = sessions[j] \/ sessions'[j] = NoSession
    BY <1>4 DEF SessionInv, SessionTypes
  <2> QED BY <1>1, <2>1, <2>2, StillKnow
<1>8. \A j : Leaving(j) => Leaving(j)'
  <2>1. ~Stage(r, "flush")
    BY <1>1 DEF Stage
  <2> QED BY <1>1, <2>1, StillLeaving
<1> QED BY <1>1, <1>4, <1>5, <1>6, <1>7, <1>8, EndingKeeps

LEMMA ExpiryKeeps ==
    ASSUME SessionInv, (\E k \in Keys : ExpireSession(k)) \/ CleanRegistry
    PROVE  SessionInv'
<1>1. /\ UNCHANGED <<owner, used, browsers, sessionRequest, cut>>
      /\ \A j \in Keys :
           /\ sessions'[j] = sessions[j] \/ sessions'[j] = NoSession
           /\ registry'[j] = registry[j] \/ (registry'[j] = NoOwner /\ sessions'[j] = NoSession)
  BY DEF ExpireSession, CleanRegistry, SessionInv, SessionTypes
<1>2. /\ sessions' \in [Keys -> SessionRow \cup {NoSession}]
      /\ registry' \in [Keys -> Owners \cup {NoOwner}] /\ owner' \in [Owners -> OwnerRow]
  BY DEF ExpireSession, CleanRegistry, SessionInv, SessionTypes
<1>3. RequestsKnow'
  <2>1. \A j \in used : sessions'[j] = sessions[j] \/ sessions'[j] = NoSession
    BY <1>1 DEF SessionInv, SessionTypes
  <2>2. \A r \in SessionRequests : RequestKnows(sessionRequest[r])'
    BY <1>1, <2>1, Knows DEF RequestKnows
  <2> QED BY <1>1, <2>2 DEF SessionInv, RequestsKnow
<1>4. \A j : Leaving(j) => Leaving(j)'
  BY <1>1 DEF Leaving, Stage
<1> QED BY <1>1, <1>2, <1>3, <1>4, EndingKeeps

-----------------------------------------------------------------------------
LEMMA SessionStepKeeps == SessionInv /\ [SessionNext]_sessionVars => SessionInv'
<1> SUFFICES ASSUME SessionInv, [SessionNext]_sessionVars PROVE SessionInv'
  OBVIOUS
<1>1. CASE UNCHANGED sessionVars
  BY <1>1 DEF sessionVars, SessionInv, SessionTypes, RequestsKnow, RequestKnows, ListHolds,
     Leaving, Stage
<1>2. ASSUME NEW r \in SessionRequests, AnonymizeAccount(r) \/ DeleteAccount(r)
      PROVE  SessionInv'
  <2>1. /\ [exists |-> TRUE, active |-> FALSE, password |-> 0, factor |-> FALSE] \in OwnerRow
        /\ [exists |-> FALSE, active |-> FALSE, password |-> 0, factor |-> FALSE] \in OwnerRow
    BY DEF OwnerRow
  <2> QED BY <1>2, <2>1, AccountEndKeeps DEF AnonymizeAccount, DeleteAccount
<1>3. ASSUME NEW r \in SessionRequests,
             \/ Challenge(r) \/ Track(r) \/ Answer(r) \/ SwitchFactor(r) \/ OthersRevoked(r)
             \/ Unlist(r) \/ Flush(r) \/ RequestEnds(r) \/ \E o \in Owners : Authenticate(r, o)
      PROVE  SessionInv'
  BY <1>3, LoginKeeps, AnswersKeep, AccountsKeep, RevokedKeeps, FlushKeeps, EndKeeps
<1>4. ASSUME NEW r \in SessionRequests, NEW k \in Keys,
             \/ StartSession(r, k) \/ ChangePassword(r, k)
             \/ RevokeOne(r, k) \/ RevokeOther(r, k)
             \/ \E view \in Views : Enter(r, k, view)
      PROVE  SessionInv'
  BY <1>4, StartKeeps, PasswordKeeps, RevokeKeeps, EnterKeeps
<1>5. ASSUME (\E o \in Owners : ResetPassword(o)) \/ (\E k \in Keys : ExpireSession(k))
             \/ CleanRegistry
      PROVE  SessionInv'
  BY <1>5, AccountsKeep, ExpiryKeeps
<1> QED BY <1>1, <1>2, <1>3, <1>4, <1>5, Zenon DEF SessionNext

\* A session somebody can go on with is on the list of its account, with any
\* number of requests, of logins and of workers that die.
THEOREM SessionsStayListed == SessionSpec => []SessionsListed
<1>1. SessionInv => SessionsListed
  <2> SUFFICES ASSUME SessionInv, NEW k \in browsers \ cut, Usable(k), ~InFlight(k)
               PROVE  registry[k] = sessions[k].user
    BY DEF SessionsListed
  <2>1. ~Leaving(k)
    BY DEF Leaving, InFlight
  <2>2. sessions[k] # NoSession
    BY DEF Usable
  <2> QED BY <2>1, <2>2 DEF SessionInv, ListHolds
<1> QED BY <1>1, SessionInvInit, SessionStepKeeps, PTL DEF SessionSpec

-----------------------------------------------------------------------------
(***************************************************************************)
(* Addresses                                                               *)
(***************************************************************************)
AccountRow == [address : Mail \cup {Placeholder}, verified : BOOLEAN,
               active : BOOLEAN, secrets : BOOLEAN]
LinkRow == [user : People, address : Mail, open : BOOLEAN]
Gone == [address |-> Placeholder, verified |-> FALSE, active |-> FALSE, secrets |-> FALSE]

Sure(p) == accounts[p].active => <<p, accounts[p].address>> \in earned

\* What a request has read of its user.
Read(q) ==
    /\ DOMAIN q = {"stage", "user", "row", "address", "found"}
    /\ q.stage = "idle" => q.user = Nobody
    /\ q.stage # "idle" => q.user \in People
    /\ q.stage \in {"ask", "link"} => q.address \in Mail
    /\ q.stage = "password" =>
         q.row \in AccountRow /\ q.row.address \in Mail /\ <<q.user, q.row.address>> \in earned

AddressTypes ==
    /\ accounts \in [People -> AccountRow \cup {NoAccount}]
    /\ \A p \in People : Exists(p) /\ accounts[p].active => accounts[p].address \in Mail
    /\ links \in [LinkIds -> LinkRow \cup {NoLink}]
    /\ letters \subseteq [user : People, address : Mail]
    /\ DOMAIN accountRequest = AccountRequests

RequestsRead == \A r \in AccountRequests : Read(accountRequest[r])

\* An account that is verified, or that a letter is about to verify, has an
\* address that was earned, unless it was deactivated.
Verified ==
    /\ \A p \in People : Exists(p) /\ accounts[p].verified => Sure(p)
    /\ \A r \in AccountRequests : LET p == accountRequest[r].user IN
         /\ ~At(r, "idle") => Exists(p) \/ p \in erased
         /\ At(r, "letter") /\ Exists(p) => Sure(p)

\* A link belongs to an account.  A request that is about to add one has found
\* every other that is open, or two of them have overlapped.
OneLink ==
    /\ \A l \in LinkIds : links[l] # NoLink => Exists(links[l].user)
    /\ \A r, s \in AccountRequests :
         r # s /\ At(r, "link") /\ At(s, "link") /\ accountRequest[r].user = accountRequest[s].user
           => accountRequest[r].user \in overlapped
    /\ \A r \in AccountRequests :
         At(r, "link") /\ accountRequest[r].user \notin overlapped
           => OpenLinks(accountRequest[r].user) \subseteq accountRequest[r].found
    /\ \A p \in People \ overlapped : \A k, l \in OpenLinks(p) : k = l

\* Nothing is left of an account that ended while no request was under way.
Erasure ==
    \A p \in (People \cap erased) \ overlapped :
      /\ \A r \in AccountRequests : accountRequest[r].user # p
      /\ \A l \in LinkIds : links[l] = NoLink \/ links[l].user # p
      /\ ~Exists(p) \/ accounts[p] = Gone

AddressInv == AddressTypes /\ RequestsRead /\ Verified /\ OneLink /\ Erasure

LEMMA NoAccountIsNoRow == NoAccount \notin AccountRow /\ NoLink \notin LinkRow
BY AddressAssumption DEF AccountRow, LinkRow

LEMMA IdleReads == Read(RequestIdle)
BY DEF Read, RequestIdle

LEMMA AddressInvInit == AddressInit => AddressInv
<1> SUFFICES ASSUME AddressInit PROVE AddressInv
  OBVIOUS
<1>1. AddressTypes /\ RequestsRead
  BY IdleReads DEF AddressInit, AddressTypes, Exists, RequestsRead
<1>2. Verified
  BY DEF AddressInit, Verified, Exists, At, RequestIdle
<1>3. OneLink /\ Erasure
  BY DEF AddressInit, OneLink, Erasure, At, RequestIdle, OpenLinks
<1> QED BY <1>1, <1>2, <1>3 DEF AddressInv

LEMMA RequestMoves ==
    ASSUME AddressInv, NEW r \in AccountRequests, NEW q, Starts(r, q)
    PROVE  /\ DOMAIN accountRequest' = AccountRequests /\ accountRequest'[r] = q
           /\ \A s \in AccountRequests \ {r} : accountRequest'[s] = accountRequest[s]
BY DEF AddressInv, AddressTypes, Starts

\* One request goes on, the others have read what they had read.
LEMMA ReadKept ==
    ASSUME AddressInv, NEW r \in AccountRequests, NEW q, Starts(r, q),
           earned \subseteq earned', Read(accountRequest[r])'
    PROVE  RequestsRead'
<1>1. ASSUME NEW s \in AccountRequests \ {r}
      PROVE  Read(accountRequest[s])'
  BY RequestMoves DEF AddressInv, RequestsRead, Read
<1> QED BY <1>1 DEF RequestsRead

\* A row that changes is sure, changes only in its secrets, or is gone.
LEMMA VerifiedKept ==
    ASSUME AddressInv, earned \subseteq earned', erased \subseteq erased',
           \A p \in People :
             \/ Exists(p)' /\ Sure(p)'
             \/ Exists(p) /\ Exists(p)' /\ accounts'[p].address = accounts[p].address
                  /\ accounts'[p].active = accounts[p].active
                  /\ accounts'[p].verified = accounts[p].verified
             \/ ~Exists(p)' /\ (Exists(p) => p \in erased')
             \/ ~Exists(p) /\ p \notin erased /\ Exists(p)' /\ ~accounts'[p].verified,
           \A r \in AccountRequests :
             \/ accountRequest'[r] = accountRequest[r]
             \/ At(r, "idle")'
             \/ accountRequest'[r].user \in People /\ Exists(accountRequest[r].user)'
                  /\ (At(r, "letter")' => Sure(accountRequest[r].user)'),
           RequestsRead'
    PROVE  Verified'
<1>1. ASSUME NEW p \in People, Exists(p)', accounts'[p].verified
      PROVE  Sure(p)'
  BY <1>1 DEF AddressInv, Verified, Sure, Exists
<1>2. ASSUME NEW r \in AccountRequests, ~At(r, "idle")'
      PROVE  /\ Exists(accountRequest[r].user)' \/ accountRequest'[r].user \in erased'
             /\ At(r, "letter")' /\ Exists(accountRequest[r].user)'
                => Sure(accountRequest[r].user)'
  <2>1. CASE accountRequest'[r] = accountRequest[r]
    <3>1. PICK p : p = accountRequest[r].user
      OBVIOUS
    <3>2. p \in People /\ ~At(r, "idle") /\ (At(r, "letter")' => At(r, "letter"))
      BY <1>2, <2>1, <3>1 DEF At, AddressInv, RequestsRead, Read
    <3>3. Exists(p) \/ p \in erased
      BY <3>1, <3>2 DEF AddressInv, Verified
    <3>4. At(r, "letter") /\ Exists(p) => Sure(p)
      BY <3>1 DEF AddressInv, Verified
    <3>5. Exists(p)' \/ p \in erased'
      BY <3>2, <3>3
    <3>6. At(r, "letter")' /\ Exists(p)' => Sure(p)'
      BY <3>2, <3>3, <3>4 DEF Sure, Exists
    <3> QED BY <2>1, <3>1, <3>5, <3>6
  <2> QED BY <1>2, <2>1
<1> QED BY <1>1, <1>2 DEF Verified, At

\* No link is opened, and no request begins to add one.
LEMMA OneLinkKept ==
    ASSUME AddressInv, overlapped \subseteq overlapped',
           \A l \in LinkIds : links'[l] # NoLink =>
             /\ links[l] # NoLink /\ links'[l].user = links[l].user
             /\ links'[l].open => links[l].open
             /\ Exists(links[l].user) => Exists(links[l].user)',
           \A r \in AccountRequests :
             At(r, "link")' => accountRequest'[r] = accountRequest[r]
    PROVE  OneLink'
<1>1. \A p : OpenLinks(p)' \subseteq OpenLinks(p)
  BY DEF OpenLinks
<1>2. \A l \in LinkIds : links'[l] # NoLink => Exists(links[l].user)'
  BY DEF AddressInv, OneLink
<1>3. \A r \in AccountRequests : At(r, "link")' =>
        At(r, "link") /\ accountRequest'[r] = accountRequest[r]
  BY DEF At
<1>4. ASSUME NEW r \in AccountRequests, At(r, "link")', accountRequest'[r].user \notin overlapped'
      PROVE  OpenLinks(accountRequest[r].user)' \subseteq accountRequest'[r].found
  <2>1. PICK p, found : p = accountRequest[r].user /\ found = accountRequest[r].found
    OBVIOUS
  <2>2. p = accountRequest'[r].user /\ found = accountRequest'[r].found /\ p \notin overlapped
    BY <1>3, <1>4, <2>1
  <2>3. OpenLinks(p) \subseteq found
    BY <1>3, <1>4, <2>1, <2>2 DEF AddressInv, OneLink
  <2>4. OpenLinks(p)' \subseteq found
    BY <1>1, <2>3
  <2> QED BY <2>2, <2>4 DEF OpenLinks
<1>5. ASSUME NEW p \in People \ overlapped', NEW k \in OpenLinks(p)', NEW l \in OpenLinks(p)'
      PROVE  k = l
  BY <1>1, <1>5 DEF AddressInv, OneLink
<1>6. ASSUME NEW r \in AccountRequests, NEW s \in AccountRequests, r # s,
             At(r, "link")', At(s, "link")', accountRequest'[r].user = accountRequest'[s].user
      PROVE  accountRequest'[r].user \in overlapped'
  BY <1>3, <1>6 DEF AddressInv, OneLink
<1> QED BY <1>2, <1>4, <1>5, <1>6 DEF OneLink

\* Nobody ends, and an account that has ended is left alone.
LEMMA ErasureKept ==
    ASSUME AddressInv, erased' = erased, overlapped \subseteq overlapped',
           \A p \in People \cap erased : (~Exists(p) \/ accounts[p] = Gone) =>
             /\ accounts'[p] = accounts[p]
                  \/ (\E r \in AccountRequests : accountRequest[r].user = p)
                  \/ \E l \in LinkIds : links[l] # NoLink /\ links[l].user = p
             /\ \A r \in AccountRequests :
                  accountRequest'[r].user = p => accountRequest[r].user = p
             /\ \A l \in LinkIds : links'[l] # NoLink /\ links'[l].user = p
                  => \/ links[l] # NoLink /\ links[l].user = p
                     \/ \E r \in AccountRequests : accountRequest[r].user = p
    PROVE  Erasure'
<1> SUFFICES ASSUME NEW p \in People, p \in erased, p \notin overlapped
             PROVE  /\ \A r \in AccountRequests : accountRequest'[r].user # p
                    /\ \A l \in LinkIds : links'[l] = NoLink \/ links'[l].user # p
                    /\ ~Exists(p)' \/ accounts'[p] = Gone
  BY DEF Erasure, Gone
<1>1. /\ \A r \in AccountRequests : accountRequest[r].user # p
      /\ \A l \in LinkIds : links[l] = NoLink \/ links[l].user # p
      /\ ~Exists(p) \/ accounts[p] = Gone
  BY DEF AddressInv, Erasure
<1> QED BY <1>1 DEF Exists

\* An account that is gone does nothing.
LEMMA GoneIsOut ==
    ASSUME AddressInv, NEW p \in People, ~Exists(p) \/ accounts[p] = Gone
    PROVE  ~SignedIn(p) /\ \A letter \in letters : letter.user = p => ~TokenHolds(letter)
BY AddressAssumption DEF SignedIn, Exists, Gone, TokenHolds, AddressInv, AddressTypes

-----------------------------------------------------------------------------
\* Nothing but the requests, or what is known of letters and addresses.
LEMMA BeginKeeps ==
    ASSUME AddressInv, NEW r \in AccountRequests, NEW q, Starts(r, q),
           UNCHANGED <<accounts, links, letters, erased, overlapped>>, earned \subseteq earned',
           Read(q)', q.stage # "link",
           q.stage # "idle" => /\ Exists(q.user)
                               /\ ~(accounts[q.user] = Gone)
                               /\ (q.stage = "letter" => Sure(q.user)')
    PROVE  AddressInv'
<1>0. accountRequest'[r] = q /\ \A s \in AccountRequests \ {r} : accountRequest'[s] = accountRequest[s]
  BY RequestMoves
<1>1. AddressTypes'
  BY RequestMoves DEF AddressInv, AddressTypes, Exists
<1>2. RequestsRead'
  <2>1. Read(accountRequest[r])'
    BY <1>0 DEF Read
  <2> QED BY <2>1, ReadKept
<1>3. Verified'
  <2>1. \A p \in People :
          IF Exists(p) THEN /\ Exists(p)' /\ accounts'[p].address = accounts[p].address
                            /\ accounts'[p].active = accounts[p].active
                            /\ accounts'[p].verified = accounts[p].verified
          ELSE ~Exists(p)'
    BY DEF Exists
  <2>2. q.stage = "idle" \/ (q.user \in People /\ Exists(q.user)')
    BY DEF Read, Exists
  <2>3. q.stage = "letter" => Sure(q.user)'
    OBVIOUS
  <2>4. At(r, "idle")' \/ /\ accountRequest'[r].user \in People /\ Exists(accountRequest[r].user)'
                          /\ (At(r, "letter")' => Sure(accountRequest[r].user)')
    BY <1>0, <2>2, <2>3 DEF At, Exists, Sure
  <2> QED BY <1>0, <1>2, <2>1, <2>4, VerifiedKept
<1>4. OneLink'
  BY <1>0, OneLinkKept DEF At, Exists
<1>5. Erasure'
  <2>1. q.user = Nobody \/ (q.user \in People /\ Exists(q.user) /\ accounts[q.user] # Gone)
    BY DEF Read
  <2>2. \A p \in People : (~Exists(p) \/ accounts[p] = Gone) => q.user # p
    BY <2>1, AddressAssumption
  <2> QED BY <1>0, <2>2, ErasureKept
<1> QED BY <1>1, <1>2, <1>3, <1>4, <1>5 DEF AddressInv

LEMMA BeginsKeep ==
    ASSUME AddressInv, NEW r \in AccountRequests,
           \/ \E letter \in letters : OpenLetter(r, letter)
           \/ \E p \in People : LoadAccount(r, p) \/ EnterSecrets(r, p)
           \/ \E p \in People, a \in Mail : AskChange(r, p, a)
           \/ RequestDies(r)
    PROVE  AddressInv'
<1>1. ASSUME NEW letter \in letters, OpenLetter(r, letter)
      PROVE  AddressInv'
  <2> DEFINE q == [RequestIdle EXCEPT !.stage = "letter", !.user = letter.user]
  <2>1. letter.user \in People /\ TokenHolds(letter) /\ Exists(letter.user)
    BY <1>1 DEF OpenLetter, TokenHolds, AddressInv, AddressTypes
  <2>2. q.stage = "letter" /\ q.user = letter.user /\ Read(q)'
    BY <2>1 DEF Read, RequestIdle
  <2>3. accounts[letter.user] # Gone
    BY <2>1, GoneIsOut
  <2>4. Sure(letter.user)'
    BY <1>1 DEF OpenLetter, TokenHolds, Sure
  <2>5. Starts(r, q)
    BY <1>1 DEF OpenLetter
  <2>6. UNCHANGED <<accounts, links, letters, erased, overlapped>> /\ earned \subseteq earned'
    BY <1>1 DEF OpenLetter
  <2>p. PICK u : u = letter.user
    OBVIOUS
  <2> HIDE DEF q
  <2> QED BY <2>1, <2>2, <2>3, <2>4, <2>5, <2>6, BeginKeeps DEF Sure
<1>2. ASSUME NEW p \in People, LoadAccount(r, p) \/ EnterSecrets(r, p)
      PROVE  AddressInv'
  <2>r. PICK row : row = accounts[p]
    OBVIOUS
  <2> DEFINE q == [RequestIdle EXCEPT !.stage = "password", !.user = p, !.row = row]
             s == [RequestIdle EXCEPT !.stage = "secrets", !.user = p]
  <2>1. SignedIn(p) /\ UNCHANGED <<accounts, links, letters, erased, earned, overlapped>>
    BY <1>2 DEF LoadAccount, EnterSecrets
  <2>2. /\ Exists(p) /\ accounts[p] # Gone /\ accounts[p] \in AccountRow
        /\ accounts[p].address \in Mail /\ <<p, accounts[p].address>> \in earned
    BY <2>1, GoneIsOut DEF SignedIn, Exists, AddressInv, AddressTypes, Verified, Sure
  <2>3. Read(q)' /\ q.stage = "password" /\ q.user = p
    BY <2>r, <2>1, <2>2 DEF Read, RequestIdle
  <2>4. Read(s)' /\ s.stage = "secrets" /\ s.user = p
    BY DEF Read, RequestIdle
  <2>5. Starts(r, q) \/ Starts(r, s)
    BY <1>2, <2>r DEF LoadAccount, EnterSecrets
  <2> HIDE DEF q, s
  <2> QED BY <2>1, <2>2, <2>3, <2>4, <2>5, BeginKeeps
<1>3. ASSUME NEW p \in People, NEW a \in Mail, AskChange(r, p, a)
      PROVE  AddressInv'
  <2> DEFINE q == [RequestIdle EXCEPT !.stage = "ask", !.user = p, !.address = a]
  <2>1. SignedIn(p) /\ UNCHANGED <<accounts, links, letters, erased, earned, overlapped>>
    BY <1>3 DEF AskChange
  <2>2. Exists(p) /\ accounts[p] # Gone
    BY <2>1, GoneIsOut DEF SignedIn
  <2>3. Read(q)' /\ q.stage = "ask" /\ q.user = p
    BY DEF Read, RequestIdle
  <2>4. Starts(r, q)
    BY <1>3 DEF AskChange
  <2> HIDE DEF q
  <2> QED BY <2>1, <2>2, <2>3, <2>4, BeginKeeps
<1>4. CASE RequestDies(r)
  <2>1. Starts(r, RequestIdle) /\ Read(RequestIdle)' /\ RequestIdle.stage = "idle"
    BY <1>4, IdleReads DEF RequestDies, Finishes, Read, RequestIdle
  <2> QED BY <1>4, <2>1, BeginKeeps DEF RequestDies
<1> QED BY <1>1, <1>2, <1>3, <1>4

\* The rows of accounts that a request, a registration or a letter writes.
LEMMA RegisterKeeps ==
    ASSUME AddressInv, NEW p \in People,
           Resend(p) \/ \E a \in Mail : Register(p, a)
    PROVE  AddressInv'
<1>1. CASE Resend(p)
  <2>1. UNCHANGED <<accounts, links, accountRequest, earned, erased, overlapped>>
    BY <1>1 DEF Resend
  <2>2. accounts[p].active /\ Exists(p)
    BY <1>1 DEF Resend
  <2>3. accounts[p].address \in Mail
    BY <2>2 DEF AddressInv, AddressTypes
  <2>4. letters' \subseteq [user : People, address : Mail]
    BY <1>1, <2>3 DEF Resend, AddressInv, AddressTypes
  <2>5. AddressTypes'
    BY <2>1, <2>4 DEF AddressInv, AddressTypes, Exists
  <2>6. RequestsRead'
    BY <2>1 DEF AddressInv, RequestsRead, Read
  <2>7. Verified'
    BY <2>1 DEF AddressInv, Verified, Sure, Exists, At
  <2>8. OneLink'
    BY <2>1, OneLinkKept DEF Exists
  <2>9. Erasure'
    BY <2>1, ErasureKept
  <2> QED BY <2>5, <2>6, <2>7, <2>8, <2>9 DEF AddressInv
<1>2. ASSUME NEW a \in Mail, Register(p, a)
      PROVE  AddressInv'
  <2> DEFINE row == [address |-> a, verified |-> FALSE, active |-> TRUE, secrets |-> FALSE]
  <2>1. /\ ~Exists(p) /\ p \notin erased /\ accounts' = [accounts EXCEPT ![p] = row]
        /\ letters' = letters \cup {[user |-> p, address |-> a]}
        /\ UNCHANGED <<links, accountRequest, earned, erased, overlapped>>
    BY <1>2 DEF Register
  <2>v. row.verified = FALSE /\ row.active = TRUE /\ row.address = a
    OBVIOUS
  <2>t. row \in AccountRow
    BY DEF AccountRow
  <2>2. row \in AccountRow /\ row # NoAccount /\ ~row.verified /\ row.address \in Mail
    BY <2>v, <2>t, NoAccountIsNoRow
  <2> HIDE DEF row
  <2>3. AddressTypes'
    BY <2>1, <2>2 DEF AddressInv, AddressTypes, Exists
  <2>4. RequestsRead'
    BY <2>1 DEF AddressInv, RequestsRead, Read
  <2>5. /\ Exists(p)' /\ ~accounts'[p].verified
        /\ \A o \in People \ {p} : accounts'[o] = accounts[o] /\ (Exists(o)' <=> Exists(o))
    BY <2>1, <2>2 DEF AddressInv, AddressTypes, Exists
  <2>6. Verified'
    BY <2>1, <2>4, <2>5, VerifiedKept
  <2>7. OneLink'
    <3>1. \A l \in LinkIds : links[l] # NoLink => links[l].user \in People
      BY DEF AddressInv, AddressTypes, LinkRow
    <3>2. \A l \in LinkIds : links[l] # NoLink => Exists(links[l].user)'
      BY <2>1, <2>5, <3>1 DEF AddressInv, OneLink, Exists
    <3> QED BY <2>1, <3>2, OneLinkKept
  <2>8. Erasure'
    BY <2>1, <2>5, ErasureKept
  <2> QED BY <2>3, <2>4, <2>6, <2>7, <2>8 DEF AddressInv
<1> QED BY <1>1, <1>2

\* A field or the whole row is saved, and the request is over.
LEMMA SavesKeep ==
    ASSUME AddressInv, NEW r \in AccountRequests, NEW p \in People,
           accountRequest[r].user = p, Finishes(r), p \in erased \/ Exists(p),
           NEW row \in AccountRow, row.active => row.address \in Mail,
           \/ row.active => <<p, row.address>> \in earned
           \/ /\ Exists(p) /\ row.address = accounts[p].address
              /\ row.active = accounts[p].active /\ row.verified = accounts[p].verified,
           accounts' = accounts \/ accounts' = [accounts EXCEPT ![p] = row],
           UNCHANGED <<links, letters, earned, erased, overlapped>>
    PROVE  AddressInv'
<1>0. /\ accountRequest'[r] = RequestIdle
      /\ \A s \in AccountRequests \ {r} : accountRequest'[s] = accountRequest[s]
      /\ DOMAIN accountRequest' = AccountRequests
  BY RequestMoves DEF Finishes
<1>1. /\ \A o \in People \ {p} : accounts'[o] = accounts[o]
      /\ accounts'[p] = accounts[p] \/ accounts'[p] = row
      /\ accounts' \in [People -> AccountRow \cup {NoAccount}]
  BY DEF AddressInv, AddressTypes
<1>2. AddressTypes'
  BY <1>0, <1>1 DEF AddressInv, AddressTypes, Exists
<1>3. RequestsRead'
  <2>1. Read(accountRequest[r])'
    BY <1>0 DEF Read, RequestIdle
  <2> QED BY <2>1, ReadKept DEF Finishes
<1>4. Verified'
  <2>1. \A o \in People : Exists(o) => Exists(o)'
    BY <1>1, NoAccountIsNoRow DEF Exists
  <2>2. \A o \in People : \/ Exists(o)' /\ Sure(o)'
                          \/ Exists(o) /\ Exists(o)' /\ accounts'[o].address = accounts[o].address
                               /\ accounts'[o].active = accounts[o].active
                               /\ accounts'[o].verified = accounts[o].verified
                          \/ ~Exists(o)' /\ (Exists(o) => o \in erased')
    BY <1>1, <2>1, NoAccountIsNoRow DEF Exists, Sure
  <2>3. At(r, "idle")'
    BY <1>0 DEF At, RequestIdle
  <2> QED BY <1>0, <1>3, <2>2, <2>3, VerifiedKept
<1>5. OneLink'
  <2>1. ~At(r, "link")'
    BY <1>0 DEF At, RequestIdle
  <2>2. \A l \in LinkIds : links[l] # NoLink => links[l].user \in People
    BY DEF AddressInv, AddressTypes, LinkRow
  <2>3. \A l \in LinkIds : links[l] # NoLink /\ Exists(links[l].user) => Exists(links[l].user)'
    BY <1>1, <2>2, NoAccountIsNoRow DEF Exists
  <2> QED BY <1>0, <2>1, <2>3, OneLinkKept
<1>6. Erasure'
  <2>1. \A o \in People : accountRequest'[r].user # o
    BY <1>0, AddressAssumption DEF RequestIdle
  <2> QED BY <1>0, <1>1, <2>1, ErasureKept
<1> QED BY <1>2, <1>3, <1>4, <1>5, <1>6 DEF AddressInv

LEMMA RequestSavesKeep ==
    ASSUME AddressInv, NEW r \in AccountRequests,
           SaveVerified(r) \/ SavePassword(r) \/ \E kept \in BOOLEAN : SaveSecrets(r, kept)
    PROVE  AddressInv'
<1>p. PICK p : p = accountRequest[r].user
  OBVIOUS
<1>q. /\ p \in People /\ Read(accountRequest[r]) /\ Finishes(r)
      /\ p \in erased \/ Exists(p)
      /\ UNCHANGED <<links, letters, earned, erased, overlapped>>
  BY <1>p DEF SaveVerified, SavePassword, SaveSecrets, At, AddressInv, RequestsRead, Read, Verified
<1>1. CASE SaveVerified(r)
  <2>1. CASE Exists(p)
    <3>1. PICK row : row = [accounts[p] EXCEPT !.verified = TRUE]
      OBVIOUS
    <3>2. accounts[p] \in AccountRow /\ (accounts[p].active => accounts[p].address \in Mail)
      BY <1>q, <2>1 DEF Exists, AddressInv, AddressTypes
    <3>3. row \in AccountRow /\ row.active = accounts[p].active /\ row.address = accounts[p].address
      BY <3>1, <3>2 DEF AccountRow
    <3>4. Sure(p)
      BY <1>1, <1>p, <2>1 DEF SaveVerified, AddressInv, Verified
    <3>5. row.active => row.address \in Mail /\ <<p, row.address>> \in earned
      BY <3>2, <3>3, <3>4 DEF Sure
    <3>6. accounts' = [accounts EXCEPT ![p] = row]
      BY <1>1, <1>p, <2>1, <3>1 DEF SaveVerified
    <3> QED BY <1>p, <1>q, <3>3, <3>5, <3>6, SavesKeep
  <2>2. CASE ~Exists(p)
    <3>1. accounts' = accounts
      BY <1>1, <1>p, <2>2 DEF SaveVerified
    <3>2. Gone \in AccountRow /\ ~Gone.active
      BY DEF Gone, AccountRow
    <3> QED BY <1>p, <1>q, <3>1, <3>2, SavesKeep
  <2> QED BY <2>1, <2>2
<1>2. CASE SavePassword(r)
  <2>1. PICK row : row = accountRequest[r].row
    OBVIOUS
  <2>2. row \in AccountRow /\ row.address \in Mail /\ <<p, row.address>> \in earned
    BY <1>2, <1>p, <1>q, <2>1 DEF SavePassword, At, Read
  <2>3. accounts' = accounts \/ accounts' = [accounts EXCEPT ![p] = row]
    BY <1>2, <1>p, <2>1 DEF SavePassword
  <2> QED BY <1>p, <1>q, <2>2, <2>3, SavesKeep
<1>3. ASSUME NEW kept \in BOOLEAN, SaveSecrets(r, kept)
      PROVE  AddressInv'
  <2>1. CASE Exists(p)
    <3>1. PICK row : row = [accounts[p] EXCEPT !.secrets = kept]
      OBVIOUS
    <3>2. accounts[p] \in AccountRow /\ (accounts[p].active => accounts[p].address \in Mail)
      BY <1>q, <2>1 DEF Exists, AddressInv, AddressTypes
    <3>3. /\ row \in AccountRow /\ row.active = accounts[p].active
          /\ row.address = accounts[p].address /\ row.verified = accounts[p].verified
      BY <3>1, <3>2 DEF AccountRow
    <3>6. accounts' = [accounts EXCEPT ![p] = row]
      BY <1>3, <1>p, <2>1, <3>1 DEF SaveSecrets
    <3>7. row.active => row.address \in Mail
      BY <3>2, <3>3
    <3> QED BY <1>p, <1>q, <2>1, <3>3, <3>6, <3>7, SavesKeep
  <2>2. CASE ~Exists(p)
    <3>1. accounts' = accounts
      BY <1>3, <1>p, <2>2 DEF SaveSecrets
    <3>2. Gone \in AccountRow /\ ~Gone.active
      BY DEF Gone, AccountRow
    <3> QED BY <1>p, <1>q, <3>1, <3>2, SavesKeep
  <2> QED BY <2>1, <2>2
<1> QED BY <1>1, <1>2, <1>3

-----------------------------------------------------------------------------
\* create_email_change, its two halves.
LEMMA FindKeeps ==
    ASSUME AddressInv, NEW r \in AccountRequests, FindLinks(r)
    PROVE  AddressInv'
<1>p. PICK p, found : p = accountRequest[r].user /\ found = OpenLinks(p)
  OBVIOUS
<1> DEFINE q == [accountRequest[r] EXCEPT !.stage = "link", !.found = found]
<1>1. /\ Read(accountRequest[r]) /\ accountRequest[r].stage = "ask" /\ Starts(r, q)
      /\ UNCHANGED <<accounts, links, letters, earned, erased>>
      /\ overlapped \subseteq overlapped'
      /\ (\E s \in Busy(p, r) : At(s, "link")) => p \in overlapped'
  BY <1>p DEF FindLinks, At, AddressInv, RequestsRead
<1>2. /\ p \in People /\ q.stage = "link" /\ q.user = p /\ q.found = found
      /\ q.address \in Mail /\ DOMAIN q = DOMAIN accountRequest[r]
  BY <1>p, <1>1 DEF Read
<1>3. Exists(p) \/ p \in erased
  BY <1>p, <1>1 DEF At, AddressInv, Verified
<1> HIDE DEF q
<1>4. /\ accountRequest'[r] = q /\ DOMAIN accountRequest' = AccountRequests
      /\ \A s \in AccountRequests \ {r} : accountRequest'[s] = accountRequest[s]
  BY <1>1, RequestMoves
<1>5. AddressTypes'
  BY <1>1, <1>4 DEF AddressInv, AddressTypes, Exists
<1>6. RequestsRead'
  <2>1. Read(accountRequest[r])'
    BY <1>1, <1>2, <1>4 DEF Read
  <2> QED BY <1>1, <2>1, ReadKept
<1>7. Verified'
  <2>1. \A o \in People : Exists(o) /\ accounts[o].verified => Sure(o)
    BY DEF AddressInv, Verified
  <2>2. \A s \in AccountRequests \ {r} :
          /\ ~At(s, "idle") => Exists(accountRequest[s].user) \/ accountRequest[s].user \in erased
          /\ At(s, "letter") /\ Exists(accountRequest[s].user) => Sure(accountRequest[s].user)
    BY DEF AddressInv, Verified
  <2> QED BY <1>1, <1>2, <1>3, <1>4, <2>1, <2>2 DEF Verified, Exists, Sure, At
<1>8. OneLink'
  <2>1. \A o : OpenLinks(o)' = OpenLinks(o)
    BY <1>1 DEF OpenLinks
  <2>2. \A s \in AccountRequests \ {r} : (At(s, "link")' <=> At(s, "link"))
    BY <1>4 DEF At
  <2>3. \A s \in AccountRequests \ {r} : At(s, "link") /\ accountRequest[s].user = p => p \in overlapped'
    BY <1>1 DEF Busy
  <2>4. \A l \in LinkIds : links'[l] # NoLink => Exists(links[l].user)'
    BY <1>1 DEF AddressInv, OneLink, Exists
  <2>5. ASSUME NEW s \in AccountRequests, NEW t \in AccountRequests, s # t,
               At(s, "link")', At(t, "link")', accountRequest'[s].user = accountRequest'[t].user
        PROVE  accountRequest'[s].user \in overlapped'
    BY <1>1, <1>2, <1>4, <2>2, <2>3, <2>5 DEF AddressInv, OneLink
  <2>6. ASSUME NEW s \in AccountRequests, At(s, "link")', accountRequest'[s].user \notin overlapped'
        PROVE  OpenLinks(accountRequest[s].user)' \subseteq accountRequest'[s].found
    <3>u. PICK u : u = accountRequest'[s].user
      OBVIOUS
    <3>1. CASE s = r
      <4>1. u = p /\ accountRequest'[s].found = found
        BY <1>2, <1>4, <3>u, <3>1
      <4>2. OpenLinks(u)' = found
        BY <1>p, <2>1, <4>1
      <4> QED BY <3>u, <4>1, <4>2 DEF OpenLinks
    <3>2. CASE s # r
      <4>1. accountRequest'[s] = accountRequest[s] /\ At(s, "link") /\ u \notin overlapped
        BY <1>1, <1>4, <2>2, <2>6, <3>u, <3>2
      <4>2. OpenLinks(u) \subseteq accountRequest[s].found
        BY <3>u, <4>1 DEF AddressInv, OneLink
      <4>3. OpenLinks(u)' \subseteq accountRequest'[s].found
        BY <2>1, <4>1, <4>2
      <4> QED BY <3>u, <4>3 DEF OpenLinks
    <3> QED BY <3>1, <3>2
  <2>7. ASSUME NEW o \in People \ overlapped', NEW k \in OpenLinks(o)', NEW l \in OpenLinks(o)'
        PROVE  k = l
    BY <1>1, <2>1, <2>7 DEF AddressInv, OneLink
  <2> QED BY <2>4, <2>5, <2>6, <2>7 DEF OneLink
<1>9. Erasure'
  BY <1>1, <1>2, <1>4, <1>p, ErasureKept
<1> QED BY <1>5, <1>6, <1>7, <1>8, <1>9 DEF AddressInv

LEMMA InsertKeeps ==
    ASSUME AddressInv, NEW r \in AccountRequests, NEW l \in LinkIds, InsertLink(r, l)
    PROVE  AddressInv'
<1>p. PICK p, found : p = accountRequest[r].user /\ found = accountRequest[r].found
  OBVIOUS
<1> DEFINE link == [user |-> p, address |-> accountRequest[r].address, open |-> TRUE]
<1>1. /\ Read(accountRequest[r]) /\ At(r, "link") /\ Finishes(r) /\ links[l] = NoLink
      /\ UNCHANGED <<accounts, letters, earned, erased, overlapped>>
  BY DEF InsertLink, AddressInv, RequestsRead
<1>2. p \in People /\ link \in LinkRow /\ link.user = p
  BY <1>p, <1>1 DEF At, Read, LinkRow
<1>3. \/ links' = links
      \/ /\ Exists(p)
         /\ links' = [k \in LinkIds |-> IF k = l THEN link
                                        ELSE IF k \in found /\ links[k] # NoLink THEN Closed(links[k])
                                        ELSE links[k]]
  BY <1>p DEF InsertLink
<1> HIDE DEF link
<1>4. /\ accountRequest'[r] = RequestIdle /\ DOMAIN accountRequest' = AccountRequests
      /\ \A s \in AccountRequests \ {r} : accountRequest'[s] = accountRequest[s]
  BY <1>1, RequestMoves DEF Finishes
<1>c. \A k \in LinkIds : links[k] # NoLink =>
        /\ Closed(links[k]) \in LinkRow /\ Closed(links[k]).user = links[k].user
        /\ ~Closed(links[k]).open /\ Closed(links[k]) # NoLink
  <2>1. \A k \in LinkIds : links[k] # NoLink =>
          /\ Closed(links[k]) \in LinkRow /\ Closed(links[k]).user = links[k].user
          /\ ~Closed(links[k]).open
    BY DEF AddressInv, AddressTypes, LinkRow, Closed
  <2> QED BY <2>1, NoAccountIsNoRow
<1>5. AddressTypes'
  <2>1. links' \in [LinkIds -> LinkRow \cup {NoLink}]
    <3>1. links \in [LinkIds -> LinkRow \cup {NoLink}]
      BY DEF AddressInv, AddressTypes
    <3> QED BY <1>2, <1>3, <1>c, <3>1
  <2> QED BY <1>1, <1>4, <2>1 DEF AddressInv, AddressTypes, Exists
<1>6. RequestsRead'
  <2>1. Read(accountRequest[r])'
    BY <1>4 DEF Read, RequestIdle
  <2> QED BY <1>1, <2>1, ReadKept DEF Finishes
<1>7. Verified'
  <2>1. At(r, "idle")'
    BY <1>4 DEF At, RequestIdle
  <2>2. \A o \in People : \/ /\ Exists(o) /\ Exists(o)' /\ accounts'[o].address = accounts[o].address
                             /\ accounts'[o].active = accounts[o].active
                             /\ accounts'[o].verified = accounts[o].verified
                          \/ ~Exists(o)' /\ (Exists(o) => o \in erased')
    BY <1>1 DEF Exists
  <2> QED BY <1>1, <1>4, <1>6, <2>1, <2>2, VerifiedKept
<1>8. OneLink'
  <2>0. ~At(r, "link")'
    BY <1>4 DEF At, RequestIdle
  <2>1. CASE links' = links
    BY <1>1, <1>4, <2>0, <2>1, OneLinkKept DEF Exists
  <2>2. CASE links' # links
    <3>1. Exists(p) /\ links' = [k \in LinkIds |-> IF k = l THEN link
                                        ELSE IF k \in found /\ links[k] # NoLink THEN Closed(links[k])
                                        ELSE links[k]]
      BY <1>3, <2>2
    <3>2. \A o : OpenLinks(o)' \subseteq (IF o = p THEN {l} ELSE {}) \cup (OpenLinks(o) \ found)
      BY <1>2, <1>c, <3>1 DEF OpenLinks
    <3>3. \A k \in LinkIds : links'[k] # NoLink => Exists(links[k].user)'
      <4>1. ASSUME NEW k \in LinkIds, links'[k] # NoLink
            PROVE  links'[k].user = p \/ (links[k] # NoLink /\ links'[k].user = links[k].user)
        BY <1>2, <1>c, <3>1, <4>1
      <4> QED BY <1>1, <3>1, <4>1 DEF AddressInv, OneLink, Exists
    <3>4. \A s \in AccountRequests : At(s, "link")' =>
            s # r /\ At(s, "link") /\ accountRequest'[s] = accountRequest[s]
      BY <1>4, <2>0 DEF At
    <3>5. ASSUME NEW s \in AccountRequests, NEW t \in AccountRequests, s # t,
                 At(s, "link")', At(t, "link")', accountRequest'[s].user = accountRequest'[t].user
          PROVE  accountRequest'[s].user \in overlapped'
      BY <1>1, <3>4, <3>5 DEF AddressInv, OneLink
    <3>6. ASSUME NEW s \in AccountRequests, At(s, "link")', accountRequest'[s].user \notin overlapped'
          PROVE  OpenLinks(accountRequest[s].user)' \subseteq accountRequest'[s].found
      <4>u. PICK u : u = accountRequest'[s].user
        OBVIOUS
      <4>1. accountRequest'[s] = accountRequest[s] /\ At(s, "link") /\ s # r /\ u \notin overlapped
        BY <1>1, <3>4, <3>6, <4>u
      <4>2. u # p
        BY <1>p, <1>1, <4>u, <4>1 DEF AddressInv, OneLink
      <4>3. OpenLinks(u) \subseteq accountRequest[s].found
        BY <4>u, <4>1 DEF AddressInv, OneLink
      <4>4. OpenLinks(u)' \subseteq accountRequest'[s].found
        BY <3>2, <4>1, <4>2, <4>3
      <4> QED BY <4>u, <4>4 DEF OpenLinks
    <3>7. ASSUME NEW o \in People \ overlapped', NEW j \in OpenLinks(o)', NEW k \in OpenLinks(o)'
          PROVE  j = k
      <4>1. CASE o = p
        <5>1. OpenLinks(p) \subseteq found
          BY <1>p, <1>1, <3>7, <4>1 DEF AddressInv, OneLink
        <5> QED BY <3>2, <3>7, <4>1, <5>1
      <4>2. CASE o # p
        BY <1>1, <3>2, <3>7, <4>2 DEF AddressInv, OneLink
      <4> QED BY <4>1, <4>2
    <3> QED BY <3>3, <3>5, <3>6, <3>7 DEF OneLink
  <2> QED BY <2>1, <2>2
<1>9. Erasure'
  <2>1. \A k \in LinkIds : links'[k] # NoLink /\ links'[k].user # p =>
          links[k] # NoLink /\ links[k].user = links'[k].user
    BY <1>2, <1>3, <1>c
  <2>2. \A o \in People : accountRequest'[r].user # o
    BY <1>4, AddressAssumption DEF RequestIdle
  <2> QED BY <1>p, <1>1, <1>4, <2>1, <2>2, ErasureKept
<1> QED BY <1>5, <1>6, <1>7, <1>8, <1>9 DEF AddressInv

-----------------------------------------------------------------------------
\* Links that are followed, expire or are cleaned away.
LEMMA LinksKeep ==
    ASSUME AddressInv, (\E l \in LinkIds : Confirm(l) \/ ExpireLink(l)) \/ CleanLinks
    PROVE  AddressInv'
<1>1. /\ UNCHANGED <<letters, accountRequest, erased, overlapped>> /\ earned \subseteq earned'
      /\ \A k \in LinkIds :
           links'[k] = links[k] \/ links'[k] = NoLink
             \/ (links[k] # NoLink /\ links'[k] = Closed(links[k]))
      /\ DOMAIN links' = LinkIds
  BY DEF Confirm, ExpireLink, CleanLinks, AddressInv, AddressTypes
<1>c. \A k \in LinkIds : links[k] # NoLink =>
        /\ Closed(links[k]) \in LinkRow /\ Closed(links[k]).user = links[k].user
        /\ ~Closed(links[k]).open /\ links[k].user \in People
  BY DEF AddressInv, AddressTypes, LinkRow, Closed
<1>2. links' \in [LinkIds -> LinkRow \cup {NoLink}]
  <2>1. links \in [LinkIds -> LinkRow \cup {NoLink}]
    BY DEF AddressInv, AddressTypes
  <2>2. CleanLinks \/ \E l \in LinkIds : /\ links[l] # NoLink
                                         /\ links' = [links EXCEPT ![l] = Closed(links[l])]
    BY DEF Confirm, ExpireLink
  <2> QED BY <1>c, <2>1, <2>2 DEF CleanLinks
<1>3. \A k \in LinkIds : links'[k] # NoLink =>
        /\ links[k] # NoLink /\ links'[k].user = links[k].user
        /\ links'[k].open => links[k].open
  BY <1>1, <1>c
<1>4. \/ accounts' = accounts
      \/ \E l \in LinkIds :
           /\ links[l] # NoLink
           /\ accounts' = [accounts EXCEPT ![links[l].user].address = links[l].address,
                                           ![links[l].user].verified = TRUE]
           /\ <<links[l].user, links[l].address>> \in earned'
  BY DEF Confirm, ExpireLink, CleanLinks
<1>5. ASSUME NEW o \in People
      PROVE  \/ accounts'[o] = accounts[o]
             \/ /\ Exists(o) /\ accounts'[o] \in AccountRow /\ accounts'[o].address \in Mail
                /\ accounts'[o].active = accounts[o].active
                /\ <<o, accounts'[o].address>> \in earned'
                /\ \E l \in LinkIds : links[l] # NoLink /\ links[l].user = o
  <2> SUFFICES ASSUME NEW l \in LinkIds, links[l] # NoLink,
                      accounts' = [accounts EXCEPT ![links[l].user].address = links[l].address,
                                                   ![links[l].user].verified = TRUE],
                      <<links[l].user, links[l].address>> \in earned',
                      o = links[l].user
               PROVE  /\ Exists(o) /\ accounts'[o] \in AccountRow /\ accounts'[o].address \in Mail
                      /\ accounts'[o].active = accounts[o].active
                      /\ <<o, accounts'[o].address>> \in earned'
    BY <1>4, <1>c DEF AddressInv, AddressTypes
  <2>1. PICK a : a = links[l].address
    OBVIOUS
  <2>2. Exists(o) /\ a \in Mail
    BY <2>1 DEF AddressInv, AddressTypes, OneLink, LinkRow
  <2>3. accounts[o] \in AccountRow
    BY <2>2 DEF AddressInv, AddressTypes, Exists
  <2>4. PICK row : row = [accounts[o] EXCEPT !.address = a, !.verified = TRUE]
    OBVIOUS
  <2>5. row \in AccountRow /\ row.address = a /\ row.active = accounts[o].active
    BY <2>2, <2>3, <2>4 DEF AccountRow
  <2>6. accounts'[o] = row
    BY <2>1, <2>4 DEF AddressInv, AddressTypes
  <2> QED BY <2>1, <2>2, <2>5, <2>6
<1>6. \A o \in People : Exists(o)' <=> Exists(o)
  BY <1>5, NoAccountIsNoRow DEF Exists
<1>7. AddressTypes'
  <2>1. accounts' \in [People -> AccountRow \cup {NoAccount}]
    <3>1. accounts \in [People -> AccountRow \cup {NoAccount}]
      BY DEF AddressInv, AddressTypes
    <3>2. accounts' = [o \in People |-> accounts'[o]]
      BY <1>4, <3>1
    <3> QED BY <1>5, <3>1, <3>2
  <2> QED BY <1>1, <1>2, <1>5, <1>6, <2>1 DEF AddressInv, AddressTypes, Exists
<1>8. RequestsRead'
  BY <1>1 DEF AddressInv, RequestsRead, Read
<1>9. Verified'
  <2>1. \A o \in People : \/ Exists(o)' /\ Sure(o)'
                          \/ /\ Exists(o) /\ Exists(o)' /\ accounts'[o].address = accounts[o].address
                             /\ accounts'[o].active = accounts[o].active
                             /\ accounts'[o].verified = accounts[o].verified
                          \/ ~Exists(o)' /\ (Exists(o) => o \in erased')
    BY <1>5, <1>6 DEF Sure
  <2> QED BY <1>1, <1>8, <2>1, VerifiedKept
<1>10. OneLink'
  <2>1. \A l \in LinkIds : links'[l] # NoLink /\ Exists(links[l].user) => Exists(links[l].user)'
    <3>1. ASSUME NEW l \in LinkIds, links'[l] # NoLink, Exists(links[l].user)
          PROVE  accounts'[links'[l].user] # NoAccount
      <4>1. PICK o : o = links[l].user
        OBVIOUS
      <4>2. o \in People /\ links'[l].user = o /\ Exists(o)
        BY <1>3, <1>c, <3>1, <4>1
      <4> QED BY <1>6, <4>2 DEF Exists
    <3> QED BY <3>1 DEF Exists
  <2> QED BY <1>1, <1>3, <2>1, OneLinkKept
<1>11. Erasure'
  <2>1. \A o \in People : \/ accounts'[o] = accounts[o]
                          \/ \E l \in LinkIds : links[l] # NoLink /\ links[l].user = o
    BY <1>5
  <2>2. \A o \in People, l \in LinkIds : links'[l] # NoLink /\ links'[l].user = o
          => links[l] # NoLink /\ links[l].user = o
    BY <1>3
  <2>3. \A o \in People, r \in AccountRequests :
          accountRequest'[r].user = o => accountRequest[r].user = o
    BY <1>1
  <2>4. erased' = erased /\ overlapped \subseteq overlapped'
    BY <1>1
  <2>5. \A p \in People \cap erased : (~Exists(p) \/ accounts[p] = Gone) =>
          /\ accounts'[p] = accounts[p]
               \/ (\E r \in AccountRequests : accountRequest[r].user = p)
               \/ \E l \in LinkIds : links[l] # NoLink /\ links[l].user = p
          /\ \A r \in AccountRequests :
               accountRequest'[r].user = p => accountRequest[r].user = p
          /\ \A l \in LinkIds : links'[l] # NoLink /\ links'[l].user = p
               => \/ links[l] # NoLink /\ links[l].user = p
                  \/ \E r \in AccountRequests : accountRequest[r].user = p
    BY <2>1, <2>2, <2>3
  <2> QED BY <2>4, <2>5, ErasureKept, Zenon
<1> QED BY <1>7, <1>8, <1>9, <1>10, <1>11 DEF AddressInv

-----------------------------------------------------------------------------
LEMMA EndsKeep ==
    ASSUME AddressInv, NEW p \in People, Anonymize(p) \/ Delete(p)
    PROVE  AddressInv'
<1>1. /\ SignedIn(p) /\ links' = LinksWithout(p) /\ erased' = erased \cup {p}
      /\ UNCHANGED <<letters, accountRequest, earned>> /\ overlapped \subseteq overlapped'
      /\ Busy(p, Nobody) # {} => p \in overlapped'
  BY DEF Anonymize, Delete, Ends, LinksAfter
<1>2. /\ accounts' \in [People -> AccountRow \cup {NoAccount}]
      /\ accounts'[p] = NoAccount \/ accounts'[p] = Gone
      /\ \A o \in People \ {p} : accounts'[o] = accounts[o]
  <2>1. Gone \in AccountRow
    BY DEF Gone, AccountRow
  <2>2. accounts' = [accounts EXCEPT ![p] = NoAccount] \/ accounts' = [accounts EXCEPT ![p] = Gone]
    BY DEF Anonymize, Delete, Gone
  <2> QED BY <2>1, <2>2 DEF AddressInv, AddressTypes
<1>3. /\ links' \in [LinkIds -> LinkRow \cup {NoLink}]
      /\ \A l \in LinkIds : links'[l] # NoLink => links'[l] = links[l] /\ links[l].user # p
  BY <1>1 DEF LinksWithout, AddressInv, AddressTypes
<1>g. ~Gone.active /\ ~Gone.verified
  BY DEF Gone
<1>4. AddressTypes'
  BY <1>1, <1>2, <1>3, <1>g DEF AddressInv, AddressTypes, Exists
<1>5. RequestsRead'
  BY <1>1 DEF AddressInv, RequestsRead, Read
<1>6. Verified'
  <2>1. \A o \in People : \/ Exists(o)' /\ Sure(o)'
                          \/ /\ Exists(o) /\ Exists(o)' /\ accounts'[o].address = accounts[o].address
                             /\ accounts'[o].active = accounts[o].active
                             /\ accounts'[o].verified = accounts[o].verified
                          \/ ~Exists(o)' /\ (Exists(o) => o \in erased')
    BY <1>1, <1>2, <1>g DEF Exists, Sure
  <2> QED BY <1>1, <1>5, <2>1, VerifiedKept
<1>7. OneLink'
  <2>1. \A l \in LinkIds : links'[l] # NoLink => links[l].user \in People \ {p}
    BY <1>3 DEF AddressInv, AddressTypes, LinkRow
  <2>2. \A l \in LinkIds : links'[l] # NoLink /\ Exists(links[l].user) => Exists(links[l].user)'
    BY <1>2, <1>3, <2>1 DEF Exists
  <2> QED BY <1>1, <1>3, <2>2, OneLinkKept
<1>8. Erasure'
  <2> SUFFICES ASSUME NEW o \in People, o \in erased', o \notin overlapped'
               PROVE  /\ \A r \in AccountRequests : accountRequest'[r].user # o
                      /\ \A l \in LinkIds : links'[l] = NoLink \/ links'[l].user # o
                      /\ ~Exists(o)' \/ accounts'[o] = Gone
    BY DEF Erasure, Gone
  <2>1. CASE o = p
    <3>1. \A r \in AccountRequests : accountRequest[r].user # p
      BY <1>1, <2>1, AddressAssumption DEF Busy
    <3> QED BY <1>1, <1>2, <1>3, <2>1, <3>1 DEF Exists
  <2>2. CASE o # p
    <3>1. /\ \A r \in AccountRequests : accountRequest[r].user # o
          /\ \A l \in LinkIds : links[l] = NoLink \/ links[l].user # o
          /\ ~Exists(o) \/ accounts[o] = Gone
      BY <1>1, <2>2 DEF AddressInv, Erasure
    <3> QED BY <1>1, <1>2, <1>3, <2>2, <3>1 DEF Exists
  <2> QED BY <2>1, <2>2
<1> QED BY <1>4, <1>5, <1>6, <1>7, <1>8 DEF AddressInv

LEMMA AddressStepKeeps == AddressInv /\ [AddressNext]_addressVars => AddressInv'
<1> SUFFICES ASSUME AddressInv, [AddressNext]_addressVars PROVE AddressInv'
  OBVIOUS
<1>1. CASE UNCHANGED addressVars
  <2>1. UNCHANGED <<accounts, links, letters, accountRequest, earned, erased, overlapped>>
    BY <1>1 DEF addressVars
  <2>2. AddressTypes' /\ RequestsRead'
    BY <2>1 DEF AddressInv, AddressTypes, RequestsRead, Read, Exists
  <2>3. Verified'
    BY <2>1 DEF AddressInv, Verified, Sure, Exists, At
  <2>4. OneLink'
    BY <2>1, OneLinkKept DEF Exists
  <2>5. Erasure'
    BY <2>1, ErasureKept
  <2> QED BY <2>2, <2>3, <2>4, <2>5 DEF AddressInv
<1>2. ASSUME NEW p \in People,
             Resend(p) \/ Anonymize(p) \/ Delete(p) \/ \E a \in Mail : Register(p, a)
      PROVE  AddressInv'
  BY <1>2, RegisterKeeps, EndsKeep
<1>3. ASSUME (\E l \in LinkIds : Confirm(l) \/ ExpireLink(l)) \/ CleanLinks
      PROVE  AddressInv'
  BY <1>3, LinksKeep
<1>4. ASSUME NEW r \in AccountRequests,
             \/ \E letter \in letters : OpenLetter(r, letter)
             \/ SaveVerified(r) \/ FindLinks(r) \/ SavePassword(r) \/ RequestDies(r)
             \/ \E l \in LinkIds : InsertLink(r, l)
             \/ \E kept \in BOOLEAN : SaveSecrets(r, kept)
             \/ \E p \in People : \/ LoadAccount(r, p) \/ EnterSecrets(r, p)
                                  \/ \E a \in Mail : AskChange(r, p, a)
      PROVE  AddressInv'
  <2>1. CASE (\E letter \in letters : OpenLetter(r, letter)) \/ RequestDies(r)
    BY <2>1, BeginsKeep
  <2>2. CASE SaveVerified(r) \/ SavePassword(r) \/ \E kept \in BOOLEAN : SaveSecrets(r, kept)
    BY <2>2, RequestSavesKeep
  <2>3. CASE FindLinks(r) \/ \E l \in LinkIds : InsertLink(r, l)
    BY <2>3, FindKeeps, InsertKeeps
  <2>4. CASE \E p \in People : \/ LoadAccount(r, p) \/ EnterSecrets(r, p)
                               \/ \E a \in Mail : AskChange(r, p, a)
    BY <2>4, BeginsKeep
  <2> QED BY <1>4, <2>1, <2>2, <2>3, <2>4
<1> QED BY <1>1, <1>2, <1>3, <1>4, Zenon DEF AddressNext

\* For any number of accounts, requests and workers that die: an address in use
\* was confirmed by its owner, and, for accounts of which no requests overlap,
\* one link works at a time and nothing returns after the end.
THEOREM AddressesStayEarned == AddressSpec => []AddressesEarned
<1>1. AddressInv => AddressesEarned
  <2> SUFFICES ASSUME AddressInv, NEW p \in People
               PROVE  /\ SignedIn(p) => <<p, accounts[p].address>> \in earned
                      /\ p \notin overlapped => Cardinality(OpenLinks(p)) <= 1
                      /\ p \in erased \ overlapped =>
                           /\ \A l \in LinkIds : links[l] = NoLink \/ links[l].user # p
                           /\ ~Exists(p) \/ accounts[p] = Gone
    BY DEF AddressesEarned, Gone
  <2>1. SignedIn(p) => <<p, accounts[p].address>> \in earned
    BY DEF AddressInv, Verified, SignedIn, Sure
  <2>2. ASSUME p \notin overlapped
        PROVE  Cardinality(OpenLinks(p)) <= 1
    <3>1. \A k, l \in OpenLinks(p) : k = l
      BY <2>2 DEF AddressInv, OneLink
    <3>2. OpenLinks(p) = {} \/ \E l : OpenLinks(p) = {l}
      BY <3>1
    <3> QED BY <3>2, FS_EmptySet, FS_Singleton
  <2>3. p \in erased \ overlapped =>
          /\ \A l \in LinkIds : links[l] = NoLink \/ links[l].user # p
          /\ ~Exists(p) \/ accounts[p] = Gone
    BY DEF AddressInv, Erasure
  <2> QED BY <2>1, <2>2, <2>3
<1> QED BY <1>1, AddressInvInit, AddressStepKeeps, PTL DEF AddressSpec
=============================================================================
