---------------------------- MODULE QuantityLocks ----------------------------
(***************************************************************************)
(* The quantity requests as the transactions they are: each locks rows one *)
(* by one with SELECT ... FOR UPDATE, waits for rows that another holds,   *)
(* writes from what it has read, and releases its locks at the end.  A     *)
(* Part edit locks the Part, its set, then the positions; a position edit  *)
(* locks the position, its set, then the Parts and their positions: the    *)
(* orders are opposite, and the database aborts one request of a cycle.    *)
(***************************************************************************)
EXTENDS PartStatus, FiniteSets, FiniteSetsExt, Functions

CONSTANTS
    Requests,     \* requests in flight, one gunicorn thread each
    Positions, Parts, MatchOf, Required, Quantities,  \* as in QuantityService
    Candidates,   \* the Parts _candidate_part_mirrors locks for a position
    SetRow,       \* the lego_set row that every statement joins
    NoRequest, NoRow,
    Asked,        \* what a request may ask for (bounds the model)
    Stored        \* rows the database may hold at the start (bounds the model)

VARIABLES
    owned, part,  \* the committed rows
    ask,          \* what each request asks for
    pc,           \* "running", "committed", "refused" or "aborted"
    locked,       \* the rows a request has locked
    waits,        \* the row a request is waiting for
    readOwned,    \* the positions a request has read
    readPart      \* the Parts a request has read

vars == <<owned, part, ask, pc, locked, waits, readOwned, readPart>>

\* The committed rows are the rows of the service, locks and reads are hidden.
Service == INSTANCE QuantityService WITH owned <- owned, part <- part

Rows == Positions \cup Parts \cup {SetRow}
Nothing == [row \in {} |-> NoRow]

Asks == [kind: {"part"}, part: Parts, quantity: Quantities]
          \cup [kind: {"position"}, position: Positions, quantity: Quantities]
          \cup [kind: {"status"}, part: Parts, status: Statuses]

ASSUME MatchAssumption ==
    /\ MatchOf \in [Parts -> SUBSET Positions]
    /\ Required \in [Positions -> Nat]
    /\ Quantities \subseteq Nat

ASSUME RowsAssumption ==
    /\ Positions \cap Parts = {} /\ SetRow \notin Positions \cup Parts
    /\ NoRow \notin Rows /\ NoRequest \notin Requests
    /\ IsFiniteSet(Requests) /\ IsFiniteSet(Positions)
    /\ Candidates \in [Positions -> SUBSET Parts]
    /\ \A a \in Positions : {p \in Parts : a \in MatchOf[p]} \subseteq Candidates[a]
    /\ Asked \subseteq Asks

-----------------------------------------------------------------------------
\* set_part_owned_quantity: the Part and, joined to it, its set; then the
\* positions that match.
PartEditLocks(r) ==
    LET p == ask[r].part
    IN  IF p \notin locked[r] THEN {p}
        ELSE IF SetRow \notin locked[r] THEN {SetRow}
        ELSE MatchOf[p] \ locked[r]

\* set_inventory_quantity and minifigure_part_quantity lock the position and
\* check the quantity;
\* set_authoritative_owned_quantity its set, the candidate mirrors, and the
\* positions each of them matches.
PositionEditLocks(r) ==
    LET a == ask[r].position
    IN  IF a \notin locked[r] THEN {a}
        ELSE IF ask[r].quantity > Required[a] THEN {}
        ELSE IF SetRow \notin locked[r] THEN {SetRow}
        ELSE IF Candidates[a] \subseteq locked[r]
             THEN (UNION {MatchOf[p] : p \in Candidates[a]}) \ locked[r]
             ELSE Candidates[a] \ locked[r]

\* missing_part_status locks the Part and reads its positions without a lock.
StatusLocks(r) == {ask[r].part} \ locked[r]

\* The rows one of which a request locks next.
Wanted(r) == CASE ask[r].kind = "part" -> PartEditLocks(r)
               [] ask[r].kind = "position" -> PositionEditLocks(r)
               [] ask[r].kind = "status" -> StatusLocks(r)

Ready(r) == pc[r] = "running" /\ waits[r] = NoRow /\ Wanted(r) = {}

-----------------------------------------------------------------------------
\* Seeded fault: a plain SELECT, without FOR UPDATE.
AlwaysFree(r, row) == TRUE

\* A row another request has locked is not free.
Free(r, row) == \A q \in Requests \ {r} : row \notin locked[q]

\* What a statement that locks `row` reads: the latest committed values.
ReadPositions(r, row) ==
    IF row \in Positions THEN {row}
    ELSE IF ask[r].kind = "status" /\ row \in Parts THEN MatchOf[row] ELSE {}

Acquire(r, row) ==
    LET fresh == ReadPositions(r, row)
    IN  /\ Free(r, row)
        /\ locked' = [locked EXCEPT ![r] = @ \cup {row}]
        /\ readOwned' = [readOwned EXCEPT ![r] =
             [a \in DOMAIN readOwned[r] \cup fresh |->
                IF a \in fresh THEN owned[a] ELSE readOwned[r][a]]]
        /\ readPart' = [readPart EXCEPT ![r] =
             [p \in DOMAIN readPart[r] \cup ({row} \cap Parts) |->
                IF p = row THEN part[p] ELSE readPart[r][p]]]
        /\ waits' = [waits EXCEPT ![r] = NoRow]
        /\ UNCHANGED <<owned, part, ask, pc>>

\* The next FOR UPDATE finds its row free ...
Lock(r, row) ==
    /\ pc[r] = "running" /\ waits[r] = NoRow /\ row \in Wanted(r)
    /\ Acquire(r, row)

\* ... or waits for it ...
Wait(r, row) ==
    /\ pc[r] = "running" /\ waits[r] = NoRow /\ row \in Wanted(r)
    /\ ~Free(r, row)
    /\ waits' = [waits EXCEPT ![r] = row]
    /\ UNCHANGED <<owned, part, ask, pc, locked, readOwned, readPart>>

\* ... and gets it when the holder ends.
Grant(r) == waits[r] # NoRow /\ Acquire(r, waits[r])

\* Seeded fault: an aborted connection goes back to its pool with its locks.
EndWithLocks(r, outcome) ==
    /\ pc' = [pc EXCEPT ![r] = outcome]
    /\ waits' = [waits EXCEPT ![r] = NoRow]
    /\ readOwned' = [readOwned EXCEPT ![r] = Nothing]
    /\ readPart' = [readPart EXCEPT ![r] = Nothing]
    /\ UNCHANGED <<ask, locked>>

\* COMMIT or ROLLBACK.
End(r, outcome) ==
    /\ pc' = [pc EXCEPT ![r] = outcome]
    /\ locked' = [locked EXCEPT ![r] = {}]
    /\ waits' = [waits EXCEPT ![r] = NoRow]
    /\ readOwned' = [readOwned EXCEPT ![r] = Nothing]
    /\ readPart' = [readPart EXCEPT ![r] = Nothing]
    /\ UNCHANGED ask

-----------------------------------------------------------------------------
\* Everything is locked: the request checks and writes from what it has read
\* (positions it has not read take no part in its sums).
Read(r) == [a \in Positions |-> IF a \in DOMAIN readOwned[r] THEN readOwned[r][a]
                                ELSE owned[a]]

PartEditAllowed(r) ==
    LET p == ask[r].part
    IN  Service!PartEditAllowed(readPart[r][p], p, ask[r].quantity)

CommitPartEdit(r) ==
    LET p == ask[r].part
    IN  /\ ask[r].kind = "part" /\ Ready(r) /\ PartEditAllowed(r)
        /\ owned' = [a \in Positions |-> IF a \in MatchOf[p] THEN ask[r].quantity
                                         ELSE owned[a]]
        /\ part' = [part EXCEPT ![p] =
                      Service!PartEdited(readPart[r][p], p, ask[r].quantity)]
        /\ End(r, "committed")

\* Seeded fault: the position is saved and its mirrors are forgotten.
CommitPositionEditOnly(r) ==
    LET a == ask[r].position
    IN  /\ ask[r].kind = "position" /\ Ready(r) /\ ask[r].quantity <= Required[a]
        /\ owned' = [owned EXCEPT ![a] = ask[r].quantity]
        /\ part' = part
        /\ End(r, "committed")

CommitPositionEdit(r) ==
    LET a == ask[r].position
        own == [Read(r) EXCEPT ![a] = ask[r].quantity]
    IN  /\ ask[r].kind = "position" /\ Ready(r) /\ ask[r].quantity <= Required[a]
        /\ owned' = [owned EXCEPT ![a] = ask[r].quantity]
        /\ part' = [p \in Parts |-> IF p \in Service!MirrorsOf(a)
                                    THEN Service!MirrorOf(own, readPart[r][p], p)
                                    ELSE part[p]]
        /\ End(r, "committed")

StatusAllowed(r) ==
    LET p == ask[r].part
    IN  StatusIsConsistent(ask[r].status,
                           Service!ShortageOf(Read(r), readPart[r][p], p))

CommitStatus(r) ==
    /\ ask[r].kind = "status" /\ Ready(r) /\ StatusAllowed(r)
    /\ part' = [part EXCEPT ![ask[r].part].status = ask[r].status]
    /\ owned' = owned
    /\ End(r, "committed")

\* An ambiguous Part, a quantity above the maximum, an inconsistent status.
Refuse(r) ==
    /\ Ready(r)
    /\ \/ ask[r].kind = "part" /\ ~PartEditAllowed(r)
       \/ ask[r].kind = "position" /\ ask[r].quantity > Required[ask[r].position]
       \/ ask[r].kind = "status" /\ ~StatusAllowed(r)
    /\ End(r, "refused")
    /\ UNCHANGED <<owned, part>>

\* The request that holds the row a request waits for.
Blocker(r) ==
    LET holders == {q \in Requests \ {r} : waits[r] \in locked[q]}
    IN  IF holders = {} THEN NoRequest ELSE CHOOSE q \in holders : TRUE

\* Who waits for whom leads from the request back to it.
InCycle(r) ==
    LET chain[n \in 0..Cardinality(Requests)] ==
            IF n = 0 THEN r
            ELSE IF chain[n - 1] = NoRequest THEN NoRequest ELSE Blocker(chain[n - 1])
    IN  \E n \in 1..Cardinality(Requests) : chain[n] = r

\* Seeded fault: the victim is started again, with no limit.
AbortAndRetry(r) ==
    /\ pc[r] = "running" /\ InCycle(r)
    /\ End(r, "running")
    /\ UNCHANGED <<owned, part>>

\* The deadlock victim gets an OperationalError; its transaction is undone.
Abort(r) ==
    /\ pc[r] = "running" /\ InCycle(r)
    /\ End(r, "aborted")
    /\ UNCHANGED <<owned, part>>

-----------------------------------------------------------------------------
Init ==
    /\ \E start \in Stored : owned = start.owned /\ part = start.part
    /\ Service!Init
    /\ ask \in [Requests -> Asked]
    /\ pc = [r \in Requests |-> "running"]
    /\ locked = [r \in Requests |-> {}]
    /\ waits = [r \in Requests |-> NoRow]
    /\ readOwned = [r \in Requests |-> Nothing]
    /\ readPart = [r \in Requests |-> Nothing]

Locking(r) == (\E row \in Rows : Lock(r, row) \/ Wait(r, row)) \/ Grant(r)
Commit(r) == CommitPartEdit(r) \/ CommitPositionEdit(r) \/ CommitStatus(r)

Step(r) == Locking(r) \/ Commit(r) \/ Refuse(r) \/ Abort(r)

AllEnded == \A r \in Requests : pc[r] # "running"

Next == (\E r \in Requests : Step(r)) \/ (AllEnded /\ UNCHANGED vars)

\* Every thread keeps running, and the database resolves every deadlock.
Spec == Init /\ [][Next]_vars /\ \A r \in Requests : WF_vars(Step(r))

-----------------------------------------------------------------------------
\* Strict two-phase locking: a request that has ended holds nothing, and what
\* a running one has read under a lock is still what the row says.
ReadsAreCurrent ==
    \A r \in Requests :
        /\ pc[r] # "running" => locked[r] = {}
        /\ \A a \in DOMAIN readOwned[r] \cap locked[r] : readOwned[r][a] = owned[a]
        /\ \A p \in DOMAIN readPart[r] : readPart[r][p] = part[p]

\* However the requests interleave, a mirror agrees with its positions.
MirrorsAgree ==
    \A p \in Parts :
        MatchOf[p] # {} /\ Service!Alone(p) => part[p].owned = Service!OwnedOf(owned, p)

\* A status change that checks the shortage while a position edit is on its
\* way never leaves a possession status on a Part with a shortage.
NoPossessionWithShortage ==
    \A p \in Parts :
        Service!Alone(p) =>
            StatusIsConsistent(part[p].status, Service!ShortageOf(owned, part[p], p))

\* The transactions take effect one at a time (apps/catalog/services.py says
\* "Atomically write a Part edit", "Update ... atomically").
Serializable == Service!Spec

\* Whatever commits beside them, the rows agree with each other.
CommittedRowsAgree == MirrorsAgree /\ NoPossessionWithShortage

\* Every request is answered, although the lock orders are opposite.
EveryRequestEnds == \A r \in Requests : <>(pc[r] # "running")
=============================================================================
