------------------------ MODULE QuantityLocks_proofs ------------------------
(***************************************************************************)
(* Row locks make the quantity requests take effect one at a time, for any *)
(* number of requests, positions and Parts.                                *)
(***************************************************************************)
EXTENDS QuantityLocks, SumTheorems, TLAPS

Outcomes == {"running", "committed", "refused", "aborted"}

LockType ==
    /\ ask \in [Requests -> Asks]
    /\ pc \in [Requests -> Outcomes]
    /\ locked \in [Requests -> SUBSET Rows]
    /\ waits \in [Requests -> Rows \cup {NoRow}]
    /\ part = [p \in Parts |-> part[p]] /\ owned = [a \in Positions |-> owned[a]]
    /\ DOMAIN readPart = Requests /\ DOMAIN readOwned = Requests

\* Two requests never hold the same row, and an ended one holds nothing.
Exclusive == \A r, q \in Requests : r # q => locked[r] \cap locked[q] = {}

Ended == \A r \in Requests :
    pc[r] # "running" => locked[r] = {} /\ waits[r] = NoRow

\* A request knows the Parts it has locked ...
PartsRead == \A r \in Requests :
    /\ DOMAIN readPart[r] = locked[r] \cap Parts
    /\ \A p \in locked[r] \cap Parts : readPart[r][p] = part[p]

\* ... and, unless it only changes a status, the positions it has locked.
PositionsRead == \A r \in Requests : ask[r].kind # "status" =>
    /\ DOMAIN readOwned[r] = locked[r] \cap Positions
    /\ \A a \in locked[r] \cap Positions : readOwned[r][a] = owned[a]

\* A status change locks its Part and no other row; it reads positions.
StatusLocksPart == \A r \in Requests : ask[r].kind = "status" =>
    /\ locked[r] \subseteq {ask[r].part}
    /\ waits[r] \in {ask[r].part, NoRow}
    /\ DOMAIN readOwned[r] = IF ask[r].part \in locked[r] THEN MatchOf[ask[r].part]
                             ELSE {}

LockInv == LockType /\ Exclusive /\ Ended /\ PartsRead /\ PositionsRead /\ StatusLocksPart

-----------------------------------------------------------------------------
LEMMA AskType ==
    ASSUME LockType, NEW r \in Requests
    PROVE  /\ ask[r].kind \in {"part", "position", "status"}
           /\ ask[r].kind = "part" => ask[r].part \in Parts /\ ask[r].quantity \in Quantities
           /\ ask[r].kind = "position" =>
                ask[r].position \in Positions /\ ask[r].quantity \in Quantities
           /\ ask[r].kind = "status" => ask[r].part \in Parts /\ ask[r].status \in Statuses
BY DEF LockType, Asks

\* A position edit that is ready holds its position, the Parts that mirror
\* it, and every position that those match.
LEMMA PositionEditHolds ==
    ASSUME LockType, NEW r \in Requests, Ready(r), ask[r].kind = "position",
           ask[r].quantity <= Required[ask[r].position]
    PROVE  /\ ask[r].position \in locked[r]
           /\ \A p \in Service!MirrorsOf(ask[r].position) :
                p \in locked[r] /\ MatchOf[p] \subseteq locked[r]
<1>1. PositionEditLocks(r) = {}
  BY DEF Ready, Wanted
<1>2. ask[r].position \in Positions
  BY AskType
<1>3. ask[r].quantity \in Nat /\ Required[ask[r].position] \in Nat
  BY <1>2, AskType, MatchAssumption
<1>4. ask[r].position \in locked[r]
  BY <1>1 DEF PositionEditLocks
<1>5. /\ Candidates[ask[r].position] \subseteq locked[r]
      /\ UNION {MatchOf[p] : p \in Candidates[ask[r].position]} \subseteq locked[r]
  <2> DEFINE candidates == Candidates[ask[r].position]
             matching == UNION {MatchOf[p] : p \in candidates}
  <2>1. ~(ask[r].quantity > Required[ask[r].position])
    BY <1>3
  <2>2. SetRow \in locked[r]
    BY <1>1, <1>4, <2>1 DEF PositionEditLocks
  <2>3. PositionEditLocks(r) = IF candidates \subseteq locked[r]
                               THEN matching \ locked[r] ELSE candidates \ locked[r]
    BY <1>4, <2>1, <2>2, Zenon DEF PositionEditLocks
  <2> HIDE DEF candidates, matching
  <2>4. candidates \subseteq locked[r] /\ matching \subseteq locked[r]
    BY <1>1, <2>3
  <2> QED BY <2>4 DEF candidates, matching
<1>6. Service!MirrorsOf(ask[r].position) \subseteq Candidates[ask[r].position]
  BY <1>2, RowsAssumption DEF Service!MirrorsOf
<1> QED BY <1>4, <1>5, <1>6

\* A Part edit that is ready holds its Part and the positions it matches.
LEMMA PartEditHolds ==
    ASSUME LockType, NEW r \in Requests, Ready(r), ask[r].kind = "part"
    PROVE  ask[r].part \in locked[r] /\ MatchOf[ask[r].part] \subseteq locked[r]
BY DEF Ready, Wanted, PartEditLocks

LEMMA StatusHolds ==
    ASSUME LockType, NEW r \in Requests, Ready(r), ask[r].kind = "status"
    PROVE  ask[r].part \in locked[r]
BY DEF Ready, Wanted, StatusLocks

-----------------------------------------------------------------------------
LEMMA EndKeepsLocks ==
    ASSUME LockInv, NEW r \in Requests, NEW outcome \in Outcomes \ {"running"},
           End(r, outcome),
           part' = [p \in Parts |-> part'[p]], owned' = [a \in Positions |-> owned'[a]],
           \A p \in Parts : p \notin locked[r] => part'[p] = part[p],
           \A a \in Positions : a \notin locked[r] => owned'[a] = owned[a]
    PROVE  LockInv'
<1> USE DEF LockInv, LockType, End
<1>1. LockType'
  OBVIOUS
<1>2. Exclusive' /\ Ended' /\ StatusLocksPart'
  BY DEF Exclusive, Ended, StatusLocksPart, Nothing
<1>3. \A q \in Requests \ {r} :
        /\ locked'[q] = locked[q] /\ locked[q] \cap locked[r] = {}
        /\ readPart'[q] = readPart[q] /\ readOwned'[q] = readOwned[q] /\ ask'[q] = ask[q]
  BY DEF Exclusive
<1>4. locked'[r] = {} /\ readPart'[r] = Nothing /\ readOwned'[r] = Nothing
  OBVIOUS
<1>5. PartsRead'
  BY <1>3, <1>4 DEF PartsRead, Nothing
<1>6. PositionsRead'
  BY <1>3, <1>4 DEF PositionsRead, Nothing
<1> QED BY <1>1, <1>2, <1>5, <1>6

LEMMA AcquireKeepsLocks ==
    ASSUME LockInv, NEW r \in Requests, NEW row \in Rows, pc[r] = "running",
           ask[r].kind = "status" => row = ask[r].part, Acquire(r, row)
    PROVE  LockInv'
<1> USE DEF LockInv, LockType, Acquire
<1>1. LockType'
  OBVIOUS
<1>2. Exclusive'
  BY DEF Exclusive, Free
<1>3. Ended'
  BY DEF Ended
<1>7. StatusLocksPart'
  <2>1. ASSUME NEW q \in Requests \ {r}
        PROVE  /\ ask'[q] = ask[q] /\ locked'[q] = locked[q] /\ waits'[q] = waits[q]
               /\ DOMAIN readOwned'[q] = DOMAIN readOwned[q]
    OBVIOUS
  <2>2. /\ ask'[r] = ask[r] /\ locked'[r] = locked[r] \cup {row} /\ waits'[r] = NoRow
        /\ DOMAIN readOwned'[r] = DOMAIN readOwned[r] \cup ReadPositions(r, row)
    OBVIOUS
  <2>3. ask[r].kind = "status" =>
          row \in Parts /\ row \notin Positions /\ ReadPositions(r, row) = MatchOf[row]
    BY AskType, RowsAssumption DEF ReadPositions
  <2>4. ask[r].kind = "status" =>
          /\ locked'[r] = {ask'[r].part}
          /\ DOMAIN readOwned'[r] = MatchOf[ask'[r].part]
    <3> SUFFICES ASSUME ask[r].kind = "status"
                 PROVE  /\ locked'[r] = {ask'[r].part}
                        /\ DOMAIN readOwned'[r] = MatchOf[ask'[r].part]
      OBVIOUS
    <3>1. row = ask[r].part /\ locked[r] \subseteq {ask[r].part}
      BY DEF StatusLocksPart
    <3>2. DOMAIN readOwned[r] = {} \/ DOMAIN readOwned[r] = MatchOf[row]
      BY <3>1 DEF StatusLocksPart
    <3>3. locked'[r] = {ask'[r].part}
      BY <2>2, <3>1
    <3>4. DOMAIN readOwned'[r] = MatchOf[row]
      BY <2>2, <2>3, <3>2
    <3> QED BY <2>2, <3>1, <3>3, <3>4
  <2> HIDE DEF Acquire, LockType, LockInv
  <2>5. ASSUME NEW q \in Requests, ask'[q].kind = "status"
        PROVE  /\ locked'[q] \subseteq {ask'[q].part}
               /\ waits'[q] \in {ask'[q].part, NoRow}
               /\ DOMAIN readOwned'[q] =
                    IF ask'[q].part \in locked'[q] THEN MatchOf[ask'[q].part] ELSE {}
    BY <2>1, <2>2, <2>4, <2>5 DEF StatusLocksPart, LockInv
  <2> QED BY <2>5 DEF StatusLocksPart
<1>4. \A q \in Requests \ {r} :
        /\ locked'[q] = locked[q] /\ readPart'[q] = readPart[q]
        /\ readOwned'[q] = readOwned[q]
  OBVIOUS
<1>5. PartsRead'
  BY <1>4 DEF PartsRead
<1>6. PositionsRead'
  BY <1>4, RowsAssumption DEF PositionsRead, ReadPositions
<1> QED BY <1>1, <1>2, <1>3, <1>5, <1>6, <1>7

LEMMA WantedRows ==
    ASSUME LockInv, NEW r \in Requests
    PROVE  ask[r].kind = "status" => Wanted(r) \subseteq {ask[r].part}
BY AskType DEF LockInv, Wanted, StatusLocks

LEMMA LockInvInit == Init => LockInv
<1> SUFFICES ASSUME Init PROVE LockInv
  OBVIOUS
<1> USE DEF Init
<1>1. part = [p \in Parts |-> part[p]] /\ owned = [a \in Positions |-> owned[a]]
  BY DEF Service!Init
<1>2. ask \in [Requests -> Asks]
  BY RowsAssumption
<1>3. LockType
  BY <1>1, <1>2 DEF LockType, Outcomes
<1>4. Exclusive /\ Ended /\ StatusLocksPart
  BY DEF Exclusive, Ended, StatusLocksPart, Nothing
<1>5. PartsRead /\ PositionsRead
  BY DEF PartsRead, PositionsRead, Nothing
<1> QED BY <1>3, <1>4, <1>5 DEF LockInv

LEMMA LockInvStep == LockInv /\ [Next]_vars => LockInv'
<1> SUFFICES ASSUME LockInv, [Next]_vars PROVE LockInv'
  OBVIOUS
<1>0. LockType
  BY DEF LockInv
<1>1. ASSUME NEW r \in Requests, NEW row \in Rows, Lock(r, row)
      PROVE  LockInv'
  BY <1>1, WantedRows, AcquireKeepsLocks DEF Lock
<1>2. ASSUME NEW r \in Requests, NEW row \in Rows, Wait(r, row)
      PROVE  LockInv'
  BY <1>2, WantedRows DEF Wait, LockInv, LockType, Exclusive, Ended, PartsRead,
     PositionsRead, StatusLocksPart
<1>3. ASSUME NEW r \in Requests, Grant(r)
      PROVE  LockInv'
  <2>1. pc[r] = "running" /\ waits[r] \in Rows
    BY <1>3 DEF Grant, LockInv, LockType, Ended
  <2>2. ask[r].kind = "status" => waits[r] = ask[r].part
    BY <1>3 DEF Grant, LockInv, StatusLocksPart
  <2> QED BY <1>3, <2>1, <2>2, AcquireKeepsLocks DEF Grant
<1>4. ASSUME NEW r \in Requests, CommitPartEdit(r)
      PROVE  LockInv'
  <2>1. ask[r].part \in locked[r] /\ MatchOf[ask[r].part] \subseteq locked[r]
    BY <1>0, <1>4, PartEditHolds DEF CommitPartEdit
  <2>2. \A p \in Parts : p \notin locked[r] => part'[p] = part[p]
    BY <1>0, <1>4, <2>1 DEF CommitPartEdit, LockType
  <2>3. \A a \in Positions : a \notin locked[r] => owned'[a] = owned[a]
    BY <1>0, <1>4, <2>1 DEF CommitPartEdit, LockType
  <2>4. part' = [p \in Parts |-> part'[p]] /\ owned' = [a \in Positions |-> owned'[a]]
    BY <1>0, <1>4 DEF CommitPartEdit, LockType
  <2> QED BY <1>4, <2>2, <2>3, <2>4, EndKeepsLocks DEF CommitPartEdit, Outcomes
<1>5. ASSUME NEW r \in Requests, CommitPositionEdit(r)
      PROVE  LockInv'
  <2>1. /\ ask[r].position \in locked[r]
        /\ \A p \in Service!MirrorsOf(ask[r].position) : p \in locked[r]
    BY <1>0, <1>5, PositionEditHolds DEF CommitPositionEdit
  <2>2. \A p \in Parts : p \notin locked[r] => part'[p] = part[p]
    BY <1>0, <1>5, <2>1 DEF CommitPositionEdit, LockType
  <2>3. \A a \in Positions : a \notin locked[r] => owned'[a] = owned[a]
    BY <1>0, <1>5, <2>1 DEF CommitPositionEdit, LockType
  <2>4. part' = [p \in Parts |-> part'[p]] /\ owned' = [a \in Positions |-> owned'[a]]
    BY <1>0, <1>5 DEF CommitPositionEdit, LockType
  <2> QED BY <1>5, <2>2, <2>3, <2>4, EndKeepsLocks DEF CommitPositionEdit, Outcomes
<1>6. ASSUME NEW r \in Requests, CommitStatus(r)
      PROVE  LockInv'
  <2>1. ask[r].part \in locked[r]
    BY <1>0, <1>6, StatusHolds DEF CommitStatus
  <2>2. \A p \in Parts : p \notin locked[r] => part'[p] = part[p]
    BY <1>0, <1>6, <2>1 DEF CommitStatus, LockType
  <2>3. /\ part' = [p \in Parts |-> part'[p]] /\ owned' = owned
        /\ owned' = [a \in Positions |-> owned'[a]]
    BY <1>0, <1>6 DEF CommitStatus, LockType
  <2> QED BY <1>0, <1>6, <2>2, <2>3, EndKeepsLocks DEF CommitStatus, Outcomes, LockType
<1>7. ASSUME NEW r \in Requests, Refuse(r) \/ Abort(r)
      PROVE  LockInv'
  BY <1>0, <1>7, EndKeepsLocks DEF Refuse, Abort, Outcomes, LockType
<1>8. CASE UNCHANGED vars
  BY <1>8 DEF vars, LockInv, LockType, Exclusive, Ended, PartsRead, PositionsRead,
     StatusLocksPart
<1> QED
  BY <1>1, <1>2, <1>3, <1>4, <1>5, <1>6, <1>7, <1>8 DEF Next, Step, Locking, Commit

\* What a request has read under its locks stays true until it ends.
THEOREM LockedReadsStayCurrent == Spec => []ReadsAreCurrent
<1>1. LockInv => ReadsAreCurrent
  <2> SUFFICES ASSUME LockInv, NEW r \in Requests
               PROVE  /\ pc[r] # "running" => locked[r] = {}
                      /\ \A a \in DOMAIN readOwned[r] \cap locked[r] :
                           readOwned[r][a] = owned[a]
                      /\ \A p \in DOMAIN readPart[r] : readPart[r][p] = part[p]
    BY DEF ReadsAreCurrent
  <2>1. ask[r].kind = "status" => locked[r] \subseteq Parts
    BY AskType DEF LockInv, StatusLocksPart
  <2>2. CASE ask[r].kind # "status"
    BY <2>2 DEF LockInv, Ended, PartsRead, PositionsRead
  <2>3. CASE ask[r].kind = "status"
    <3>1. DOMAIN readOwned[r] \subseteq Positions
      BY <2>3, AskType, MatchAssumption DEF LockInv, StatusLocksPart
    <3>2. DOMAIN readOwned[r] \cap locked[r] = {}
      BY <2>1, <2>3, <3>1, RowsAssumption
    <3> QED BY <3>2 DEF LockInv, Ended, PartsRead
  <2> QED BY <2>2, <2>3
<1> QED
  BY <1>1, LockInvInit, LockInvStep, PTL DEF Spec

-----------------------------------------------------------------------------
(***************************************************************************)
(* The writes of the commits.  A status change reads positions it has not  *)
(* locked; they stay current when no other Part shares them, because then  *)
(* everyone who writes them has locked its Part.                           *)
(***************************************************************************)

StatusReads == \A r \in Requests : ask[r].kind = "status" /\ Service!Alone(ask[r].part) =>
    \A a \in DOMAIN readOwned[r] : readOwned[r][a] = owned[a]

LEMMA PartEditWrites ==
    ASSUME LockInv, NEW r \in Requests, CommitPartEdit(r)
    PROVE  /\ ask[r].part \in Parts \cap locked[r] /\ ask[r].quantity \in Quantities
           /\ Service!EditPart(ask[r].part, ask[r].quantity)
<1> DEFINE p == ask[r].part
<1>1. p \in Parts /\ ask[r].quantity \in Quantities
  BY AskType DEF CommitPartEdit, LockInv
<1>2. p \in locked[r] /\ readPart[r][p] = part[p]
  BY <1>1, PartEditHolds DEF CommitPartEdit, LockInv, PartsRead
<1>3. Service!EditPart(p, ask[r].quantity)
  BY <1>2 DEF CommitPartEdit, PartEditAllowed, Service!EditPart
<1> QED BY <1>1, <1>2, <1>3

LEMMA PositionEditWrites ==
    ASSUME LockInv, NEW r \in Requests, CommitPositionEdit(r)
    PROVE  /\ ask[r].position \in Positions /\ ask[r].quantity \in Quantities
           /\ Service!MirrorsOf(ask[r].position) \subseteq locked[r]
           /\ Service!EditPosition(ask[r].position, ask[r].quantity)
<1> DEFINE a == ask[r].position
           quantity == ask[r].quantity
           own == [Read(r) EXCEPT ![a] = quantity]
<1>1. a \in Positions /\ quantity \in Quantities /\ ask[r].kind = "position"
  BY AskType DEF CommitPositionEdit, LockInv
<1>2. \A p \in Service!MirrorsOf(a) : p \in locked[r] /\ readPart[r][p] = part[p]
  BY PositionEditHolds DEF CommitPositionEdit, LockInv, PartsRead, Service!MirrorsOf
<1>3. Read(r) = owned
  BY <1>1 DEF Read, LockInv, LockType, PositionsRead
<1>4. own = owned'
  BY <1>3 DEF CommitPositionEdit
<1>5. part' = [p \in Parts |-> IF p \in Service!MirrorsOf(a)
                               THEN Service!MirrorOf(own, readPart[r][p], p)
                               ELSE part[p]]
  BY DEF CommitPositionEdit
<1>6. quantity <= Required[a] /\ owned' = [owned EXCEPT ![a] = quantity]
  BY DEF CommitPositionEdit
<1> HIDE DEF own, a, quantity
<1>7. part' = [p \in Parts |-> IF p \in Service!MirrorsOf(a)
                               THEN Service!MirrorOf(owned', part[p], p) ELSE part[p]]
  BY <1>2, <1>4, <1>5
<1>8. Service!EditPosition(a, quantity)
  BY <1>6, <1>7 DEF Service!EditPosition
<1> QED BY <1>1, <1>2, <1>8 DEF a, quantity

LEMMA StatusWrites ==
    ASSUME LockInv, NEW r \in Requests, CommitStatus(r)
    PROVE  /\ ask[r].part \in Parts /\ ask[r].status \in Statuses /\ owned' = owned
           /\ part' = [part EXCEPT ![ask[r].part].status = ask[r].status]
           /\ StatusReads /\ Service!Alone(ask[r].part) =>
                /\ StatusIsConsistent(ask[r].status,
                      Service!ShortageOf(owned, part[ask[r].part], ask[r].part))
                /\ Service!SetStatus(ask[r].part, ask[r].status)
<1> DEFINE p == ask[r].part
           status == ask[r].status
<1>1. p \in Parts /\ status \in Statuses /\ ask[r].kind = "status"
  BY AskType DEF CommitStatus, LockInv
<1>2. p \in locked[r] /\ readPart[r][p] = part[p]
  BY <1>1, StatusHolds DEF CommitStatus, LockInv, PartsRead
<1>3. part' = [part EXCEPT ![p].status = status] /\ owned' = owned
  BY Zenon DEF CommitStatus
<1>4. ASSUME StatusReads, Service!Alone(p)
      PROVE  /\ StatusIsConsistent(status, Service!ShortageOf(owned, part[p], p))
             /\ Service!SetStatus(p, status)
  <2>1. Read(r) = owned
    BY <1>1, <1>4 DEF Read, LockInv, LockType, StatusReads
  <2>2. StatusIsConsistent(status, Service!ShortageOf(owned, part[p], p))
    BY <1>2, <2>1 DEF CommitStatus, StatusAllowed
  <2> HIDE DEF p, status
  <2>3. Service!StatusIsConsistent(status, Service!ShortageOf(owned, part[p], p))
    BY <2>2 DEF StatusIsConsistent, Service!StatusIsConsistent, EffectiveStatus,
       Service!EffectiveStatus, PossessionStatuses, Service!PossessionStatuses
  <2>4. Service!SetStatus(p, status)
    BY <1>3, <2>3, Zenon DEF Service!SetStatus
  <2> QED BY <2>2, <2>4
<1> QED BY <1>1, <1>3, <1>4

\* The positions that the commit of r changes belong to Parts it has locked.
LEMMA StatusReadsKept ==
    ASSUME LockInv, StatusReads, NEW r \in Requests, NEW outcome, End(r, outcome),
           \A a \in Positions, p \in Parts :
              Service!Alone(p) /\ owned'[a] # owned[a] /\ a \in MatchOf[p] => p \in locked[r]
    PROVE  StatusReads'
<1>0. /\ \A q \in Requests : readOwned'[q] = readOwned[q] \/ readOwned'[q] = Nothing
      /\ readOwned'[r] = Nothing /\ ask' = ask
  BY DEF End, LockInv, LockType
<1> SUFFICES ASSUME NEW q \in Requests, ask[q].kind = "status", Service!Alone(ask[q].part),
                    NEW a \in DOMAIN readOwned'[q]
             PROVE  readOwned'[q][a] = owned'[a]
  BY <1>0 DEF StatusReads, Service!Alone
<1>1. q # r /\ readOwned'[q] = readOwned[q] /\ a \in DOMAIN readOwned[q]
  BY <1>0 DEF Nothing
<1>2. readOwned[q][a] = owned[a]
  BY <1>1 DEF StatusReads
<1> DEFINE p == ask[q].part
<1>3. p \in locked[q] /\ a \in MatchOf[p] /\ p \in Parts /\ a \in Positions
  BY <1>1, AskType, MatchAssumption DEF LockInv, StatusLocksPart
<1>4. p \notin locked[r]
  BY <1>1, <1>3 DEF LockInv, Exclusive
<1>5. owned'[a] = owned[a]
  BY <1>3, <1>4
<1> QED BY <1>1, <1>2, <1>5

LEMMA StatusReadsAcquired ==
    ASSUME LockInv, StatusReads, NEW r \in Requests, NEW row \in Rows, Acquire(r, row)
    PROVE  StatusReads'
<1>1. \A q \in Requests \ {r} : readOwned'[q] = readOwned[q]
  BY DEF Acquire, LockInv, LockType
<1>2. readOwned'[r] = [a \in DOMAIN readOwned[r] \cup ReadPositions(r, row) |->
          IF a \in ReadPositions(r, row) THEN owned[a] ELSE readOwned[r][a]]
  BY DEF Acquire, LockInv, LockType
<1>3. owned' = owned /\ ask' = ask
  BY DEF Acquire
<1> QED BY <1>1, <1>2, <1>3 DEF StatusReads, Service!Alone

\* What a step does to the committed rows.
Same == UNCHANGED <<owned, part>>

LEMMA StatusReadsStep ==
    ASSUME LockInv, StatusReads, [Next]_vars
    PROVE  /\ StatusReads'
           /\ \/ Same
              \/ \E r \in Requests : CommitPartEdit(r) \/ CommitPositionEdit(r) \/ CommitStatus(r)
<1>0. LockType
  BY DEF LockInv
<1>1. ASSUME NEW r \in Requests, NEW row \in Rows, Lock(r, row)
      PROVE  Same /\ StatusReads'
  BY <1>1, StatusReadsAcquired DEF Lock, Acquire, Same
<1>2. ASSUME NEW r \in Requests, NEW row \in Rows, Wait(r, row)
      PROVE  Same /\ StatusReads'
  BY <1>2 DEF Wait, Same, StatusReads, Service!Alone
<1>3. ASSUME NEW r \in Requests, Grant(r)
      PROVE  Same /\ StatusReads'
  <2>1. waits[r] \in Rows
    BY <1>3 DEF Grant, LockInv, LockType
  <2> QED BY <1>3, <2>1, StatusReadsAcquired DEF Grant, Acquire, Same
<1>5. ASSUME NEW r \in Requests, Refuse(r) \/ Abort(r)
      PROVE  Same /\ StatusReads'
  <2>1. Same /\ owned' = owned
    BY <1>5 DEF Refuse, Abort, Same
  <2>2. PICK outcome : End(r, outcome)
    BY <1>5 DEF Refuse, Abort
  <2>3. StatusReads'
    BY <2>1, <2>2, StatusReadsKept
  <2> QED BY <2>1, <2>3
<1>6. ASSUME NEW r \in Requests, CommitPartEdit(r)
      PROVE  StatusReads'
  <2> DEFINE p == ask[r].part
  <2>1. p \in Parts \cap locked[r] /\ Service!EditPart(p, ask[r].quantity)
    BY <1>6, PartEditWrites
  <2>2. ASSUME NEW a \in Positions, NEW q \in Parts, Service!Alone(q),
               owned'[a] # owned[a], a \in MatchOf[q]
        PROVE  q \in locked[r]
    <3>1. a \in MatchOf[p]
      BY <1>0, <2>1, <2>2 DEF LockType, Service!EditPart
    <3>2. q = p
      BY <2>1, <2>2, <3>1 DEF Service!Alone
    <3> QED BY <2>1, <3>2
  <2>3. End(r, "committed")
    BY <1>6 DEF CommitPartEdit
  <2> QED BY <2>2, <2>3, StatusReadsKept
<1>7. ASSUME NEW r \in Requests, CommitPositionEdit(r)
      PROVE  StatusReads'
  <2> DEFINE a == ask[r].position
  <2>1. Service!MirrorsOf(a) \subseteq locked[r] /\ Service!EditPosition(a, ask[r].quantity)
    BY <1>7, PositionEditWrites
  <2>2. \A b \in Positions, q \in Parts :
          owned'[b] # owned[b] /\ b \in MatchOf[q] => q \in locked[r]
    BY <1>0, <2>1 DEF LockType, Service!MirrorsOf, Service!EditPosition
  <2>3. End(r, "committed")
    BY <1>7 DEF CommitPositionEdit
  <2> QED BY <2>2, <2>3, StatusReadsKept
<1>8. ASSUME NEW r \in Requests, CommitStatus(r)
      PROVE  StatusReads'
  <2>1. owned' = owned
    BY <1>8, StatusWrites
  <2>2. End(r, "committed")
    BY <1>8 DEF CommitStatus
  <2> QED BY <2>1, <2>2, StatusReadsKept
<1>9. CASE UNCHANGED vars
  BY <1>9 DEF vars, StatusReads, Same, Service!Alone
<1> QED
  BY <1>1, <1>2, <1>3, <1>5, <1>6, <1>7, <1>8, <1>9 DEF Next, Step, Locking, Commit

-----------------------------------------------------------------------------
(***************************************************************************)
(* Implementation of the atomic service.                                   *)
(***************************************************************************)

\* A step takes effect as one call of the service, or as none.
LEMMA CommitsAreService ==
    ASSUME \A p \in Parts : Service!Alone(p), LockInv, StatusReads, [Next]_vars
    PROVE  [Service!Next]_(Service!serviceVars)
<1>1. CASE Same
  BY <1>1 DEF Same, Service!serviceVars
<1>2. ASSUME NEW r \in Requests, CommitPartEdit(r)
      PROVE  Service!Next
  BY <1>2, PartEditWrites DEF Service!Next
<1>3. ASSUME NEW r \in Requests, CommitPositionEdit(r)
      PROVE  Service!Next
  BY <1>3, PositionEditWrites DEF Service!Next
<1>4. ASSUME NEW r \in Requests, CommitStatus(r)
      PROVE  Service!Next
  <2>1. ask[r].part \in Parts /\ ask[r].status \in Service!Statuses
    BY <1>4, StatusWrites DEF Statuses, Service!Statuses
  <2>2. Service!SetStatus(ask[r].part, ask[r].status)
    BY <1>4, StatusWrites
  <2> QED BY <2>1, <2>2 DEF Service!Next
<1> QED BY <1>1, <1>2, <1>3, <1>4, StatusReadsStep

\* The locking transactions implement the atomic quantity service, however
\* many of them interleave, when no two Parts share a position.
THEOREM LocksImplementService ==
    ASSUME \A p \in Parts : Service!Alone(p)
    PROVE  Spec => Serializable
<1>1. Init => LockInv /\ StatusReads /\ Service!Init
  BY LockInvInit DEF Init, StatusReads, Nothing
<1>2. LockInv /\ StatusReads /\ [Next]_vars
        => LockInv' /\ StatusReads' /\ [Service!Next]_(Service!serviceVars)
  BY LockInvStep, StatusReadsStep, CommitsAreService
<1> QED
  BY <1>1, <1>2, PTL DEF Spec, Serializable, Service!Spec

-----------------------------------------------------------------------------
(***************************************************************************)
(* Agreement of the rows, for every Part that shares no position, whatever *)
(* the other Parts do.                                                     *)
(***************************************************************************)
RowFields == \A p \in Parts : DOMAIN part[p] = {"quantity", "owned", "status"}

MissingIn(own) == [a \in Positions |-> Missing(Required[a], own[a])]

LEMMA StatusRules ==
    /\ \A m, n : Service!Missing(m, n) = Missing(m, n)
    /\ \A s, m : Service!EffectiveStatus(s, m) = EffectiveStatus(s, m)
    /\ \A s, m : StatusIsConsistent(EffectiveStatus(s, m), m)
BY DEF Missing, Service!Missing, EffectiveStatus, Service!EffectiveStatus, PossessionStatuses,
   Service!PossessionStatuses, StatusIsConsistent

LEMMA SumsAreTotals ==
    ASSUME NEW own, NEW row, NEW p \in Parts
    PROVE  /\ Service!OwnedOf(own, p) = Total(own, MatchOf[p])
           /\ MatchOf[p] # {} => Service!ShortageOf(own, row, p) = Total(MissingIn(own), MatchOf[p])
<1> DEFINE S == MatchOf[p]
<1>0. S \subseteq Positions
  BY MatchAssumption
<1>1. Service!OwnedOf(own, p) = Total(own, S)
  BY DEF Service!OwnedOf, Service!MapThenSumSet, Service!MapThenFoldSet,
     Total, MapThenSumSet, MapThenFoldSet
<1>2. ASSUME NEW iter
      PROVE  [t \in SUBSET S |-> IF t = {} THEN 0
                 ELSE Missing(Required[Pick(t)], own[Pick(t)]) + iter[t \ {Pick(t)}]]
             = [t \in SUBSET S |-> Unfold(MissingIn(own), iter, t)]
  BY <1>0, PickInSet DEF MissingIn, Unfold
<1>3. S # {} => Service!ShortageOf(own, row, p) = (CHOOSE iter : iter =
              [t \in SUBSET S |-> IF t = {} THEN 0
                 ELSE Missing(Required[Pick(t)], own[Pick(t)]) + iter[t \ {Pick(t)}]])[S]
  BY StatusRules DEF Service!ShortageOf, Service!MapThenSumSet, Service!MapThenFoldSet, Pick
<1>4. (CHOOSE iter : iter =
              [t \in SUBSET S |-> IF t = {} THEN 0
                 ELSE Missing(Required[Pick(t)], own[Pick(t)]) + iter[t \ {Pick(t)}]])
        = Iter(MissingIn(own), S)
  BY <1>2, Zenon DEF Iter, Solves
<1> QED BY <1>1, <1>3, <1>4, TotalIsIter

\* Positions that own as much as before give the same sums.
LEMMA SameSums ==
    ASSUME NEW own, NEW new, NEW p \in Parts, \A a \in MatchOf[p] : own[a] = new[a],
           NEW row, NEW row2, MatchOf[p] = {} => row = row2
    PROVE  /\ Service!OwnedOf(own, p) = Service!OwnedOf(new, p)
           /\ Service!ShortageOf(own, row, p) = Service!ShortageOf(new, row2, p)
<1>1. Total(own, MatchOf[p]) = Total(new, MatchOf[p])
  BY TotalCongruence
<1>2. \A a \in MatchOf[p] : MissingIn(own)[a] = MissingIn(new)[a]
  BY MatchAssumption DEF MissingIn
<1>3. Total(MissingIn(own), MatchOf[p]) = Total(MissingIn(new), MatchOf[p])
  BY <1>2, TotalCongruence
<1>4. MatchOf[p] = {} => Service!ShortageOf(own, row, p) = Service!ShortageOf(new, row2, p)
  BY DEF Service!ShortageOf
<1> QED BY <1>1, <1>3, <1>4, SumsAreTotals

\* What CommittedRowsAgree says of one Part.
Agreed(own, row, p) ==
    /\ MatchOf[p] # {} => row.owned = Service!OwnedOf(own, p)
    /\ StatusIsConsistent(row.status, Service!ShortageOf(own, row, p))

AllAgreed == \A p \in Parts : Service!Alone(p) => Agreed(owned, part[p], p)

LEMMA AgreedMeansAgree == AllAgreed <=> CommittedRowsAgree
BY DEF AllAgreed, Agreed, CommittedRowsAgree, MirrorsAgree, NoPossessionWithShortage

LEMMA StaysAgreed ==
    ASSUME NEW own, NEW new, NEW row, NEW p \in Parts, Agreed(own, row, p),
           \A a \in MatchOf[p] : own[a] = new[a]
    PROVE  Agreed(new, row, p)
BY SameSums DEF Agreed

\* The row that a Part edit writes, beside its one position or without any.
LEMMA EditedAgrees ==
    ASSUME NEW p \in Parts, NEW row, NEW quantity \in Quantities,
           Service!PartEditAllowed(row, p, quantity),
           NEW new, \A a \in MatchOf[p] : new[a] = quantity
    PROVE  Agreed(new, Service!PartEdited(row, p, quantity), p)
<1> DEFINE maximum == Service!MaximumOf(row, p)
           edited == Service!PartEdited(row, p, quantity)
<1>1. /\ edited.quantity = maximum /\ edited.owned = quantity
      /\ edited.status = EffectiveStatus(row.status, Missing(maximum, quantity))
  BY StatusRules DEF Service!PartEdited
<1> HIDE DEF maximum, edited
<1>2. CASE MatchOf[p] = {}
  <2>1. Service!ShortageOf(new, edited, p) = Missing(maximum, quantity)
    BY <1>1, <1>2, StatusRules DEF Service!ShortageOf
  <2> QED BY <1>1, <1>2, <2>1, StatusRules DEF Agreed, edited
<1>3. CASE MatchOf[p] # {}
  <2>1. PICK a : MatchOf[p] = {a}
    <3>f. MatchOf[p] \subseteq Positions
      BY MatchAssumption
    <3>g. IsFiniteSet(MatchOf[p])
      BY <3>f, RowsAssumption, FS_Subset
    <3>h. Cardinality(MatchOf[p]) <= 1
      BY DEF Service!PartEditAllowed, Cardinality, Service!Cardinality
    <3>1. IsFiniteSet(MatchOf[p]) /\ Cardinality(MatchOf[p]) <= 1
      BY <3>g, <3>h
    <3>2. Cardinality(MatchOf[p]) = 1
      BY <1>3, <3>1, FS_EmptySet, FS_CardinalityType
    <3> QED BY <3>1, <3>2, FS_Singleton
  <2>2. a \in Positions /\ new[a] = quantity /\ Required[a] \in Nat /\ quantity \in Nat
    BY <2>1, MatchAssumption
  <2>3. maximum = Required[a]
    BY <2>1 DEF maximum, Service!MaximumOf
  <2>4. MissingIn(new)[a] = Missing(maximum, quantity)
    BY <2>2, <2>3 DEF MissingIn
  <2>5. Missing(maximum, quantity) \in Int
    BY <2>2, <2>3 DEF Missing
  <2>6. new[a] \in Int /\ MissingIn(new)[a] \in Int
    BY <2>2, <2>4, <2>5
  <2>7. Total(new, {a}) = quantity /\ Total(MissingIn(new), {a}) = Missing(maximum, quantity)
    BY <2>2, <2>4, <2>6, TotalSingleton
  <2>8. /\ Service!OwnedOf(new, p) = quantity
        /\ Service!ShortageOf(new, edited, p) = Missing(maximum, quantity)
    BY <1>3, <2>1, <2>7, SumsAreTotals
  <2> QED BY <1>1, <2>8, StatusRules DEF Agreed, edited
<1> QED BY <1>2, <1>3

LEMMA MirrorAgrees ==
    ASSUME NEW p \in Parts, NEW row, NEW new, MatchOf[p] # {}
    PROVE  Agreed(new, Service!MirrorOf(new, row, p), p)
<1> DEFINE mirror == Service!MirrorOf(new, row, p)
<1>1. /\ mirror.owned = Service!OwnedOf(new, p)
      /\ mirror.status = EffectiveStatus(row.status, Service!ShortageOf(new, row, p))
  BY StatusRules DEF Service!MirrorOf
<1> HIDE DEF mirror
<1>2. Service!ShortageOf(new, mirror, p) = Service!ShortageOf(new, row, p)
  BY SameSums
<1> QED BY <1>1, <1>2, StatusRules DEF Agreed, mirror

LEMMA StepAgrees ==
    ASSUME LockInv, StatusReads, RowFields, AllAgreed, [Next]_vars
    PROVE  RowFields' /\ AllAgreed'
<1>0. LockType
  BY DEF LockInv
<1>w. PICK new, rows : new = owned' /\ rows = part'
  OBVIOUS
<1> SUFFICES ASSUME NEW p \in Parts
             PROVE  /\ DOMAIN rows[p] = {"quantity", "owned", "status"}
                    /\ Service!Alone(p) => Agreed(new, rows[p], p)
  BY <1>w DEF RowFields, AllAgreed, Service!Alone
<1>f. DOMAIN part[p] = {"quantity", "owned", "status"}
  BY DEF RowFields
<1>1. CASE Same
  BY <1>1, <1>f, <1>w DEF Same, AllAgreed
<1>2. ASSUME NEW r \in Requests, CommitPartEdit(r)
      PROVE  /\ DOMAIN rows[p] = {"quantity", "owned", "status"}
             /\ Service!Alone(p) => Agreed(new, rows[p], p)
  <2> DEFINE q == ask[r].part
             quantity == ask[r].quantity
  <2>1. /\ q \in Parts /\ quantity \in Quantities
        /\ Service!EditPart(q, quantity)
    BY <1>2, PartEditWrites
  <2> HIDE DEF q, quantity
  <2>2. /\ Service!PartEditAllowed(part[q], q, quantity)
        /\ new = [a \in Positions |-> IF a \in MatchOf[q] THEN quantity ELSE owned[a]]
        /\ rows = [part EXCEPT ![q] = Service!PartEdited(part[q], q, quantity)]
    BY <1>w, <2>1 DEF Service!EditPart
  <2>3. CASE p = q
    <3>1. rows[p] = Service!PartEdited(part[p], p, quantity)
      BY <1>0, <2>2, <2>3 DEF LockType
    <3>2. \A a \in MatchOf[p] : new[a] = quantity
      BY <2>2, <2>3, MatchAssumption
    <3>3. Agreed(new, rows[p], p)
      BY <2>1, <2>2, <2>3, <3>1, <3>2, EditedAgrees
    <3> QED BY <3>1, <3>3 DEF Service!PartEdited
  <2>4. CASE p # q
    <3>1. rows[p] = part[p]
      BY <1>0, <2>2, <2>4 DEF LockType
    <3>2. Service!Alone(p) => \A a \in MatchOf[p] : owned[a] = new[a]
      BY <2>1, <2>2, <2>4, MatchAssumption DEF Service!Alone
    <3> QED BY <1>f, <3>1, <3>2, StaysAgreed DEF AllAgreed
  <2> QED BY <2>3, <2>4
<1>3. ASSUME NEW r \in Requests, CommitPositionEdit(r)
      PROVE  /\ DOMAIN rows[p] = {"quantity", "owned", "status"}
             /\ Service!Alone(p) => Agreed(new, rows[p], p)
  <2> DEFINE a == ask[r].position
             quantity == ask[r].quantity
  <2>1. a \in Positions /\ Service!EditPosition(a, quantity)
    BY <1>3, PositionEditWrites
  <2> HIDE DEF a, quantity
  <2>2. /\ new = [owned EXCEPT ![a] = quantity]
        /\ rows = [q \in Parts |-> IF q \in Service!MirrorsOf(a)
                                   THEN Service!MirrorOf(new, part[q], q) ELSE part[q]]
    BY <1>w, <2>1 DEF Service!EditPosition
  <2>3. CASE a \in MatchOf[p]
    <3>1. rows[p] = Service!MirrorOf(new, part[p], p)
      BY <2>2, <2>3 DEF Service!MirrorsOf
    <3>2. Agreed(new, rows[p], p)
      BY <2>3, <3>1, MirrorAgrees
    <3> QED BY <3>1, <3>2 DEF Service!MirrorOf
  <2>4. CASE a \notin MatchOf[p]
    <3>1. rows[p] = part[p]
      BY <2>2, <2>4 DEF Service!MirrorsOf
    <3>2. \A b \in MatchOf[p] : owned[b] = new[b]
      BY <1>0, <2>2, <2>4, MatchAssumption DEF LockType
    <3> QED BY <1>f, <3>1, <3>2, StaysAgreed DEF AllAgreed
  <2> QED BY <2>3, <2>4
<1>4. ASSUME NEW r \in Requests, CommitStatus(r)
      PROVE  /\ DOMAIN rows[p] = {"quantity", "owned", "status"}
             /\ Service!Alone(p) => Agreed(new, rows[p], p)
  <2> DEFINE q == ask[r].part
             status == ask[r].status
  <2>1. /\ q \in Parts /\ new = owned /\ rows = [part EXCEPT ![q].status = status]
        /\ Service!Alone(q) =>
             StatusIsConsistent(status, Service!ShortageOf(owned, part[q], q))
    BY <1>4, <1>w, StatusWrites
  <2> HIDE DEF q, status
  <2>2. CASE p = q
    <3>1. rows[p] = [part[p] EXCEPT !.status = status]
      BY <1>0, <2>1, <2>2 DEF LockType
    <3>2. /\ DOMAIN rows[p] = {"quantity", "owned", "status"}
          /\ rows[p].quantity = part[p].quantity /\ rows[p].owned = part[p].owned
          /\ rows[p].status = status
      BY <1>f, <3>1
    <3>3. Service!ShortageOf(new, rows[p], p) = Service!ShortageOf(owned, part[p], p)
      BY <2>1, <3>2 DEF Service!ShortageOf
    <3> QED BY <2>1, <2>2, <3>2, <3>3 DEF Agreed, AllAgreed
  <2>3. CASE p # q
    <3>1. rows[p] = part[p]
      BY <1>0, <2>1, <2>3 DEF LockType
    <3> QED BY <1>f, <2>1, <3>1 DEF AllAgreed
  <2> QED BY <2>2, <2>3
<1> QED BY <1>1, <1>2, <1>3, <1>4, StatusReadsStep

\* Whatever commits beside them, a Part that shares no position owns what its
\* positions own, and never shows possession while pieces are missing: the
\* other Parts of the set may share positions or not.
THEOREM RowsAgree == Spec => []CommittedRowsAgree
<1>1. Init => LockInv /\ StatusReads /\ RowFields /\ AllAgreed
  <2> SUFFICES ASSUME Init PROVE LockInv /\ StatusReads /\ RowFields /\ AllAgreed
    OBVIOUS
  <2>1. LockInv /\ StatusReads
    BY LockInvInit DEF Init, StatusReads, Nothing
  <2>2. /\ part \in [Parts -> Service!PartRows]
        /\ \A p \in Parts :
             /\ MatchOf[p] # {} => Service!Agrees(p)
             /\ Service!StatusIsConsistent(part[p].status, Service!ShortageOf(owned, part[p], p))
    BY DEF Init, Service!Init
  <2>3. RowFields
    BY <2>2 DEF RowFields, Service!PartRows
  <2>4. \A p \in Parts : Agreed(owned, part[p], p)
    BY <2>2, StatusRules
    DEF Agreed, Service!Agrees, StatusIsConsistent, Service!StatusIsConsistent
  <2> QED BY <2>1, <2>3, <2>4 DEF AllAgreed
<1>2. LockInv /\ StatusReads /\ RowFields /\ AllAgreed /\ [Next]_vars
        => LockInv' /\ StatusReads' /\ RowFields' /\ AllAgreed'
  BY LockInvStep, StatusReadsStep, StepAgrees
<1> QED BY <1>1, <1>2, AgreedMeansAgree, PTL DEF Spec
=============================================================================
