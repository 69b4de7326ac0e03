------------------------ MODULE BackupRestore_proofs ------------------------
(***************************************************************************)
(* Backups, restores and deletions, for any number of documents, requests  *)
(* and workers: what holds of rows, files and artifacts between the steps  *)
(* that no transaction covers.                                             *)
(***************************************************************************)
EXTENDS BackupRestore, SumTheorems, TLAPS

Trees == Tree \cup {NoTree}

Steps == {"idle", "rows read", "written", "saved", "closed", "staged", "aside", "active",
          "committed", "failing", "recovering"}

ManagerState == [step: Steps, target: Nat, rows: SUBSET Docs, tree: Trees,
                 previous: Trees, swapped: BOOLEAN]
DeleterState == [step: {"idle", "staging", "deleted", "undoing"}, chosen: SUBSET Docs,
                 todo: SUBSET Docs, staged: SUBSET Docs]
Artifact == [status: {"ready", "expired"}, stored: BOOLEAN, rows: SUBSET Docs, tree: Trees]

\* A request that is under way knows where it stands; an idle one knows nothing.
Types ==
    /\ rows \in SUBSET Docs /\ root \in Trees
    /\ backups \in Seq(Artifact)
    /\ manager \in [Managers -> ManagerState]
    /\ deleter \in [Deleters -> DeleterState]
    /\ failures \in Nat /\ overlap \in BOOLEAN /\ died \in BOOLEAN
    /\ linked \in SUBSET Docs /\ stranded \in SUBSET Docs
    /\ \A m \in Managers : At(m, "idle") => manager[m] = IdleManager
    /\ \A d \in Deleters : Busy(d, "idle") => deleter[d] = IdleDeleter

\* What a restore unpacks is listed.
Targets == \A m \in Managers :
    /\ manager[m].target \in 0..Len(backups)
    /\ manager[m].step \in {"staged", "aside", "active"} => manager[m].target # 0

\* m, or d, is the only operation under way.
OnlyManager(m) == /\ \A n \in Managers \ {m} : manager[n] = IdleManager
                  /\ \A d \in Deleters : deleter[d] = IdleDeleter
OnlyDeleter(d) == /\ \A m \in Managers : manager[m] = IdleManager
                  /\ \A e \in Deleters \ {d} : deleter[e] = IdleDeleter

Alone == ~overlap => /\ \A m \in Managers : ~At(m, "idle") => OnlyManager(m)
                     /\ \A d \in Deleters : ~Busy(d, "idle") => OnlyDeleter(d)

BackupInv == Types /\ Targets /\ Alone

-----------------------------------------------------------------------------
LEMMA IdleFields ==
    /\ IdleManager \in ManagerState /\ IdleManager.step = "idle" /\ IdleManager.target = 0
    /\ IdleManager.swapped = FALSE /\ IdleManager.previous = NoTree
    /\ IdleDeleter \in DeleterState /\ IdleDeleter.step = "idle"
BY DEF IdleManager, IdleDeleter, ManagerState, DeleterState, Steps, Trees

LEMMA ManagerFields ==
    ASSUME Types, NEW m \in Managers
    PROVE  /\ manager[m] \in ManagerState
           /\ manager[m].step \in Steps /\ manager[m].target \in Nat
           /\ manager[m].rows \in SUBSET Docs /\ manager[m].tree \in Trees
           /\ manager[m].previous \in Trees /\ manager[m].swapped \in BOOLEAN
BY DEF Types, ManagerState

LEMMA DeleterFields ==
    ASSUME Types, NEW d \in Deleters
    PROVE  /\ deleter[d] \in DeleterState
           /\ deleter[d].step \in {"idle", "staging", "deleted", "undoing"}
           /\ deleter[d].chosen \in SUBSET Docs /\ deleter[d].todo \in SUBSET Docs
           /\ deleter[d].staged \in SUBSET Docs
BY DEF Types, DeleterState

LEMMA ArtifactFields ==
    ASSUME Types, NEW b \in 1..Len(backups)
    PROVE  /\ backups[b] \in Artifact
           /\ backups[b].status \in {"ready", "expired"} /\ backups[b].stored \in BOOLEAN
           /\ backups[b].rows \in SUBSET Docs /\ backups[b].tree \in Trees
<1>1. backups[b] \in Artifact
  BY DEF Types
<1> QED BY <1>1 DEF Artifact

LEMMA TreeFields ==
    /\ \A t \in Trees : t # NoTree => /\ t \in Tree /\ t.files \in SUBSET Docs
                                      /\ t.quarantine \in SUBSET Docs
    /\ \A f, q \in SUBSET Docs : [files |-> f, quarantine |-> q] \in Tree
    /\ EmptyTree \in Tree /\ EmptyTree # NoTree /\ NoTree \notin Tree
    /\ Tree \subseteq Trees /\ NoTree \in Trees
BY NoTreeAssumption DEF Trees, Tree, EmptyTree

\* Artifacts are appended, and lose their file or their place in the list.
LEMMA ArtifactsKept ==
    ASSUME Types, NEW gone, NEW more, more = backups \/ \E m \in Managers : more = Inserted(m)
    PROVE  /\ more \in Seq(Artifact) /\ Len(more) \in Nat
           /\ Len(more) = IF more = backups THEN Len(backups) ELSE Len(backups) + 1
           /\ \A b \in 1..Len(backups) : more[b] = backups[b]
           /\ Unlinked(more, gone) \in Seq(Artifact)
           /\ Marked(Unlinked(more, gone), gone) \in Seq(Artifact)
           /\ Len(Unlinked(more, gone)) = Len(more)
           /\ Len(Marked(Unlinked(more, gone), gone)) = Len(more)
<1>1. /\ more \in Seq(Artifact) /\ Len(more) \in Nat
      /\ Len(more) = IF more = backups THEN Len(backups) ELSE Len(backups) + 1
      /\ \A b \in 1..Len(backups) : more[b] = backups[b]
  <2>0. backups \in Seq(Artifact) /\ Len(backups) \in Nat
    BY DEF Types
  <2>1. CASE more = backups
    BY <2>0, <2>1
  <2>2. ASSUME NEW m \in Managers, more = Inserted(m)
        PROVE  /\ more \in Seq(Artifact) /\ Len(more) = Len(backups) + 1
               /\ \A b \in 1..Len(backups) : more[b] = backups[b]
    <3> DEFINE new == [status |-> "ready", stored |-> TRUE,
                       rows |-> manager[m].rows, tree |-> manager[m].tree]
    <3>1. new \in Artifact
      BY ManagerFields DEF Artifact
    <3> HIDE DEF new
    <3>2. more = Append(backups, new)
      BY <2>2 DEF Inserted, new
    <3> QED BY <2>0, <3>1, <3>2
  <2> QED BY <2>0, <2>1, <2>2
<1>2. ASSUME NEW all \in Seq(Artifact), NEW b \in 1..Len(all)
      PROVE  [all[b] EXCEPT !.stored = FALSE] \in Artifact
             /\ [all[b] EXCEPT !.status = "expired"] \in Artifact
  <2>1. all[b] \in Artifact
    OBVIOUS
  <2> QED BY <2>1 DEF Artifact
<1>3. ASSUME NEW all \in Seq(Artifact)
      PROVE  /\ Unlinked(all, gone) \in Seq(Artifact) /\ Len(Unlinked(all, gone)) = Len(all)
             /\ Marked(all, gone) \in Seq(Artifact) /\ Len(Marked(all, gone)) = Len(all)
  <2>1. DOMAIN all = 1..Len(all) /\ Len(all) \in Nat
    OBVIOUS
  <2>2. /\ Unlinked(all, gone) = [b \in 1..Len(all) |->
              IF b \in gone THEN [all[b] EXCEPT !.stored = FALSE] ELSE all[b]]
        /\ Marked(all, gone) = [b \in 1..Len(all) |->
              IF b \in gone THEN [all[b] EXCEPT !.status = "expired"] ELSE all[b]]
    BY <2>1 DEF Unlinked, Marked
  <2>3. /\ Unlinked(all, gone) \in [1..Len(all) -> Artifact]
        /\ Marked(all, gone) \in [1..Len(all) -> Artifact]
    BY <1>2, <2>2
  <2>4. ASSUME NEW n \in Nat, NEW artifacts \in [1..n -> Artifact]
        PROVE  artifacts \in Seq(Artifact) /\ Len(artifacts) = n
    OBVIOUS
  <2> QED BY <2>1, <2>3, <2>4
<1> QED BY <1>1, <1>3

-----------------------------------------------------------------------------
(***************************************************************************)
(* Types, targets, and one operation at a time.                            *)
(***************************************************************************)

\* A step of staff request m: the others, and every deletion, stay as they are.
ManagerStep(m) ==
    /\ manager' \in [Managers -> ManagerState]
    /\ \A n \in Managers \ {m} : manager'[n] = manager[n]
    /\ deleter' = deleter /\ overlap' = overlap /\ died' = died
    /\ linked' = linked /\ stranded' = stranded

LEMMA ManagerMoves ==
    ASSUME Types, NEW m \in Managers, NEW next \in ManagerState,
           manager' = [manager EXCEPT ![m] = next], deleter' = deleter, UNCHANGED modeVars
    PROVE  ManagerStep(m) /\ manager'[m] = next
BY DEF Types, ManagerStep, modeVars, constantVars

\* The types after a step of a staff request.
LEMMA ManagerTypes ==
    ASSUME Types, Targets, NEW m \in Managers, ManagerStep(m), rows' \in SUBSET Docs,
           root' \in Trees, failures' \in Nat,
           backups' \in Seq(Artifact), Len(backups') >= Len(backups),
           At(m, "idle")' => manager'[m] = IdleManager,
           manager'[m].target \in 0..Len(backups'),
           manager'[m].step \in {"staged", "aside", "active"} => manager'[m].target # 0
    PROVE  Types' /\ Targets'
<1>1. \A n \in Managers : manager'[n] = manager[n] \/ n = m
  BY DEF ManagerStep
<1>2. Len(backups) \in Nat /\ Len(backups') \in Nat
  BY DEF Types
<1>3. Targets'
  BY <1>1, <1>2 DEF Targets
<1>4. (\A n \in Managers : At(n, "idle") => manager[n] = IdleManager)'
  BY <1>1 DEF Types, At
<1>5. (\A d \in Deleters : Busy(d, "idle") => deleter[d] = IdleDeleter)'
  BY DEF Types, Busy, ManagerStep
<1>6. /\ manager' \in [Managers -> ManagerState] /\ deleter' \in [Deleters -> DeleterState]
      /\ overlap' \in BOOLEAN /\ died' \in BOOLEAN
      /\ linked' \in SUBSET Docs /\ stranded' \in SUBSET Docs
  BY DEF Types, ManagerStep
<1> QED BY <1>3, <1>4, <1>5, <1>6 DEF Types

\* The next record of a staff request that changes its step only, or that ends.
LEMMA AdvanceMoves ==
    ASSUME Types, Targets, NEW m \in Managers, NEW step \in Steps, Advance(m, step),
           deleter' = deleter, UNCHANGED modeVars
    PROVE  /\ ManagerStep(m) /\ manager'[m].step = step
           /\ manager'[m].target = manager[m].target
           /\ manager'[m].rows = manager[m].rows /\ manager'[m].tree = manager[m].tree
           /\ manager'[m].previous = manager[m].previous
           /\ manager'[m].swapped = manager[m].swapped
<1> DEFINE next == [manager[m] EXCEPT !.step = step]
<1>1. /\ next \in ManagerState /\ next.step = step /\ next.target = manager[m].target
      /\ next.rows = manager[m].rows /\ next.tree = manager[m].tree
      /\ next.previous = manager[m].previous /\ next.swapped = manager[m].swapped
  BY ManagerFields DEF ManagerState
<1>2. manager' = [manager EXCEPT ![m] = next]
  BY DEF Advance
<1> HIDE DEF next
<1>3. ManagerStep(m) /\ manager'[m] = next
  BY <1>1, <1>2, ManagerMoves
<1> QED BY <1>1, <1>3

LEMMA OpenMoves ==
    ASSUME Types, NEW m \in Managers, OpenGate(m), deleter' = deleter, UNCHANGED modeVars
    PROVE  ManagerStep(m) /\ manager'[m] = IdleManager
BY IdleFields, ManagerMoves DEF OpenGate

LEMMA ArchivedTree ==
    ASSUME root \in Trees
    PROVE  Archived \in Trees
<1>1. CASE root = NoTree
  BY <1>1, TreeFields DEF Archived
<1>2. CASE root # NoTree
  <2>1. root.files \ linked \in SUBSET Docs /\ root.quarantine \in SUBSET Docs
    BY <1>2, TreeFields
  <2>2. [files |-> root.files \ linked, quarantine |-> root.quarantine] \in Trees
    BY <2>1, TreeFields
  <2> QED BY <1>2, <2>2 DEF Archived
<1> QED BY <1>1, <1>2

\* create_backup
LEMMA CreateTypes ==
    ASSUME Types, Targets, NEW m \in Managers, Create(m), UNCHANGED modeVars
    PROVE  Types' /\ Targets' /\ ManagerStep(m)
<1>0. /\ rows \in SUBSET Docs /\ root \in Trees /\ failures \in Nat
      /\ backups \in Seq(Artifact) /\ Len(backups) \in Nat
      /\ manager[m].target \in 0..Len(backups) /\ manager \in [Managers -> ManagerState]
  BY DEF Types, Targets
<1>1. ASSUME NEW target \in 0..Len(backups), ReadRows(m, target)
      PROVE  Types' /\ Targets' /\ ManagerStep(m)
  <2> DEFINE next == [IdleManager EXCEPT !.step = "rows read", !.target = target, !.rows = rows]
  <2>1. next \in ManagerState /\ next.step = "rows read" /\ next.target = target
    <3>1. next \in [step: {"rows read"}, target: {target}, rows: {rows}, tree: {NoTree},
                    previous: {NoTree}, swapped: {FALSE}]
      BY DEF IdleManager
    <3>2. target \in Nat /\ rows \in SUBSET Docs /\ NoTree \in Trees
      BY <1>0, TreeFields
    <3> HIDE DEF next
    <3> QED BY <3>1, <3>2 DEF ManagerState, Steps
  <2>2. manager' = [manager EXCEPT ![m] = next]
    BY <1>1 DEF ReadRows
  <2> HIDE DEF next
  <2>3. ManagerStep(m) /\ manager'[m] = next
    BY <1>1, <2>1, <2>2, ManagerMoves DEF ReadRows
  <2>4. rows' = rows /\ root' = root /\ backups' = backups /\ failures' = failures
    BY <1>1 DEF ReadRows
  <2>5. /\ Len(backups') >= Len(backups) /\ manager'[m].target \in 0..Len(backups')
        /\ manager'[m].step = "rows read"
    <3>1. manager'[m].target = target /\ manager'[m].step = "rows read"
      BY <2>1, <2>3
    <3>2. Len(backups') = Len(backups) /\ Len(backups) \in Nat
      BY <1>0, <2>4
    <3>3. manager'[m].target \in 0..Len(backups)
      BY <3>1
    <3>4. manager'[m].target \in 0..Len(backups')
      BY <3>2, <3>3, Zenon
    <3>5. Len(backups') >= Len(backups)
      BY <3>2
    <3> QED BY <3>1, <3>4, <3>5
  <2>6. ManagerStep(m) /\ rows' \in SUBSET Docs /\ root' \in Trees /\ failures' \in Nat
          /\ backups' \in Seq(Artifact) /\ ~At(m, "idle")'
    BY <1>0, <2>3, <2>4, <2>5 DEF At
  <2> QED BY <2>5, <2>6, ManagerTypes
<1>2. CASE ReadFiles(m)
  <2> DEFINE next == [manager[m] EXCEPT !.step = "written", !.tree = Archived]
  <2>1. next \in ManagerState /\ next.step = "written" /\ next.target = manager[m].target
    BY <1>0, ManagerFields, ArchivedTree DEF ManagerState, Steps
  <2>2. manager' = [manager EXCEPT ![m] = next]
    BY <1>0, <1>2 DEF ReadFiles
  <2> HIDE DEF next
  <2>3. ManagerStep(m) /\ manager'[m] = next
    BY <1>2, <2>1, <2>2, ManagerMoves DEF ReadFiles
  <2>4. rows' = rows /\ root' = root /\ backups' = backups /\ failures' = failures
    BY <1>2 DEF ReadFiles
  <2> QED BY <1>0, <2>1, <2>3, <2>4, ManagerTypes DEF At
<1>3. CASE Register(m)
  <2> DEFINE next == IF manager[m].target = 0 THEN IdleManager
                     ELSE [manager[m] EXCEPT !.step = "saved"]
  <2>1. /\ next \in ManagerState /\ next.target = manager[m].target
        /\ next.step = "idle" => next = IdleManager
        /\ next.step \in {"idle", "saved"}
    BY <1>0, ManagerFields, IdleFields DEF ManagerState, Steps
  <2>2. manager' = [manager EXCEPT ![m] = next]
    BY <1>3 DEF Register
  <2> HIDE DEF next
  <2>3. ManagerStep(m) /\ manager'[m] = next
    BY <1>3, <2>1, <2>2, ManagerMoves DEF Register
  <2>4. /\ rows' = rows /\ root' = root /\ failures' = failures
        /\ backups' = Marked(Unlinked(Inserted(m), Expiring(m)), Expiring(m))
    BY <1>3 DEF Register
  <2>5. backups' \in Seq(Artifact) /\ Len(backups') >= Len(backups)
    BY <1>0, <2>4, ArtifactsKept
  <2>6. manager'[m].target \in 0..Len(backups')
    BY <1>0, <2>1, <2>3, <2>5
  <2> QED BY <1>0, <2>1, <2>3, <2>4, <2>5, <2>6, ManagerTypes DEF At
<1>4. CASE RegisterFails(m)
  <2>1. /\ manager' = [manager EXCEPT ![m] = IdleManager]
        /\ rows' = rows /\ root' = root /\ failures' = failures + 1 /\ deleter' = deleter
        /\ backups' = Unlinked(backups, Expiring(m))
    BY <1>4 DEF RegisterFails, Fault
  <2>2. ManagerStep(m) /\ manager'[m] = IdleManager
    BY <2>1, IdleFields, ManagerMoves
  <2>3. backups' \in Seq(Artifact) /\ Len(backups') = Len(backups)
    BY <2>1, ArtifactsKept
  <2> QED BY <1>0, <2>1, <2>2, <2>3, IdleFields, ManagerTypes
<1> QED BY <1>1, <1>2, <1>3, <1>4 DEF Create

\* restore_backup
LEMMA RestoreTypes ==
    ASSUME Types, Targets, NEW m \in Managers, Restore(m), UNCHANGED modeVars
    PROVE  Types' /\ Targets' /\ ManagerStep(m)
<1>0. /\ rows \in SUBSET Docs /\ root \in Trees /\ failures \in Nat
      /\ backups \in Seq(Artifact) /\ Len(backups) \in Nat
      /\ manager[m].target \in 0..Len(backups) /\ manager \in [Managers -> ManagerState]
      /\ manager[m].previous \in Trees
  BY ManagerFields DEF Types, Targets
<1>1. deleter' = deleter /\ backups' = backups
  BY DEF Restore, CloseGate, Stage, MoveAside, Activate, Commit, Finish, RestoreFails,
     PutAside, PutBack, RecoveryFails
<1>2. At(m, "active") \/ At(m, "aside") =>
        /\ manager[m].target \in 1..Len(backups) /\ Unpacked(m) \in Trees
        /\ backups[manager[m].target].rows \in SUBSET Docs
  BY <1>0, ArtifactFields, TreeFields DEF At, Targets, Unpacked
<1>3. rows' \in SUBSET Docs /\ root' \in Trees /\ failures' \in Nat
  BY <1>0, <1>2, TreeFields DEF Restore, CloseGate, Stage, MoveAside, Activate, Commit, Finish, RestoreFails,
     PutAside, PutBack, RecoveryFails, Fault
<1>4. ASSUME OpenGate(m)
      PROVE  Types' /\ Targets' /\ ManagerStep(m)
  BY <1>0, <1>1, <1>3, <1>4, OpenMoves, IdleFields, ManagerTypes
<1>5. ASSUME NEW step \in Steps \ {"idle"}, Advance(m, step),
             step \in {"staged", "aside", "active"} => manager[m].target # 0
      PROVE  Types' /\ Targets' /\ ManagerStep(m)
  BY <1>0, <1>1, <1>3, <1>5, AdvanceMoves, ManagerTypes DEF At
<1>6. CASE CloseGate(m) \/ Commit(m) \/ RestoreFails(m) \/ PutAside(m)
  BY <1>5, <1>6 DEF CloseGate, Commit, RestoreFails, PutAside, Steps
<1>7. CASE Finish(m) \/ PutBack(m) \/ RecoveryFails(m)
  BY <1>4, <1>7 DEF Finish, PutBack, RecoveryFails
<1>8. CASE Stage(m)
  <2>1. CASE OpenGate(m)
    BY <1>4, <2>1
  <2>2. CASE Advance(m, "staged") /\ manager[m].target \in DOMAIN backups
    <3>1. manager[m].target # 0
      BY <1>0, <2>2
    <3> QED BY <1>5, <2>2, <3>1 DEF Steps
  <2> QED BY <1>8, <2>1, <2>2 DEF Stage
<1>9. CASE MoveAside(m)
  <2> DEFINE next == [manager[m] EXCEPT !.step = "aside", !.previous = root]
  <2>1. /\ next \in ManagerState /\ next.step = "aside" /\ next.target = manager[m].target
        /\ manager[m].target # 0
    BY <1>0, <1>9, ManagerFields DEF ManagerState, Steps, MoveAside, Targets, At
  <2>2. manager' = [manager EXCEPT ![m] = next]
    BY <1>0, <1>9 DEF MoveAside
  <2> HIDE DEF next
  <2>3. ManagerStep(m) /\ manager'[m] = next
    BY <1>1, <2>1, <2>2, ManagerMoves
  <2> QED BY <1>0, <1>1, <1>3, <2>1, <2>3, ManagerTypes DEF At
<1>10. CASE Activate(m)
  <2>1. CASE Advance(m, "failing")
    BY <1>5, <2>1 DEF Steps
  <2>2. CASE manager' = [manager EXCEPT ![m].step = "active", ![m].swapped = TRUE]
    <3> DEFINE next == [manager[m] EXCEPT !.step = "active", !.swapped = TRUE]
    <3>1. /\ next \in ManagerState /\ next.step = "active"
          /\ next.target = manager[m].target /\ manager[m].target # 0
      BY <1>0, <1>10, ManagerFields DEF ManagerState, Steps, Activate, Targets, At
    <3>2. manager' = [manager EXCEPT ![m] = next]
      BY <1>0, <2>2
    <3> HIDE DEF next
    <3>3. ManagerStep(m) /\ manager'[m] = next
      BY <1>1, <3>1, <3>2, ManagerMoves
    <3> QED BY <1>0, <1>1, <1>3, <3>1, <3>3, ManagerTypes DEF At
  <2> QED BY <1>10, <2>1, <2>2 DEF Activate
<1> QED BY <1>6, <1>7, <1>8, <1>9, <1>10 DEF Restore

\* A step of deletion d: the others, and every staff request, stay as they are.
DeleterStep(d) ==
    /\ deleter' \in [Deleters -> DeleterState]
    /\ \A e \in Deleters \ {d} : deleter'[e] = deleter[e]
    /\ manager' = manager /\ backups' = backups /\ overlap' = overlap /\ died' = died
    /\ linked' = linked /\ stranded \subseteq stranded'

LEMMA DeleterMoves ==
    ASSUME Types, Targets, NEW d \in Deleters, NEW next \in DeleterState,
           deleter' = [deleter EXCEPT ![d] = next], manager' = manager, UNCHANGED constantVars,
           stranded \subseteq stranded', stranded' \in SUBSET Docs,
           backups' = backups, rows' \in SUBSET Docs, root' \in Trees, failures' \in Nat,
           next.step = "idle" => next = IdleDeleter
    PROVE  Types' /\ Targets' /\ DeleterStep(d) /\ deleter'[d] = next
<1>1. /\ deleter' \in [Deleters -> DeleterState] /\ deleter'[d] = next
      /\ \A e \in Deleters \ {d} : deleter'[e] = deleter[e]
      /\ overlap' = overlap /\ died' = died /\ linked' = linked
  BY DEF Types, constantVars
<1>2. DeleterStep(d)
  BY <1>1 DEF DeleterStep
<1>3. Targets'
  BY DEF Targets
<1>4. (\A e \in Deleters : Busy(e, "idle") => deleter[e] = IdleDeleter)'
  BY <1>1 DEF Types, Busy
<1>5. (\A m \in Managers : At(m, "idle") => manager[m] = IdleManager)'
  BY DEF Types, At
<1> QED BY <1>1, <1>2, <1>3, <1>4, <1>5 DEF Types

\* What a deletion changes of its own record.
LEMMA DeleteTypes ==
    ASSUME Types, Targets, NEW d \in Deleters, Delete(d), UNCHANGED modeVars
    PROVE  Types' /\ Targets' /\ DeleterStep(d)
<1>0. /\ rows \in SUBSET Docs /\ root \in Trees /\ failures \in Nat /\ MaxFailures \in Nat
      /\ deleter \in [Deleters -> DeleterState] /\ deleter[d] \in DeleterState
      /\ deleter[d].staged \in SUBSET Docs
  BY DeleterFields, ConstantsAssumption DEF Types
<1>1. root # NoTree => root.files \in SUBSET Docs /\ root.quarantine \in SUBSET Docs
  BY <1>0, TreeFields
<1>2. /\ manager' = manager /\ backups' = backups /\ UNCHANGED constantVars
      /\ stranded \subseteq stranded' /\ stranded' \in SUBSET Docs
  <2>1. manager' = manager /\ backups' = backups
    BY DEF Delete, StartDeletion, StageFile, DeleteRows, RowGone, StagingFails,
       TransactionFails, RestoreStaged, DeleteStaged
  <2> QED BY <2>1 DEF Types, modeVars
<1>3. ASSUME NEW chosen \in SUBSET rows, StartDeletion(d, chosen)
      PROVE  Types' /\ Targets' /\ DeleterStep(d)
  <2> DEFINE next == [step |-> "staging", chosen |-> chosen, todo |-> chosen, staged |-> {}]
  <2>1. next \in DeleterState /\ next.step # "idle"
    BY <1>0 DEF DeleterState
  <2>2. /\ deleter' = [deleter EXCEPT ![d] = next]
        /\ rows' = rows /\ root' = root /\ failures' = failures
    BY <1>3 DEF StartDeletion
  <2> HIDE DEF next
  <2> QED BY <1>0, <1>2, <2>1, <2>2, DeleterMoves
<1>4. ASSUME NEW doc \in Docs, StageFile(d, doc)
      PROVE  Types' /\ Targets' /\ DeleterStep(d)
  <2> DEFINE next == [deleter[d] EXCEPT !.todo = @ \ {doc}]
             moved == [deleter[d] EXCEPT !.todo = @ \ {doc}, !.staged = @ \cup {doc}]
  <2>1. /\ next \in DeleterState /\ next.step # "idle"
        /\ moved \in DeleterState /\ moved.step # "idle"
    BY <1>0, <1>4 DEF DeleterState, StageFile, Busy
  <2>2. /\ deleter' = [deleter EXCEPT ![d] = next] \/ deleter' = [deleter EXCEPT ![d] = moved]
        /\ rows' = rows /\ failures' = failures
    BY <1>0, <1>4 DEF StageFile
  <2>3. root' \in Trees
    BY <1>0, <1>1, <1>4, TreeFields DEF StageFile, InPlace
  <2> HIDE DEF next, moved
  <2>4. ASSUME NEW rec \in {next, moved}, deleter' = [deleter EXCEPT ![d] = rec]
        PROVE  Types' /\ Targets' /\ DeleterStep(d)
    BY <1>0, <1>2, <2>1, <2>2, <2>3, <2>4, DeleterMoves
  <2> QED BY <2>2, <2>4
<1>5. ASSUME NEW step \in {"deleted", "undoing"},
             deleter' = [deleter EXCEPT ![d].step = step],
             rows' \in SUBSET Docs, root' = root, failures' \in Nat
      PROVE  Types' /\ Targets' /\ DeleterStep(d)
  <2> DEFINE next == [deleter[d] EXCEPT !.step = step]
  <2>1. next \in DeleterState /\ next.step # "idle"
    BY <1>0 DEF DeleterState
  <2>2. deleter' = [deleter EXCEPT ![d] = next]
    BY <1>5
  <2> HIDE DEF next
  <2> QED BY <1>0, <1>2, <1>5, <2>1, <2>2, DeleterMoves
<1>6. CASE DeleteRows(d) \/ RowGone(d) \/ StagingFails(d) \/ TransactionFails(d)
  <2>1. rows' \in SUBSET Docs /\ root' = root /\ failures' \in Nat
    BY <1>0, <1>6 DEF DeleteRows, RowGone, StagingFails, TransactionFails, Fault
  <2> QED BY <1>5, <1>6, <2>1 DEF DeleteRows, RowGone, StagingFails, TransactionFails
<1>7. ASSUME deleter' = [deleter EXCEPT ![d] = IdleDeleter], rows' = rows,
             failures' \in Nat, root' \in Trees
      PROVE  Types' /\ Targets' /\ DeleterStep(d)
  BY <1>0, <1>2, <1>7, IdleFields, DeleterMoves
<1>8. ASSUME NEW stuck \in SUBSET deleter[d].staged, RestoreStaged(d, stuck)
      PROVE  Types' /\ Targets' /\ DeleterStep(d)
  <2>1. root' \in Trees
    <3>1. CASE root = NoTree
      BY <1>8, <3>1, TreeFields DEF RestoreStaged
    <3>2. CASE root # NoTree
      <4>1. PICK f, q \in SUBSET Docs : root' = [files |-> f, quarantine |-> q]
        BY <1>0, <1>1, <1>8, <3>2 DEF RestoreStaged, InQuarantine
      <4> QED BY <4>1, TreeFields
    <3> QED BY <3>1, <3>2
  <2> QED BY <1>0, <1>7, <1>8, <2>1 DEF RestoreStaged, Fault
<1>9. ASSUME NEW kept \in SUBSET deleter[d].staged, DeleteStaged(d, kept)
      PROVE  Types' /\ Targets' /\ DeleterStep(d)
  <2>1. root' \in Trees
    <3>1. CASE root = NoTree
      BY <1>9, <3>1, TreeFields DEF DeleteStaged
    <3>2. CASE root # NoTree
      <4>1. root' = [root EXCEPT !.quarantine = @ \ (deleter[d].staged \ kept)]
        BY <1>9, <3>2 DEF DeleteStaged
      <4>2. root \in Tree
        BY <1>0, <3>2, TreeFields
      <4>3. root' \in Tree
        BY <4>1, <4>2 DEF Tree
      <4> QED BY <4>3, TreeFields
    <3> QED BY <3>1, <3>2
  <2> QED BY <1>0, <1>7, <1>9, <2>1 DEF DeleteStaged, Fault
<1> QED BY <1>3, <1>4, <1>6, <1>8, <1>9 DEF Delete

\* A refused path ends the deletion.
LEMMA RefusedTypes ==
    ASSUME Types, Targets, NEW d \in Deleters, NEW doc \in Docs, PathRefused(d, doc)
    PROVE  Types' /\ Targets' /\ DeleterStep(d) /\ deleter'[d] = IdleDeleter
<1>1. /\ deleter' = [deleter EXCEPT ![d] = IdleDeleter] /\ manager' = manager
      /\ backups' = backups /\ rows' = rows /\ root' = root /\ failures' = failures
      /\ UNCHANGED constantVars /\ stranded' = stranded \cup deleter[d].staged
  BY DEF PathRefused
<1>2. /\ rows' \in SUBSET Docs /\ root' \in Trees /\ failures' \in Nat
      /\ stranded \subseteq stranded' /\ stranded' \in SUBSET Docs
  BY <1>1, DeleterFields DEF Types
<1> QED BY <1>1, <1>2, IdleFields, DeleterMoves

\* A process dies: its requests are forgotten, rows and files stay.
Forgets ==
    /\ rows' = rows /\ root' = root /\ failures' = failures /\ overlap' = overlap
    /\ died' = TRUE /\ linked' = linked /\ stranded' = stranded
    /\ backups' = backups \/ (\E m \in Managers : /\ At(m, "written")
                                                  /\ backups' = Unlinked(backups, Expiring(m)))
    /\ manager' \in [Managers -> ManagerState]
    /\ deleter' \in [Deleters -> DeleterState]
    /\ \A m \in Managers : manager'[m] \in {manager[m], IdleManager}
    /\ \A d \in Deleters : deleter'[d] \in {deleter[d], IdleDeleter}

LEMMA DeathForgets ==
    ASSUME Types, (\E w \in Range(WorkerOf) : WorkerDies(w)) \/ (\E d \in Commands : CommandDies(d))
    PROVE  Forgets
<1>0. /\ manager \in [Managers -> ManagerState] /\ deleter \in [Deleters -> DeleterState]
      /\ IdleManager \in ManagerState /\ IdleDeleter \in DeleterState
  BY IdleFields DEF Types
<1>1. ASSUME NEW w, WorkerDies(w)
      PROVE  Forgets
  <2> DEFINE killed == {m \in Managers : WorkerOf[m] = w}
             stopped == {d \in Accounts : WorkerOf[d] = w}
  <2>1. /\ died' = TRUE /\ backups' \in LeftUnlinked(killed)
        /\ manager' = [m \in Managers |-> IF m \in killed THEN IdleManager ELSE manager[m]]
        /\ deleter' = [d \in Deleters |-> IF d \in stopped THEN IdleDeleter ELSE deleter[d]]
        /\ rows' = rows /\ root' = root /\ failures' = failures /\ overlap' = overlap
        /\ linked' = linked /\ stranded' = stranded
    BY <1>1 DEF WorkerDies
  <2>2. backups' = backups \/ (\E m \in Managers : /\ At(m, "written")
                                                   /\ backups' = Unlinked(backups, Expiring(m)))
    BY <2>1 DEF LeftUnlinked
  <2> HIDE DEF killed, stopped
  <2> QED BY <1>0, <2>1, <2>2 DEF Forgets
<1>2. ASSUME NEW d \in Commands, CommandDies(d)
      PROVE  Forgets
  BY <1>0, <1>2 DEF CommandDies, Forgets, Deleters
<1> QED BY <1>1, <1>2

LEMMA DeathTypes ==
    ASSUME Types, Targets, Forgets
    PROVE  Types' /\ Targets' /\ Len(backups') = Len(backups)
<1>1. backups' \in Seq(Artifact) /\ Len(backups') = Len(backups) /\ Len(backups) \in Nat
  BY ArtifactsKept DEF Types, Forgets
<1>2. Targets'
  <2> SUFFICES ASSUME NEW m \in Managers
               PROVE  /\ manager'[m].target \in 0..Len(backups')
                      /\ manager'[m].step \in {"staged", "aside", "active"} =>
                           manager'[m].target # 0
    BY DEF Targets
  <2> QED BY <1>1, IdleFields DEF Targets, Forgets
<1>3. (\A m \in Managers : At(m, "idle") => manager[m] = IdleManager)'
  BY DEF Types, At, Forgets
<1>4. (\A d \in Deleters : Busy(d, "idle") => deleter[d] = IdleDeleter)'
  BY DEF Types, Busy, Forgets
<1> QED BY <1>1, <1>2, <1>3, <1>4 DEF Types, Forgets

\* Where operations come one at a time, whoever moves is alone.
LEMMA ManagerAlone ==
    ASSUME BackupInv, ~overlap, NEW m \in Managers, Create(m) \/ Restore(m)
    PROVE  OnlyManager(m)
<1>1. CASE ~At(m, "idle")
  BY <1>1 DEF BackupInv, Alone
<1>2. CASE At(m, "idle")
  <2>1. Quiet
    BY <1>2 DEF Create, Restore, ReadRows, ReadFiles, Register, RegisterFails, CloseGate, Stage,
       MoveAside, Activate, Commit, Finish, RestoreFails, PutAside, PutBack, RecoveryFails,
       At, Starts
  <2> QED BY <2>1 DEF Quiet, OnlyManager
<1> QED BY <1>1, <1>2

LEMMA DeleterAlone ==
    ASSUME BackupInv, ~overlap, NEW d \in Deleters,
           Delete(d) \/ \E doc \in Docs : PathRefused(d, doc)
    PROVE  OnlyDeleter(d)
<1>1. CASE ~Busy(d, "idle")
  BY <1>1 DEF BackupInv, Alone
<1>2. CASE Busy(d, "idle")
  <2>1. Quiet
    BY <1>2 DEF Delete, StartDeletion, StageFile, DeleteRows, RowGone, StagingFails,
       TransactionFails, RestoreStaged, DeleteStaged, PathRefused, Busy, Starts
  <2> QED BY <2>1 DEF Quiet, OnlyDeleter
<1> QED BY <1>1, <1>2

LEMMA BackupInvStep == BackupInv /\ [Next]_vars => BackupInv'
<1> SUFFICES ASSUME BackupInv, [Next]_vars PROVE BackupInv'
  OBVIOUS
<1>0. Types /\ Targets /\ Alone
  BY DEF BackupInv
<1>1. ASSUME NEW m \in Managers, Create(m) \/ Restore(m), UNCHANGED modeVars
      PROVE  BackupInv'
  <2>1. Types' /\ Targets' /\ ManagerStep(m)
    BY <1>0, <1>1, CreateTypes, RestoreTypes
  <2>2. ~overlap => OnlyManager(m)
    BY <1>1, ManagerAlone
  <2>3. Alone'
    BY <2>1, <2>2, IdleFields DEF Alone, OnlyManager, OnlyDeleter, ManagerStep, At, Busy
  <2> QED BY <2>1, <2>3 DEF BackupInv
<1>2. ASSUME NEW d \in Deleters,
             (Delete(d) /\ UNCHANGED modeVars) \/ \E doc \in Docs : PathRefused(d, doc)
      PROVE  BackupInv'
  <2>1. Types' /\ Targets' /\ DeleterStep(d)
    BY <1>0, <1>2, DeleteTypes, RefusedTypes
  <2>2. ~overlap => OnlyDeleter(d)
    BY <1>2, DeleterAlone
  <2>3. Alone'
    BY <2>1, <2>2, IdleFields DEF Alone, OnlyManager, OnlyDeleter, DeleterStep, At, Busy
  <2> QED BY <2>1, <2>3 DEF BackupInv
<1>3. ASSUME Forgets
      PROVE  BackupInv'
  <2>1. Types' /\ Targets'
    BY <1>0, <1>3, DeathTypes
  <2>2. Alone'
    BY <1>0, <1>3, IdleFields DEF Alone, Forgets, OnlyManager, OnlyDeleter, At, Busy
  <2> QED BY <2>1, <2>2 DEF BackupInv
<1>4. CASE UNCHANGED vars
  BY <1>0, <1>4 DEF vars, modeVars, constantVars, BackupInv, Types, Targets, Alone, OnlyManager,
     OnlyDeleter, At, Busy
<1> QED BY <1>0, <1>1, <1>2, <1>3, <1>4, DeathForgets DEF Next

LEMMA BackupInvInit == Init => BackupInv
<1> SUFFICES ASSUME Init PROVE BackupInv
  OBVIOUS
<1>1. PICK all \in SUBSET Docs :
        /\ backups = <<[status |-> "ready", stored |-> TRUE, rows |-> all,
                        tree |-> [files |-> all \ linked, quarantine |-> {}]]>>
        /\ rows \in SUBSET all
  BY DEF Init
<1>2. /\ manager = [m \in Managers |-> IdleManager] /\ deleter = [d \in Deleters |-> IdleDeleter]
      /\ root = [files |-> rows, quarantine |-> {}] /\ failures = 0 /\ died = FALSE
      /\ overlap \in BOOLEAN /\ linked \in SUBSET Docs /\ stranded = {}
  BY ConstantsAssumption DEF Init
<1>3. [files |-> all \ linked, quarantine |-> {}] \in Trees /\ root \in Trees /\ rows \in SUBSET Docs
  BY <1>1, <1>2, TreeFields
<1>4. backups \in Seq(Artifact) /\ Len(backups) = 1
  BY <1>1, <1>3 DEF Artifact
<1>5. Types /\ Targets
  <2>1. Types
    BY <1>2, <1>3, <1>4, IdleFields DEF Types
  <2>2. 0 \in 0..Len(backups)
    BY <1>4
  <2>3. \A m \in Managers : manager[m].target = 0 /\ manager[m].step = "idle"
    BY <1>2, IdleFields
  <2>4. Targets
    BY <2>2, <2>3 DEF Targets
  <2> QED BY <2>1, <2>4
<1>6. Alone
  BY <1>2, IdleFields DEF Alone, At, Busy
<1> QED BY <1>5, <1>6 DEF BackupInv

-----------------------------------------------------------------------------
(***************************************************************************)
(* A restore brings back rows and files as they were.                      *)
(***************************************************************************)

\* Nobody touches the tree between its activation and the commit.
TreeActivated == \A m \in Managers : ~overlap /\ At(m, "active") => root = Unpacked(m)

LEMMA TreeActivatedStep ==
    BackupInv /\ BackupInv' /\ TreeActivated /\ [Next]_vars => TreeActivated'
<1> SUFFICES ASSUME BackupInv, BackupInv', TreeActivated, [Next]_vars,
                    NEW m \in Managers, ~overlap', At(m, "active")'
             PROVE  root' = Unpacked(m)'
  BY DEF TreeActivated
<1>0. Types /\ Targets
  BY DEF BackupInv
<1>1. ASSUME NEW n \in Managers, Create(n) \/ Restore(n), UNCHANGED modeVars
      PROVE  root' = Unpacked(m)'
  <2>1. ManagerStep(n)
    BY <1>0, <1>1, CreateTypes, RestoreTypes
  <2>2. ~overlap
    BY <2>1 DEF ManagerStep
  <2>3. n = m
    BY <1>1, <2>1, <2>2, ManagerAlone, IdleFields DEF OnlyManager, ManagerStep, At
  <2>4. ~Create(m)
    <3>1. ASSUME Create(m), ~Register(m)
          PROVE  manager'[m].step \in {"rows read", "written", "idle"}
      <4>1. CASE \E target \in 0..Len(backups) : ReadRows(m, target)
        BY <1>0, <4>1 DEF ReadRows, Types
      <4>2. CASE ReadFiles(m)
        BY <1>0, <4>2 DEF ReadFiles, Types, ManagerState
      <4> QED BY <1>0, <3>1, <4>1, <4>2, IdleFields DEF Create, RegisterFails, Types
    <3>2. ASSUME Register(m)
          PROVE  manager'[m].step \in {"saved", "idle"}
      BY <1>0, <3>2, ManagerFields, IdleFields DEF Register, Types, ManagerState
    <3> QED BY <3>1, <3>2 DEF At
  <2>5. ASSUME NEW step, Advance(m, step) PROVE step = "active"
    BY <1>0, <2>5 DEF Advance, At, Types, ManagerState
  <2>6. ~OpenGate(m)
    BY <1>0, IdleFields DEF OpenGate, At, Types
  <2>7. ~MoveAside(m)
    BY <1>0 DEF MoveAside, At, Types, ManagerState
  <2>8. Activate(m)
    BY <1>1, <2>3, <2>4, <2>5, <2>6, <2>7 DEF Restore, CloseGate, Stage, Commit, Finish,
       RestoreFails, PutAside, PutBack, RecoveryFails
  <2>9. /\ backups' = backups /\ root' = Unpacked(m)
        /\ manager' = [manager EXCEPT ![m].step = "active", ![m].swapped = TRUE]
    BY <2>5, <2>8 DEF Activate
  <2>10. manager'[m].target = manager[m].target
    BY <1>0, <2>9 DEF Types, ManagerState
  <2> QED BY <2>9, <2>10 DEF Unpacked
<1>2. ASSUME NEW d \in Deleters,
             (Delete(d) /\ UNCHANGED modeVars) \/ \E doc \in Docs : PathRefused(d, doc)
      PROVE  FALSE
  <2>1. DeleterStep(d)
    BY <1>0, <1>2, DeleteTypes, RefusedTypes
  <2> QED BY <1>2, <2>1, DeleterAlone, IdleFields DEF OnlyDeleter, DeleterStep, At
<1>3. ASSUME Forgets
      PROVE  root' = Unpacked(m)'
  <2>1. manager'[m] = manager[m] /\ At(m, "active") /\ ~overlap /\ root' = root
    BY <1>3, IdleFields DEF Forgets, At
  <2>2. OnlyManager(m)
    BY <2>1 DEF BackupInv, Alone, At
  <2>3. \A n \in Managers : ~At(n, "written")
    BY <2>1, <2>2, IdleFields DEF OnlyManager, At
  <2>4. backups' = backups
    BY <1>3, <2>3 DEF Forgets
  <2> QED BY <2>1, <2>4 DEF TreeActivated, Unpacked
<1>4. CASE UNCHANGED vars
  BY <1>4 DEF vars, modeVars, constantVars, TreeActivated, Unpacked, At
<1> QED BY <1>0, <1>1, <1>2, <1>3, <1>4, DeathForgets DEF Next

\* What RestoredExactly says of a step.
RestoredStep ==
    \A m \in Managers :
        (~overlap /\ At(m, "active") /\ manager'[m].step = "committed")
           => rows' = backups[manager[m].target].rows /\ root' = Unpacked(m)

LEMMA CommitsRestore == BackupInv /\ TreeActivated /\ [Next]_vars => RestoredStep
<1> SUFFICES ASSUME BackupInv, TreeActivated, [Next]_vars, NEW m \in Managers,
                    ~overlap, At(m, "active"), manager'[m].step = "committed"
             PROVE  rows' = backups[manager[m].target].rows /\ root' = Unpacked(m)
  BY DEF RestoredStep
<1>0. Types /\ Targets /\ root = Unpacked(m)
  BY DEF BackupInv, TreeActivated
<1>1. ASSUME NEW n \in Managers, Create(n) \/ Restore(n), UNCHANGED modeVars
      PROVE  rows' = backups[manager[m].target].rows /\ root' = root
  <2>1. ManagerStep(n)
    BY <1>0, <1>1, CreateTypes, RestoreTypes
  <2>2. n = m
    BY <2>1 DEF ManagerStep, At
  <2>3. ~Create(m)
    BY DEF Create, ReadRows, ReadFiles, Register, RegisterFails, At
  <2>4. ~RestoreFails(m)
    BY <1>0 DEF RestoreFails, Advance, Types, ManagerState
  <2>5. Commit(m)
    BY <1>1, <2>2, <2>3, <2>4 DEF Restore, CloseGate, Stage, MoveAside, Activate, Finish,
       PutAside, PutBack, RecoveryFails, At
  <2> QED BY <2>5 DEF Commit
<1>2. ASSUME NEW d \in Deleters,
             (Delete(d) /\ UNCHANGED modeVars) \/ \E doc \in Docs : PathRefused(d, doc)
      PROVE  FALSE
  <2>1. DeleterStep(d)
    BY <1>0, <1>2, DeleteTypes, RefusedTypes
  <2> QED BY <2>1 DEF DeleterStep, At
<1>3. ASSUME Forgets
      PROVE  FALSE
  BY <1>3, IdleFields DEF Forgets, At
<1>4. CASE UNCHANGED vars
  BY <1>4 DEF vars, At
<1> QED BY <1>0, <1>1, <1>2, <1>3, <1>4, DeathForgets DEF Next

\* One operation at a time, a restore commits with the rows and the files of
\* its backup, whatever steps failed and whatever a killed process has left of
\* the private root before.
THEOREM RestoreIsExact == Spec => RestoredExactly
<1>1. Init => TreeActivated
  BY IdleFields DEF Init, TreeActivated, At
<1>2. BackupInv /\ TreeActivated /\ [Next]_vars =>
        [\A m \in Managers :
         (~overlap /\ At(m, "active") /\ manager'[m].step = "committed")
            => /\ rows' = backups[manager[m].target].rows
               /\ root' = Unpacked(m)]_vars
  BY CommitsRestore DEF RestoredStep
<1> QED
  BY <1>1, <1>2, BackupInvInit, BackupInvStep, TreeActivatedStep, PTL
     DEF Spec, RestoredExactly

-----------------------------------------------------------------------------
(***************************************************************************)
(* Rows and files stay in step: where every operation stands in between.   *)
(***************************************************************************)

\* The tree holds the files of these documents, but for some that are given up,
\* and no others; until a step has failed, its quarantine holds only what refused
\* deletions have left.
Holds(tree, docs) ==
    /\ tree \in Tree /\ tree.files \subseteq docs /\ docs \ GivenUp \subseteq tree.files
    /\ failures = 0 => tree.quarantine \subseteq stranded

Whole(tree) == Holds(tree, rows)

\* Before the swap, between its two halves, and after it.
ManagerKnows(m) ==
    LET me == manager[m]
    IN  /\ me.step \in {"rows read", "written", "saved", "closed", "staged"} =>
             Whole(root) /\ ~me.swapped /\ me.previous = NoTree
        /\ me.step \in {"rows read", "written"} => me.rows = rows
        /\ me.step = "written" => me.tree = Archived
        /\ me.step = "aside" => root = NoTree /\ Whole(me.previous) /\ ~me.swapped
        /\ me.step = "active" => root = Unpacked(m) /\ Whole(me.previous) /\ me.swapped
        /\ me.step = "committed" => Whole(root)
        /\ me.step = "failing" =>
             /\ failures = 1
             /\ \/ Whole(root) /\ ~me.swapped /\ me.previous = NoTree
                \/ root = NoTree /\ Whole(me.previous) /\ ~me.swapped
                \/ root # NoTree /\ Whole(me.previous) /\ me.swapped
        /\ me.step = "recovering" =>
             /\ failures = 1
             /\ \/ Whole(root) /\ me.previous = NoTree
                \/ root = NoTree /\ Whole(me.previous)

\* Files leave their place one by one, and wait in the quarantine; those that are
\* given up may not be in place at all.
DeleterKnows(d) ==
    LET me == deleter[d]
    IN  /\ me.step # "idle" =>
             /\ root \in Tree /\ me.staged \subseteq root.quarantine
             /\ failures = 0 => root.quarantine \subseteq me.staged \cup stranded
        /\ me.step = "staging" =>
             /\ me.chosen \subseteq rows /\ me.todo \subseteq me.chosen
             /\ me.staged \subseteq me.chosen \ me.todo
             /\ root.files \subseteq rows \ (me.chosen \ me.todo)
             /\ d \in Accounts => me.chosen = rows
        /\ me.step \in {"staging", "undoing"} =>
             /\ me.staged \subseteq rows /\ root.files \subseteq rows
             /\ rows \ (GivenUp \cup me.staged) \subseteq root.files
        /\ me.step = "undoing" => failures = 1
        /\ me.step = "deleted" =>
             root.files \subseteq rows /\ rows \ GivenUp \subseteq root.files

BackupsWhole == \A b \in 1..Len(backups) : Holds(backups[b].tree, backups[b].rows)

InStep ==
    Sheltered => /\ \A m \in Managers : ManagerKnows(m)
                 /\ \A d \in Deleters : DeleterKnows(d)
                 /\ Quiet => Whole(root)
                 /\ BackupsWhole

\* No document that was given up is taken back.
Monotone == /\ failures' \in Nat /\ failures' >= failures
            /\ linked' = linked /\ stranded \subseteq stranded'

LEMMA HoldsLater ==
    ASSUME Types, Monotone
    PROVE  \A tree, docs : Holds(tree, docs) =>
             /\ tree \in Tree /\ tree.files \subseteq docs
             /\ docs \ GivenUp' \subseteq tree.files
             /\ failures' = 0 => tree.quarantine \subseteq stranded'
<1>1. failures' = 0 => failures = 0
  BY DEF Types, Monotone
<1> QED BY <1>1 DEF Monotone, Holds, GivenUp

\* Artifacts that are kept stay whole.
LEMMA KeptWhole ==
    ASSUME Types, Monotone, BackupsWhole,
           Len(backups') = Len(backups),
           \A b \in 1..Len(backups) : backups'[b].tree = backups[b].tree
                                        /\ backups'[b].rows = backups[b].rows
    PROVE  BackupsWhole'
BY HoldsLater DEF BackupsWhole, Holds

\* Retention changes neither the rows nor the tree of an artifact.
Retains(all, gone) == \A b \in 1..Len(all) :
    /\ Unlinked(all, gone)[b].tree = all[b].tree
    /\ Unlinked(all, gone)[b].rows = all[b].rows
    /\ Unlinked(all, gone)[b].status = all[b].status
    /\ Unlinked(all, gone)[b].stored = IF b \in gone THEN FALSE ELSE all[b].stored
    /\ Marked(Unlinked(all, gone), gone)[b].tree = all[b].tree
    /\ Marked(Unlinked(all, gone), gone)[b].rows = all[b].rows
    /\ Marked(Unlinked(all, gone), gone)[b].status =
         IF b \in gone THEN "expired" ELSE all[b].status
    /\ Marked(Unlinked(all, gone), gone)[b].stored =
         IF b \in gone THEN FALSE ELSE all[b].stored

LEMMA RetentionKeeps ==
    ASSUME NEW all \in Seq(Artifact), NEW gone
    PROVE  Retains(all, gone)
<1> SUFFICES ASSUME NEW b \in 1..Len(all)
             PROVE  Retains(all, gone)!(b)
  BY DEF Retains
<1>1. DOMAIN all = 1..Len(all) /\ all[b] \in Artifact
  OBVIOUS
<1> DEFINE less == [all[b] EXCEPT !.stored = FALSE]
           gone2 == [less EXCEPT !.status = "expired"]
<1>2. /\ Unlinked(all, gone)[b] = IF b \in gone THEN less ELSE all[b]
      /\ DOMAIN Unlinked(all, gone) = DOMAIN all
  BY <1>1 DEF Unlinked
<1>3. Marked(Unlinked(all, gone), gone)[b] = IF b \in gone THEN gone2 ELSE all[b]
  BY <1>1, <1>2 DEF Marked
<1>4. /\ less.tree = all[b].tree /\ less.rows = all[b].rows /\ less.stored = FALSE
      /\ less.status = all[b].status
      /\ gone2.tree = all[b].tree /\ gone2.rows = all[b].rows /\ gone2.stored = FALSE
      /\ gone2.status = "expired"
  BY <1>1 DEF Artifact
<1> HIDE DEF less, gone2
<1> QED BY <1>2, <1>3, <1>4

\* After a step of the only operation under way, only its own record counts.
LEMMA ManagerInStep ==
    ASSUME BackupInv, NEW m \in Managers, OnlyManager(m), ManagerStep(m),
           ManagerKnows(m)', At(m, "idle")' => Whole(root)', BackupsWhole'
    PROVE  InStep'
<1>1. \A n \in Managers \ {m} : manager'[n] = IdleManager
  BY DEF OnlyManager, ManagerStep
<1>2. \A d \in Deleters : deleter'[d] = IdleDeleter
  BY DEF OnlyManager, ManagerStep
<1>3. ASSUME NEW n \in Managers \ {m} PROVE ManagerKnows(n)'
  BY <1>1, IdleFields DEF ManagerKnows
<1>4. ASSUME NEW d \in Deleters PROVE DeleterKnows(d)'
  BY <1>2, IdleFields DEF DeleterKnows
<1>5. Quiet' => Whole(root)'
  BY IdleFields DEF Quiet, At
<1> QED BY <1>3, <1>4, <1>5 DEF InStep

LEMMA DeleterInStep ==
    ASSUME BackupInv, NEW d \in Deleters, OnlyDeleter(d), DeleterStep(d),
           DeleterKnows(d)', Busy(d, "idle")' => Whole(root)', BackupsWhole'
    PROVE  InStep'
<1>1. \A m \in Managers : manager'[m] = IdleManager
  BY DEF OnlyDeleter, DeleterStep
<1>2. \A e \in Deleters \ {d} : deleter'[e] = IdleDeleter
  BY DEF OnlyDeleter, DeleterStep
<1>3. ASSUME NEW m \in Managers PROVE ManagerKnows(m)'
  BY <1>1, IdleFields DEF ManagerKnows
<1>4. ASSUME NEW e \in Deleters \ {d} PROVE DeleterKnows(e)'
  BY <1>2, IdleFields DEF DeleterKnows
<1>5. Quiet' => Whole(root)'
  BY IdleFields DEF Quiet, Busy
<1> QED BY <1>3, <1>4, <1>5 DEF InStep

LEMMA WholeLater ==
    ASSUME Types, Monotone, rows' = rows
    PROVE  \A tree : Whole(tree) => Whole(tree)'
BY HoldsLater DEF Whole, Holds

\* What a step of m starts from.
LEMMA ManagerStarts ==
    ASSUME BackupInv, InStep, Sheltered, NEW m \in Managers, Create(m) \/ Restore(m)
    PROVE  /\ OnlyManager(m) /\ ManagerKnows(m) /\ BackupsWhole
           /\ At(m, "idle") => Whole(root)
<1>1. OnlyManager(m)
  BY ManagerAlone DEF Sheltered
<1>2. At(m, "idle") => Quiet
  BY <1>1 DEF OnlyManager, Quiet, BackupInv, Types
<1> QED BY <1>1, <1>2 DEF InStep

\* What a backup archives of a whole tree: links are given up.
LEMMA ArchivedWhole ==
    ASSUME Whole(root)
    PROVE  Holds(Archived, rows)
<1>1. /\ root \in Tree /\ root # NoTree
      /\ root.files \in SUBSET Docs /\ root.quarantine \in SUBSET Docs
  BY NoTreeAssumption DEF Whole, Holds, Tree
<1> DEFINE tree == [files |-> root.files \ linked, quarantine |-> root.quarantine]
<1>2. /\ tree \in Tree /\ tree.files = root.files \ linked
      /\ tree.quarantine = root.quarantine
  BY <1>1, TreeFields
<1>3. Archived = tree
  BY <1>1 DEF Archived
<1> HIDE DEF tree
<1> QED BY <1>2, <1>3 DEF Whole, Holds, GivenUp

LEMMA CreateInStep ==
    ASSUME BackupInv, InStep, Sheltered, NEW m \in Managers, Create(m), UNCHANGED modeVars
    PROVE  InStep'
<1>0. Types /\ Targets /\ OnlyManager(m) /\ ManagerKnows(m) /\ BackupsWhole /\ ManagerStep(m)
  BY ManagerStarts, CreateTypes DEF BackupInv
<1>1. /\ failures \in Nat /\ backups \in Seq(Artifact) /\ Len(backups) \in Nat
      /\ manager \in [Managers -> ManagerState] /\ manager[m] \in ManagerState
      /\ failures' \in {failures, failures + 1}
  <2>1. failures' \in {failures, failures + 1}
    BY DEF Create, ReadRows, ReadFiles, Register, RegisterFails, Fault
  <2> QED BY <1>0, <2>1, ManagerFields DEF Types
<1>m. Monotone
  <2>1. failures' \in Nat /\ failures' >= failures
    BY <1>1
  <2> QED BY <1>0, <2>1 DEF Monotone, ManagerStep
<1>2. ASSUME NEW target \in 0..Len(backups), ReadRows(m, target)
      PROVE  InStep'
  <2>1. /\ rows' = rows /\ root' = root /\ backups' = backups /\ failures' = failures
        /\ Whole(root)
    BY <1>2, ManagerStarts DEF ReadRows
  <2>2. /\ manager'[m].step = "rows read" /\ manager'[m].rows = rows
        /\ ~manager'[m].swapped /\ manager'[m].previous = NoTree
    BY <1>1, <1>2 DEF ReadRows, IdleManager
  <2>3. Whole(root)' /\ BackupsWhole'
    BY <1>0, <1>1, <1>m, <2>1, WholeLater, KeptWhole
  <2>4. ManagerKnows(m)'
    BY <2>1, <2>2, <2>3 DEF ManagerKnows
  <2> QED BY <1>0, <2>2, <2>3, <2>4, ManagerInStep DEF At
<1>3. CASE ReadFiles(m)
  <2>1. /\ rows' = rows /\ root' = root /\ backups' = backups /\ failures' = failures
        /\ manager[m].step = "rows read"
    BY <1>3 DEF ReadFiles, At
  <2>2. /\ Whole(root) /\ manager[m].rows = rows
        /\ ~manager[m].swapped /\ manager[m].previous = NoTree
    BY <1>0, <2>1 DEF ManagerKnows
  <2>3. /\ manager'[m].step = "written" /\ manager'[m].rows = rows
        /\ manager'[m].tree = Archived
        /\ ~manager'[m].swapped /\ manager'[m].previous = NoTree
    BY <1>1, <1>3, <2>2 DEF ReadFiles, ManagerState
  <2>4. Whole(root)' /\ BackupsWhole'
    <3>1. Types /\ Monotone /\ rows' = rows
      BY <1>0, <1>m, <2>1, Zenon
    <3>2. \A tree : Whole(tree) => Whole(tree)'
      BY <3>1, WholeLater, Zenon
    <3>3. Whole(root)'
      BY <2>1, <2>2, <3>2
    <3>4. BackupsWhole'
      <4>1. /\ Len(backups') = Len(backups)
            /\ \A b \in 1..Len(backups) : backups'[b].tree = backups[b].tree
                                              /\ backups'[b].rows = backups[b].rows
        BY <2>1
      <4> QED BY <1>0, <3>1, <4>1, KeptWhole, Zenon
    <3> QED BY <3>3, <3>4
  <2>5. Archived' = Archived
    BY <1>0, <2>1 DEF Archived, ManagerStep
  <2>6. ManagerKnows(m)'
    BY <2>1, <2>3, <2>4, <2>5 DEF ManagerKnows
  <2> QED BY <1>0, <2>3, <2>4, <2>6, ManagerInStep DEF At
<1>4. CASE Register(m)
  <2>1. /\ rows' = rows /\ root' = root /\ failures' = failures
        /\ backups' = Marked(Unlinked(Inserted(m), Expiring(m)), Expiring(m))
        /\ manager[m].step = "written"
    BY <1>4 DEF Register, At
  <2>2. /\ Whole(root) /\ manager[m].rows = rows /\ manager[m].tree = Archived
        /\ ~manager[m].swapped /\ manager[m].previous = NoTree
    BY <1>0, <2>1 DEF ManagerKnows
  <2>3. Whole(root)'
    BY <1>0, <1>m, <2>1, <2>2, WholeLater
  <2>4. /\ manager'[m].step \in {"idle", "saved"}
        /\ ~manager'[m].swapped /\ manager'[m].previous = NoTree
    BY <1>1, <1>4, <2>2, IdleFields DEF Register, ManagerState
  <2>5. ManagerKnows(m)'
    BY <2>3, <2>4 DEF ManagerKnows
  <2>6. /\ Inserted(m) \in Seq(Artifact) /\ Len(Inserted(m)) = Len(backups) + 1
        /\ \A b \in 1..Len(backups) : Inserted(m)[b] = backups[b]
        /\ Inserted(m)[Len(backups) + 1].rows = rows
        /\ Inserted(m)[Len(backups) + 1].tree = Archived
    <3> DEFINE new == [status |-> "ready", stored |-> TRUE,
                       rows |-> manager[m].rows, tree |-> manager[m].tree]
    <3>1. new \in Artifact /\ new.rows = rows /\ new.tree = Archived
      BY <1>0, <2>2, ManagerFields DEF Artifact
    <3> HIDE DEF new
    <3>2. Inserted(m) = Append(backups, new)
      BY DEF Inserted, new
    <3> QED BY <1>1, <3>1, <3>2
  <2>7. Len(backups') = Len(backups) + 1
    BY <1>0, <2>1, <2>6, ArtifactsKept
  <2>8. BackupsWhole'
    <3> SUFFICES ASSUME NEW b \in 1..Len(backups) + 1
                 PROVE  Holds(backups'[b].tree, backups'[b].rows)
      BY <1>0, <1>m, <2>7, HoldsLater DEF BackupsWhole, Holds
    <3>1. /\ backups'[b].tree = Inserted(m)[b].tree
          /\ backups'[b].rows = Inserted(m)[b].rows
      <4>1. b \in 1..Len(Inserted(m))
        BY <2>6
      <4>2. /\ Marked(Unlinked(Inserted(m), Expiring(m)), Expiring(m))[b].tree
                 = Inserted(m)[b].tree
            /\ Marked(Unlinked(Inserted(m), Expiring(m)), Expiring(m))[b].rows
                 = Inserted(m)[b].rows
        <5>1. Retains(Inserted(m), Expiring(m))
          BY <2>6, RetentionKeeps
        <5> QED BY <4>1, <5>1 DEF Retains
      <4> QED BY <2>1, <4>2
    <3>2. CASE b \in 1..Len(backups)
      BY <1>0, <2>6, <3>1, <3>2 DEF BackupsWhole
    <3>3. CASE b = Len(backups) + 1
      <4>1. Holds(Archived, rows)
        BY <2>2, ArchivedWhole
      <4> QED BY <2>6, <3>1, <3>3, <4>1
    <3> QED BY <1>1, <3>2, <3>3
  <2> QED BY <1>0, <2>3, <2>5, <2>8, ManagerInStep
<1>5. CASE RegisterFails(m)
  <2>1. /\ rows' = rows /\ root' = root /\ failures' = failures + 1
        /\ backups' = Unlinked(backups, Expiring(m)) /\ manager[m].step = "written"
        /\ manager' = [manager EXCEPT ![m] = IdleManager]
    BY <1>5 DEF RegisterFails, At, Fault
  <2>2. Whole(root)
    BY <1>0, <2>1 DEF ManagerKnows
  <2>3. Whole(root)'
    BY <1>0, <1>m, <2>1, <2>2, WholeLater
  <2>4. BackupsWhole'
    <3>1. Len(backups') = Len(backups)
      BY <1>0, <2>1, ArtifactsKept
    <3>2. \A b \in 1..Len(backups) : /\ backups'[b].tree = backups[b].tree
                                     /\ backups'[b].rows = backups[b].rows
      <4> TAKE b \in 1..Len(backups)
      <4>1. /\ Unlinked(backups, Expiring(m))[b].tree = backups[b].tree
            /\ Unlinked(backups, Expiring(m))[b].rows = backups[b].rows
        <5>1. Retains(backups, Expiring(m))
          BY <1>0, RetentionKeeps DEF Types
        <5> QED BY <5>1 DEF Retains
      <4> QED BY <2>1, <4>1
    <3> QED BY <1>0, <1>m, <3>1, <3>2, KeptWhole
  <2>5. ManagerKnows(m)'
    BY <1>1, <2>1, IdleFields DEF ManagerKnows
  <2> QED BY <1>0, <2>3, <2>4, <2>5, ManagerInStep
<1> QED BY <1>2, <1>3, <1>4, <1>5 DEF Create

\* What a backup holds can be activated.
LEMMA UnpackedWhole ==
    ASSUME BackupsWhole, NEW m, manager[m].target \in 1..Len(backups)
    PROVE  /\ Unpacked(m) = backups[manager[m].target].tree
           /\ Holds(Unpacked(m), backups[manager[m].target].rows)
<1>1. Holds(backups[manager[m].target].tree, backups[manager[m].target].rows)
  BY DEF BackupsWhole
<1>2. backups[manager[m].target].tree # NoTree
  BY <1>1, NoTreeAssumption DEF Holds
<1> QED BY <1>1, <1>2 DEF Unpacked

LEMMA RestoreInStep ==
    ASSUME BackupInv, InStep, Sheltered, Sheltered', NEW m \in Managers, Restore(m),
           UNCHANGED modeVars
    PROVE  InStep'
<1>0. Types /\ Targets /\ OnlyManager(m) /\ ManagerKnows(m) /\ BackupsWhole /\ ManagerStep(m)
  BY ManagerStarts, RestoreTypes DEF BackupInv
<1>1. /\ failures \in Nat /\ backups \in Seq(Artifact) /\ Len(backups) \in Nat
      /\ manager \in [Managers -> ManagerState] /\ manager[m] \in ManagerState
      /\ manager[m].target \in 0..Len(backups) /\ deleter' = deleter
  BY <1>0, ManagerFields DEF Types, Targets, ManagerStep
<1>2. backups' = backups /\ failures' \in {failures, failures + 1}
  BY DEF Restore, CloseGate, Stage, MoveAside, Activate, Commit, Finish, RestoreFails,
     PutAside, PutBack, RecoveryFails, Fault
<1>3. BackupsWhole' /\ Monotone
  <2>1. failures' \in Nat /\ failures' >= failures
    BY <1>1, <1>2
  <2>2. Monotone
    BY <1>0, <2>1 DEF Monotone, ManagerStep
  <2> QED BY <1>0, <1>1, <1>2, <2>2, KeptWhole
<1>4. ASSUME ManagerKnows(m)', At(m, "idle")' => Whole(root)' PROVE InStep'
  BY <1>0, <1>3, <1>4, ManagerInStep
<1>5. rows' = rows => \A tree : Whole(tree) => Whole(tree)'
  BY <1>0, <1>3, WholeLater
<1>6. ASSUME NEW step \in Steps, Advance(m, step)
      PROVE  /\ manager'[m].step = step /\ manager'[m].target = manager[m].target
             /\ manager'[m].previous = manager[m].previous
             /\ manager'[m].swapped = manager[m].swapped
  BY <1>0, <1>1, <1>6, AdvanceMoves
<1>7. OpenGate(m) => manager'[m] = IdleManager
  BY <1>0, <1>1, OpenMoves
<1>8. manager[m].step \in {"staged", "aside", "active"} => manager[m].target \in 1..Len(backups)
  BY <1>0, <1>1 DEF Targets
<1>9. CASE CloseGate(m) \/ Stage(m) \/ Finish(m)
  <2>1. /\ rows' = rows /\ root' = root
        /\ manager[m].step \in {"saved", "closed", "committed"}
        /\ \/ Advance(m, "closed") /\ manager[m].step = "saved"
           \/ Advance(m, "staged") /\ manager[m].step = "closed"
           \/ OpenGate(m)
    BY <1>9 DEF CloseGate, Stage, Finish, At
  <2>2. Whole(root) /\ (manager[m].step # "committed" =>
                          ~manager[m].swapped /\ manager[m].previous = NoTree)
    BY <1>0, <2>1 DEF ManagerKnows
  <2>3. Whole(root)'
    BY <1>5, <2>1, <2>2
  <2>4. \/ manager'[m] = IdleManager
        \/ /\ manager'[m].step \in {"closed", "staged"}
           /\ ~manager'[m].swapped /\ manager'[m].previous = NoTree
    BY <1>6, <1>7, <2>1, <2>2 DEF Steps
  <2>5. ManagerKnows(m)'
    BY <2>3, <2>4, IdleFields DEF ManagerKnows
  <2> QED BY <1>4, <2>3, <2>5
<1>10. CASE MoveAside(m)
  <2>1. /\ rows' = rows /\ root' = NoTree /\ manager[m].step = "staged"
        /\ manager' = [manager EXCEPT ![m].step = "aside", ![m].previous = root]
    BY <1>10 DEF MoveAside, At
  <2>2. Whole(root) /\ ~manager[m].swapped
    BY <1>0, <2>1 DEF ManagerKnows
  <2>3. /\ manager'[m].step = "aside" /\ manager'[m].previous = root
        /\ ~manager'[m].swapped
    BY <1>1, <2>1, <2>2 DEF ManagerState
  <2>4. Whole(manager[m].previous)'
    BY <1>5, <2>1, <2>2, <2>3
  <2>5. ManagerKnows(m)'
    BY <2>1, <2>3, <2>4 DEF ManagerKnows
  <2> QED BY <1>4, <2>3, <2>5 DEF At
<1>11. CASE Activate(m)
  <2>1. rows' = rows /\ manager[m].step = "aside"
    BY <1>11 DEF Activate, At
  <2>2. root = NoTree /\ Whole(manager[m].previous)
    BY <1>0, <2>1 DEF ManagerKnows
  <2>3. /\ root' = Unpacked(m)
        /\ manager' = [manager EXCEPT ![m].step = "active", ![m].swapped = TRUE]
    BY <1>11, <2>2 DEF Activate, Replaceable
  <2>4. /\ manager'[m].step = "active" /\ manager'[m].swapped
        /\ manager'[m].previous = manager[m].previous
        /\ manager'[m].target = manager[m].target
    BY <1>1, <2>3 DEF ManagerState
  <2>5. Unpacked(m)' = Unpacked(m)
    BY <1>2, <2>4 DEF Unpacked
  <2>6. Whole(manager[m].previous)'
    BY <1>5, <2>1, <2>2, <2>4
  <2>7. ManagerKnows(m)'
    BY <2>3, <2>4, <2>5, <2>6 DEF ManagerKnows
  <2> QED BY <1>4, <2>4, <2>7 DEF At
<1>12. CASE Commit(m)
  <2>1. /\ rows' = backups[manager[m].target].rows /\ root' = root
        /\ failures' = failures /\ manager[m].step = "active" /\ Advance(m, "committed")
    BY <1>12 DEF Commit, At
  <2>2. root = Unpacked(m)
    BY <1>0, <2>1 DEF ManagerKnows
  <2>3. Holds(root, backups[manager[m].target].rows)
    BY <1>0, <1>8, <2>1, <2>2, UnpackedWhole
  <2>4. Whole(root)'
    BY <1>0, <1>3, <2>1, <2>3, HoldsLater DEF Whole, Holds
  <2>5. manager'[m].step = "committed"
    BY <1>6, <2>1 DEF Steps
  <2>6. ManagerKnows(m)'
    BY <2>4, <2>5 DEF ManagerKnows
  <2> QED BY <1>4, <2>5, <2>6 DEF At
<1>13. CASE RestoreFails(m)
  <2>1. /\ rows' = rows /\ root' = root /\ failures' = 1
        /\ manager[m].step \in {"staged", "aside", "active"} /\ Advance(m, "failing")
    BY <1>1, <1>13 DEF RestoreFails, Fault, Sheltered
  <2>2. \/ Whole(root) /\ ~manager[m].swapped /\ manager[m].previous = NoTree
        \/ root = NoTree /\ Whole(manager[m].previous) /\ ~manager[m].swapped
        \/ root # NoTree /\ Whole(manager[m].previous) /\ manager[m].swapped
    BY <1>0, <1>8, <2>1, UnpackedWhole, NoTreeAssumption DEF ManagerKnows, Holds
  <2>3. /\ manager'[m].step = "failing" /\ manager'[m].previous = manager[m].previous
        /\ manager'[m].swapped = manager[m].swapped
    BY <1>6, <2>1 DEF Steps
  <2>4. (Whole(root) => Whole(root)')
          /\ (Whole(manager[m].previous) => Whole(manager[m].previous)')
    BY <1>5, <2>1, <2>3
  <2>5. ManagerKnows(m)'
    BY <2>1, <2>2, <2>3, <2>4 DEF ManagerKnows
  <2> QED BY <1>4, <2>3, <2>5 DEF At
<1>14. CASE PutAside(m)
  <2>1. /\ rows' = rows /\ root' = (IF manager[m].swapped THEN NoTree ELSE root)
        /\ failures' = failures /\ manager[m].step = "failing" /\ Advance(m, "recovering")
    BY <1>14 DEF PutAside, At
  <2>2. /\ failures = 1
        /\ \/ Whole(root) /\ ~manager[m].swapped /\ manager[m].previous = NoTree
           \/ root = NoTree /\ Whole(manager[m].previous) /\ ~manager[m].swapped
           \/ root # NoTree /\ Whole(manager[m].previous) /\ manager[m].swapped
    BY <1>0, <2>1 DEF ManagerKnows
  <2>3. manager'[m].step = "recovering" /\ manager'[m].previous = manager[m].previous
    BY <1>6, <2>1 DEF Steps
  <2>4. (Whole(root) /\ ~manager[m].swapped => Whole(root)')
          /\ (Whole(manager[m].previous) => Whole(manager[m].previous)')
    BY <1>5, <2>1, <2>3
  <2>5. ManagerKnows(m)'
    BY <2>1, <2>2, <2>3, <2>4 DEF ManagerKnows
  <2> QED BY <1>4, <2>3, <2>5 DEF At
<1>15. CASE PutBack(m)
  <2>1. /\ rows' = rows /\ manager[m].step = "recovering" /\ OpenGate(m)
        /\ root' = IF manager[m].previous # NoTree /\ Replaceable(root)
                   THEN manager[m].previous ELSE root
    BY <1>15 DEF PutBack, At
  <2>2. \/ Whole(root) /\ manager[m].previous = NoTree
        \/ root = NoTree /\ Whole(manager[m].previous)
    BY <1>0, <2>1 DEF ManagerKnows
  <2>3. Whole(root')
    <3>1. CASE Whole(root) /\ manager[m].previous = NoTree
      BY <2>1, <3>1
    <3>2. CASE root = NoTree /\ Whole(manager[m].previous)
      BY <2>1, <3>2, NoTreeAssumption DEF Replaceable, Whole, Holds
    <3> QED BY <2>2, <3>1, <3>2
  <2>4. Whole(root)'
    BY <1>5, <2>1, <2>3
  <2>5. ManagerKnows(m)'
    BY <1>7, <2>1, IdleFields DEF ManagerKnows
  <2> QED BY <1>4, <2>4, <2>5
<1>16. CASE RecoveryFails(m)
  <2>1. failures = 1
    BY <1>0, <1>16 DEF RecoveryFails, ManagerKnows
  <2>2. failures' = 2
    BY <1>16, <2>1 DEF RecoveryFails, Fault
  <2> QED BY <2>2 DEF Sheltered
<1> QED BY <1>9, <1>10, <1>11, <1>12, <1>13, <1>14, <1>15, <1>16 DEF Restore

\* What a deletion starts from.
LEMMA DeleterStarts ==
    ASSUME BackupInv, InStep, Sheltered, NEW d \in Deleters, Delete(d)
    PROVE  /\ OnlyDeleter(d) /\ DeleterKnows(d) /\ BackupsWhole
           /\ Busy(d, "idle") => Whole(root)
<1>1. OnlyDeleter(d)
  BY DeleterAlone DEF Sheltered
<1>2. Busy(d, "idle") => Quiet
  BY <1>1 DEF OnlyDeleter, Quiet, BackupInv, Types
<1> QED BY <1>1, <1>2 DEF InStep

LEMMA DeleteInStep ==
    ASSUME BackupInv, InStep, Sheltered, Sheltered', NEW d \in Deleters, Delete(d),
           UNCHANGED modeVars
    PROVE  InStep'
<1>0. Types /\ OnlyDeleter(d) /\ DeleterKnows(d) /\ BackupsWhole /\ DeleterStep(d)
  BY DeleterStarts, DeleteTypes DEF BackupInv
<1>1. /\ failures \in Nat /\ deleter \in [Deleters -> DeleterState]
      /\ deleter[d] \in DeleterState
      /\ deleter[d].chosen \in SUBSET Docs /\ deleter[d].todo \in SUBSET Docs
      /\ deleter[d].staged \in SUBSET Docs
  BY <1>0, DeleterFields DEF Types
<1>2. backups' = backups /\ failures' \in {failures, failures + 1}
  BY DEF Delete, StartDeletion, StageFile, DeleteRows, RowGone, StagingFails, TransactionFails,
     RestoreStaged, DeleteStaged, Fault
<1>3. Monotone /\ GivenUp \subseteq GivenUp'
  <2>1. failures' \in Nat /\ failures' >= failures
    BY <1>1, <1>2
  <2> QED BY <1>0, <2>1 DEF Monotone, DeleterStep, GivenUp
<1>4. BackupsWhole'
  <2>1. /\ Len(backups') = Len(backups)
        /\ \A b \in 1..Len(backups) : backups'[b].tree = backups[b].tree
                                        /\ backups'[b].rows = backups[b].rows
    BY <1>2
  <2> QED BY <1>0, <1>3, <2>1, KeptWhole, Zenon
<1>5. ASSUME DeleterKnows(d)', Busy(d, "idle")' => Whole(root)' PROVE InStep'
  BY <1>0, <1>4, <1>5, DeleterInStep
<1>6. root # NoTree /\ root \in Trees => /\ root \in Tree /\ root.files \in SUBSET Docs
                                          /\ root.quarantine \in SUBSET Docs
  BY TreeFields
<1>7. ASSUME NEW chosen \in SUBSET rows, StartDeletion(d, chosen)
      PROVE  InStep'
  <2> DEFINE next == [step |-> "staging", chosen |-> chosen, todo |-> chosen, staged |-> {}]
  <2>1. /\ rows' = rows /\ root' = root /\ failures' = failures /\ Whole(root)
        /\ deleter' = [deleter EXCEPT ![d] = next]
        /\ d \in Accounts => chosen = rows
    BY <1>7, DeleterStarts DEF StartDeletion
  <2>2. /\ next.step = "staging" /\ next.chosen = chosen /\ next.todo = chosen
        /\ next.staged = {}
    OBVIOUS
  <2> HIDE DEF next
  <2>3. deleter'[d] = next
    BY <1>1, <2>1
  <2>4. DeleterKnows(d)'
    BY <1>3, <2>1, <2>2, <2>3 DEF DeleterKnows, Whole, Holds, Monotone
  <2> QED BY <1>5, <2>2, <2>3, <2>4 DEF Busy
<1>8. ASSUME NEW doc \in Docs, StageFile(d, doc)
      PROVE  InStep'
  <2> DEFINE moved == [deleter[d] EXCEPT !.todo = @ \ {doc}, !.staged = @ \cup {doc}]
             passed == [deleter[d] EXCEPT !.todo = @ \ {doc}]
             tree == [files |-> root.files \ {doc}, quarantine |-> root.quarantine \cup {doc}]
  <2>1. deleter[d].step = "staging" /\ doc \in deleter[d].todo
    BY <1>8 DEF StageFile, Busy
  <2>2. /\ root \in Tree /\ deleter[d].staged \subseteq root.quarantine
        /\ failures = 0 => root.quarantine \subseteq deleter[d].staged \cup stranded
        /\ deleter[d].chosen \subseteq rows /\ deleter[d].todo \subseteq deleter[d].chosen
        /\ deleter[d].staged \subseteq deleter[d].chosen \ deleter[d].todo
        /\ root.files \subseteq rows \ (deleter[d].chosen \ deleter[d].todo)
        /\ d \in Accounts => deleter[d].chosen = rows
        /\ deleter[d].staged \subseteq rows /\ root.files \subseteq rows
        /\ rows \ (GivenUp \cup deleter[d].staged) \subseteq root.files
    BY <1>0, <2>1 DEF DeleterKnows
  <2>3. root # NoTree /\ root.files \in SUBSET Docs /\ root.quarantine \in SUBSET Docs
    BY <2>2, NoTreeAssumption DEF Tree
  <2>4. /\ rows' = rows /\ failures' = failures
        /\ \/ root' = tree /\ deleter' = [deleter EXCEPT ![d] = moved]
           \/ /\ doc \notin root.files /\ root' = root
              /\ deleter' = [deleter EXCEPT ![d] = passed]
    BY <1>1, <1>8, <2>3 DEF StageFile, InPlace
  <2>5. /\ moved.step = "staging" /\ moved.chosen = deleter[d].chosen
        /\ moved.todo = deleter[d].todo \ {doc} /\ moved.staged = deleter[d].staged \cup {doc}
        /\ passed.step = "staging" /\ passed.chosen = deleter[d].chosen
        /\ passed.todo = deleter[d].todo \ {doc} /\ passed.staged = deleter[d].staged
    BY <1>1, <2>1 DEF DeleterState
  <2>6. /\ tree \in Tree /\ tree.files = root.files \ {doc}
        /\ tree.quarantine = root.quarantine \cup {doc}
    BY <2>3, TreeFields
  <2> HIDE DEF moved, passed, tree
  <2>7. CASE root' = tree /\ deleter' = [deleter EXCEPT ![d] = moved]
    <3>1. deleter'[d] = moved
      BY <1>1, <2>7
    <3>2. DeleterKnows(d)'
      BY <1>3, <2>1, <2>2, <2>4, <2>5, <2>6, <2>7, <3>1 DEF DeleterKnows, Monotone
    <3> QED BY <1>5, <2>5, <3>1, <3>2 DEF Busy
  <2>8. CASE /\ doc \notin root.files /\ root' = root
             /\ deleter' = [deleter EXCEPT ![d] = passed]
    <3>1. deleter'[d] = passed
      BY <1>1, <2>8
    <3>2. DeleterKnows(d)'
      BY <1>3, <2>1, <2>2, <2>4, <2>5, <2>8, <3>1 DEF DeleterKnows, Monotone
    <3> QED BY <1>5, <2>5, <3>1, <3>2 DEF Busy
  <2> QED BY <2>4, <2>7, <2>8
<1>9. CASE DeleteRows(d)
  <2>1. /\ deleter[d].step = "staging" /\ deleter[d].todo = {}
        /\ root' = root /\ failures' = failures
        /\ rows' = IF d \in Accounts THEN {} ELSE rows \ deleter[d].chosen
        /\ deleter' = [deleter EXCEPT ![d].step = "deleted"]
    BY <1>9 DEF DeleteRows, Busy
  <2>2. /\ root \in Tree /\ deleter[d].staged \subseteq root.quarantine
        /\ failures = 0 => root.quarantine \subseteq deleter[d].staged \cup stranded
        /\ deleter[d].staged \subseteq deleter[d].chosen
        /\ d \in Accounts => deleter[d].chosen = rows
        /\ root.files \subseteq rows \ deleter[d].chosen
        /\ rows \ (GivenUp \cup deleter[d].staged) \subseteq root.files
    BY <1>0, <2>1 DEF DeleterKnows
  <2>3. deleter'[d].step = "deleted" /\ deleter'[d].staged = deleter[d].staged
    BY <1>1, <2>1 DEF DeleterState
  <2>4. rows' = rows \ deleter[d].chosen
    BY <2>1, <2>2
  <2>5. DeleterKnows(d)'
    BY <1>3, <2>1, <2>2, <2>3, <2>4 DEF DeleterKnows, Monotone
  <2> QED BY <1>5, <2>3, <2>5 DEF Busy
<1>10. ~RowGone(d)
  BY <1>0 DEF RowGone, Busy, DeleterKnows
<1>11. CASE StagingFails(d) \/ TransactionFails(d)
  <2>1. /\ deleter[d].step = "staging" /\ root' = root /\ rows' = rows
        /\ failures' = 1 /\ deleter' = [deleter EXCEPT ![d].step = "undoing"]
    BY <1>1, <1>11 DEF StagingFails, TransactionFails, Fault, Busy, Sheltered
  <2>2. /\ root \in Tree /\ deleter[d].staged \subseteq root.quarantine
        /\ deleter[d].staged \subseteq rows /\ root.files \subseteq rows
        /\ rows \ (GivenUp \cup deleter[d].staged) \subseteq root.files
    BY <1>0, <2>1 DEF DeleterKnows
  <2>3. deleter'[d].step = "undoing" /\ deleter'[d].staged = deleter[d].staged
    BY <1>1, <2>1 DEF DeleterState
  <2>4. DeleterKnows(d)'
    BY <1>3, <2>1, <2>2, <2>3 DEF DeleterKnows
  <2> QED BY <1>5, <2>3, <2>4 DEF Busy
<1>12. ASSUME deleter' = [deleter EXCEPT ![d] = IdleDeleter], Whole(root)'
       PROVE  InStep'
  <2>1. deleter'[d] = IdleDeleter
    BY <1>1, <1>12
  <2>2. DeleterKnows(d)'
    BY <2>1, IdleFields DEF DeleterKnows
  <2> QED BY <1>5, <1>12, <2>2
<1>13. ASSUME NEW stuck \in SUBSET deleter[d].staged, RestoreStaged(d, stuck)
       PROVE  InStep'
  <2> DEFINE back == (deleter[d].staged \cap InQuarantine) \ stuck
             tree == [files |-> root.files \cup back, quarantine |-> root.quarantine \ back]
  <2>1. /\ deleter[d].step = "undoing" /\ rows' = rows
        /\ deleter' = [deleter EXCEPT ![d] = IdleDeleter]
        /\ IF stuck = {} THEN failures' = failures ELSE failures' = failures + 1
    BY <1>13 DEF RestoreStaged, Busy, Fault
  <2>2. /\ root \in Tree /\ deleter[d].staged \subseteq root.quarantine
        /\ deleter[d].staged \subseteq rows /\ root.files \subseteq rows
        /\ rows \ (GivenUp \cup deleter[d].staged) \subseteq root.files
        /\ failures = 1
    BY <1>0, <2>1 DEF DeleterKnows
  <2>3. root # NoTree /\ root.files \in SUBSET Docs /\ root.quarantine \in SUBSET Docs
    BY <2>2, NoTreeAssumption DEF Tree
  <2>4. root' = tree
    BY <1>13, <2>3 DEF RestoreStaged
  <2>5. stuck = {} /\ failures' = 1
    BY <2>1, <2>2 DEF Sheltered
  <2>6. back = deleter[d].staged
    BY <2>2, <2>3, <2>5 DEF InQuarantine
  <2> HIDE DEF back
  <2>7. tree \in Tree /\ tree.files = root.files \cup back
    BY <1>1, <2>3, <2>6, TreeFields
  <2> HIDE DEF tree
  <2>8. tree.files \subseteq rows /\ rows \ GivenUp \subseteq tree.files
    BY <2>2, <2>6, <2>7
  <2>9. Whole(root)'
    BY <1>3, <2>1, <2>4, <2>5, <2>7, <2>8 DEF Whole, Holds
  <2> QED BY <1>12, <2>1, <2>9
<1>14. ASSUME NEW kept \in SUBSET deleter[d].staged, DeleteStaged(d, kept)
       PROVE  InStep'
  <2> DEFINE gone == deleter[d].staged \ kept
             tree == [root EXCEPT !.quarantine = @ \ gone]
  <2>1. /\ deleter[d].step = "deleted" /\ rows' = rows
        /\ deleter' = [deleter EXCEPT ![d] = IdleDeleter]
        /\ IF kept = {} THEN failures' = failures ELSE failures' = failures + 1
    BY <1>14 DEF DeleteStaged, Busy, Fault
  <2>2. /\ root \in Tree /\ root.files \subseteq rows /\ rows \ GivenUp \subseteq root.files
        /\ failures = 0 => root.quarantine \subseteq deleter[d].staged \cup stranded
    BY <1>0, <2>1 DEF DeleterKnows
  <2>3. root # NoTree /\ root.files \in SUBSET Docs /\ root.quarantine \in SUBSET Docs
    BY <2>2, NoTreeAssumption DEF Tree
  <2>4. root' = tree
    BY <1>14, <2>3 DEF DeleteStaged
  <2>5. tree \in Tree /\ tree.files = root.files /\ tree.quarantine = root.quarantine \ gone
    BY <2>2 DEF Tree
  <2> HIDE DEF tree
  <2>6. failures' = 0 => tree.quarantine \subseteq stranded
    <3>1. failures' = 0 => failures = 0 /\ kept = {}
      BY <1>1, <2>1
    <3> QED BY <2>2, <2>5, <3>1
  <2>7. Whole(root)'
    BY <1>3, <2>1, <2>2, <2>4, <2>5, <2>6 DEF Whole, Holds, Monotone
  <2> QED BY <1>12, <2>1, <2>7
<1> QED BY <1>7, <1>8, <1>9, <1>10, <1>11, <1>13, <1>14 DEF Delete

\* What a refused deletion leaves in the quarantine is given up.
LEMMA RefusedInStep ==
    ASSUME BackupInv, InStep, Sheltered, NEW d \in Deleters, NEW doc \in Docs,
           PathRefused(d, doc)
    PROVE  InStep'
<1>1. OnlyDeleter(d) /\ DeleterKnows(d) /\ BackupsWhole
  BY DeleterAlone DEF InStep, Sheltered
<1>2. DeleterStep(d) /\ deleter'[d] = IdleDeleter /\ Types
  BY RefusedTypes DEF BackupInv
<1>3. /\ rows' = rows /\ root' = root /\ backups' = backups /\ failures' = failures
      /\ linked' = linked /\ stranded' = stranded \cup deleter[d].staged
      /\ deleter[d].step = "staging" /\ failures \in Nat
  BY <1>2 DEF PathRefused, constantVars, Busy, Types
<1>4. Monotone
  BY <1>3 DEF Monotone
<1>5. Whole(root)'
  BY <1>1, <1>3 DEF DeleterKnows, Whole, Holds, GivenUp
<1>6. BackupsWhole'
  BY <1>1, <1>2, <1>3, <1>4, KeptWhole
<1>7. DeleterKnows(d)'
  BY <1>2, IdleFields DEF DeleterKnows
<1> QED BY <1>1, <1>2, <1>5, <1>6, <1>7, DeleterInStep

LEMMA InStepStep == BackupInv /\ InStep /\ [Next]_vars => InStep'
<1> SUFFICES ASSUME BackupInv, InStep, [Next]_vars, Sheltered'
             PROVE  InStep'
  BY DEF InStep
<1>0. Types /\ failures \in Nat
  BY DEF BackupInv, Types
<1>1. ASSUME NEW m \in Managers, Create(m) \/ Restore(m), UNCHANGED modeVars
      PROVE  InStep'
  <2>1. failures' \in {failures, failures + 1}
    BY <1>1 DEF Create, ReadRows, ReadFiles, Register, RegisterFails, Restore, CloseGate,
       Stage, MoveAside, Activate, Commit, Finish, RestoreFails, PutAside, PutBack,
       RecoveryFails, Fault
  <2>2. Sheltered
    BY <1>0, <1>1, <2>1 DEF Sheltered, modeVars, constantVars
  <2> QED BY <1>1, <2>2, CreateInStep, RestoreInStep
<1>2. ASSUME NEW d \in Deleters, Delete(d), UNCHANGED modeVars
      PROVE  InStep'
  <2>1. failures' \in {failures, failures + 1}
    BY <1>2 DEF Delete, StartDeletion, StageFile, DeleteRows, RowGone, StagingFails,
       TransactionFails, RestoreStaged, DeleteStaged, Fault
  <2>2. Sheltered
    BY <1>0, <1>2, <2>1 DEF Sheltered, modeVars, constantVars
  <2> QED BY <1>2, <2>2, DeleteInStep
<1>3. ~Forgets
  BY DEF Forgets, Sheltered
<1>5. ASSUME NEW d \in Deleters, NEW doc \in Docs, PathRefused(d, doc)
      PROVE  InStep'
  <2>1. Sheltered
    BY <1>5 DEF PathRefused, constantVars, Sheltered
  <2> QED BY <1>5, <2>1, RefusedInStep
<1>4. CASE UNCHANGED vars
  <2>1. /\ Sheltered
        /\ UNCHANGED <<rows, root, backups, manager, deleter, failures, linked, stranded>>
    BY <1>4 DEF Sheltered, vars, modeVars, constantVars
  <2>2. /\ \A m \in Managers : ManagerKnows(m)
        /\ \A d \in Deleters : DeleterKnows(d)
        /\ Quiet => Whole(root)
        /\ BackupsWhole
    BY <2>1 DEF InStep
  <2>3. ASSUME NEW m \in Managers PROVE ManagerKnows(m)'
    BY <2>1, <2>2 DEF ManagerKnows, Whole, Holds, Unpacked,
       Archived, GivenUp
  <2>4. ASSUME NEW d \in Deleters PROVE DeleterKnows(d)'
    BY <2>1, <2>2 DEF DeleterKnows, GivenUp
  <2>5. (Quiet => Whole(root))' /\ BackupsWhole'
    BY <2>1, <2>2 DEF Quiet, Whole, Holds, BackupsWhole, GivenUp
  <2> QED BY <2>3, <2>4, <2>5 DEF InStep
<1> QED BY <1>0, <1>1, <1>2, <1>3, <1>4, <1>5, DeathForgets DEF Next

LEMMA InStepInit == Init => InStep
<1> SUFFICES ASSUME Init PROVE InStep
  OBVIOUS
<1>0. linked \in SUBSET Docs /\ stranded = {}
  BY ConstantsAssumption DEF Init
<1>1. PICK all \in SUBSET Docs :
        /\ backups = <<[status |-> "ready", stored |-> TRUE, rows |-> all,
                        tree |-> [files |-> all \ linked, quarantine |-> {}]]>>
        /\ rows \in SUBSET all
  BY DEF Init
<1>2. /\ manager = [m \in Managers |-> IdleManager] /\ deleter = [d \in Deleters |-> IdleDeleter]
      /\ root = [files |-> rows, quarantine |-> {}] /\ failures = 0
  BY DEF Init
<1>3. Whole(root)
  BY <1>1, <1>2, TreeFields DEF Whole, Holds, GivenUp
<1>4. BackupsWhole
  <2> DEFINE tree == [files |-> all \ linked, quarantine |-> {}]
             first == [status |-> "ready", stored |-> TRUE, rows |-> all, tree |-> tree]
  <2>1. tree \in Tree /\ tree.files = all \ linked /\ tree.quarantine = {}
    BY TreeFields
  <2>2. first.tree = tree /\ first.rows = all
    OBVIOUS
  <2> HIDE DEF tree
  <2>3. backups = <<first>>
    BY <1>1 DEF tree
  <2> HIDE DEF first
  <2>4. \A b \in 1..Len(backups) : backups[b] = first
    BY <2>3
  <2> QED BY <2>1, <2>2, <2>4 DEF BackupsWhole, Holds, GivenUp
<1>5. \A m \in Managers : ManagerKnows(m)
  BY <1>2, IdleFields DEF ManagerKnows
<1>6. \A d \in Deleters : DeleterKnows(d)
  BY <1>2, IdleFields DEF DeleterKnows
<1> QED BY <1>3, <1>4, <1>5, <1>6 DEF InStep

\* Only a refused path leaves files behind: without links nothing is given up.
LEMMA NothingGivenUp ==
    /\ Init => (linked = {} => GivenUp = {})
    /\ (linked = {} => GivenUp = {}) /\ [Next]_vars => (linked = {} => GivenUp = {})'
<1>1. Init => stranded = {}
  BY DEF Init
<1>2. ASSUME linked = {} => GivenUp = {}, [Next]_vars, linked' = {}
      PROVE  GivenUp' = {}
  <2>1. ~(linked = {} /\ \E d \in Deleters, doc \in Docs : PathRefused(d, doc))
    BY DEF PathRefused
  <2>2. linked' = linked
    BY <1>2 DEF Next, PathRefused, WorkerDies, CommandDies, vars, modeVars, constantVars
  <2>3. stranded' = stranded
    BY <1>2, <2>1, <2>2 DEF Next, WorkerDies, CommandDies, vars, modeVars
  <2> QED BY <1>2, <2>2, <2>3 DEF GivenUp
<1> QED BY <1>1, <1>2 DEF GivenUp

\* An interrupted restore or deletion has put back what it had moved: whenever
\* nothing is under way, every document row has its file.  Documents are exempt
\* when their path is a symbolic link, or when a deletion refused for one had
\* staged them; where there are no links, no document is.
THEOREM InterruptionsUndone == Spec => [](RowsHaveFiles /\ (linked = {} => GivenUp = {}))
<1>1. BackupInv /\ InStep => RowsHaveFiles
  BY NoTreeAssumption DEF InStep, Whole, Holds, RowsHaveFiles, InPlace
<1> QED
  BY <1>1, BackupInvInit, BackupInvStep, InStepInit, InStepStep, NothingGivenUp, PTL
     DEF Spec

\* What was deleted for good leaves no file behind, but in the quarantine after
\* an unlink that failed.
THEOREM DeletionErases == Spec => []DeletedMeansErased
<1>1. BackupInv /\ InStep => DeletedMeansErased
  BY NoTreeAssumption DEF InStep, Whole, Holds, DeletedMeansErased, NoOrphans, InPlace,
     InQuarantine
<1> QED
  BY <1>1, BackupInvInit, BackupInvStep, InStepInit, InStepStep, PTL DEF Spec

-----------------------------------------------------------------------------
(***************************************************************************)
(* Retention.                                                              *)
(***************************************************************************)

Ready(all) == {b \in 1..Len(all) : all[b].status = "ready"}

\* How many artifacts retention leaves at least.
Enough(all) == IF Len(all) < Keep THEN Len(all) ELSE Keep

ReadyAfter(all, b) == {c \in (b + 1)..Len(all) : all[c].status = "ready"}

LEMMA ExpiredIs ==
    ASSUME NEW all \in Seq(Artifact)
    PROVE  Expired(all) = {b \in Ready(all) : Cardinality(ReadyAfter(all, b)) >= Keep}
<1>1. DOMAIN all = 1..Len(all)
  OBVIOUS
<1> QED BY <1>1 DEF Expired, Ready, ReadyAfter

LEMMA ReadyCounts ==
    ASSUME NEW all \in Seq(Artifact)
    PROVE  /\ IsFiniteSet(Ready(all)) /\ Cardinality(Ready(all)) \in Nat
           /\ \A b \in 1..Len(all) : /\ IsFiniteSet(ReadyAfter(all, b))
                                     /\ Cardinality(ReadyAfter(all, b)) \in Nat
                                     /\ Cardinality(ReadyAfter(all, b)) <= Len(all) - b
<1>0. Len(all) \in Nat
  OBVIOUS
<1>1. IsFiniteSet(1..Len(all))
  BY <1>0, FS_Interval
<1>2. IsFiniteSet(Ready(all))
  BY <1>1, FS_Subset DEF Ready
<1>3. ASSUME NEW b \in 1..Len(all)
      PROVE  /\ IsFiniteSet(ReadyAfter(all, b))
             /\ Cardinality(ReadyAfter(all, b)) \in Nat
             /\ Cardinality(ReadyAfter(all, b)) <= Len(all) - b
  <2>1. b + 1 \in Int /\ Len(all) \in Int
    BY <1>0
  <2>2. /\ IsFiniteSet((b + 1)..Len(all))
        /\ Cardinality((b + 1)..Len(all)) =
             IF b + 1 > Len(all) THEN 0 ELSE Len(all) - (b + 1) + 1
    BY <2>1, FS_Interval
  <2>3. Cardinality((b + 1)..Len(all)) = Len(all) - b
    BY <1>0, <2>2
  <2>4. ReadyAfter(all, b) \in SUBSET ((b + 1)..Len(all))
    BY DEF ReadyAfter
  <2>5. /\ IsFiniteSet(ReadyAfter(all, b))
        /\ Cardinality(ReadyAfter(all, b)) <= Cardinality((b + 1)..Len(all))
    BY <2>2, <2>4, FS_Subset
  <2>6. Cardinality(ReadyAfter(all, b)) \in Nat
    BY <2>5, FS_CardinalityType
  <2> QED BY <2>3, <2>5, <2>6
<1> QED BY <1>2, <1>3, FS_CardinalityType

\* The newest Keep artifacts do not expire ...
LEMMA NewestStay ==
    ASSUME NEW all \in Seq(Artifact), NEW b \in 1..Len(all), Len(all) - b < Keep
    PROVE  b \notin Expired(all)
<1>1. /\ Cardinality(ReadyAfter(all, b)) \in Nat
      /\ Cardinality(ReadyAfter(all, b)) <= Len(all) - b
  BY ReadyCounts
<1>2. Keep \in Nat /\ Len(all) - b \in Int
  BY ConstantsAssumption
<1>3. ~(Cardinality(ReadyAfter(all, b)) >= Keep)
  BY <1>1, <1>2
<1> QED BY <1>3, ExpiredIs

\* ... and no more do than must.
LEMMA EnoughStay ==
    ASSUME NEW all \in Seq(Artifact), Cardinality(Ready(all)) >= Enough(all)
    PROVE  Cardinality(Ready(all) \ Expired(all)) >= Enough(all)
<1>0. Keep \in Nat /\ Len(all) \in Nat /\ Enough(all) \in Nat /\ Enough(all) <= Keep
  BY ConstantsAssumption DEF Enough
<1>1. CASE Expired(all) = {}
  <2>1. Ready(all) \ Expired(all) = Ready(all)
    BY <1>1
  <2> QED BY <2>1
<1>2. CASE Expired(all) # {}
  <2> DEFINE T == {n \in Nat : \E b \in Expired(all) : n = Len(all) - b}
  <2>1. \A b \in Expired(all) : b \in 1..Len(all) /\ Cardinality(ReadyAfter(all, b)) >= Keep
    BY ExpiredIs DEF Ready
  <2>2. T # {}
    <3>1. PICK b \in Expired(all) : TRUE
      BY <1>2
    <3>2. Len(all) - b \in Nat
      BY <1>0, <2>1
    <3> QED BY <3>2
  <2>3. T \in SUBSET Nat
    OBVIOUS
  <2>4. PICK n \in T : \A m \in T : n <= m
    BY <2>2, <2>3, LeastNatural
  <2>5. PICK e \in Expired(all) : n = Len(all) - e
    BY <2>4
  <2>6. ASSUME NEW b \in Expired(all) PROVE b <= e
    <3>1. b \in 1..Len(all) /\ e \in 1..Len(all)
      BY <2>1
    <3>2. Len(all) - b \in T
      BY <1>0, <3>1
    <3>3. Len(all) - e <= Len(all) - b
      BY <2>4, <2>5, <3>2
    <3> QED BY <1>0, <3>1, <3>3
  <2> HIDE DEF T
  <2>7. ReadyAfter(all, e) \subseteq Ready(all) \ Expired(all)
    <3>1. e \in 1..Len(all)
      BY <2>1
    <3> SUFFICES ASSUME NEW c \in ReadyAfter(all, e)
                 PROVE  c \in Ready(all) /\ c \notin Expired(all)
      OBVIOUS
    <3>2. c \in (e + 1)..Len(all) /\ all[c].status = "ready"
      BY DEF ReadyAfter
    <3>3. c \in 1..Len(all) /\ ~(c <= e)
      BY <3>1, <3>2, <1>0
    <3> QED BY <2>6, <3>2, <3>3 DEF Ready
  <2>8. IsFiniteSet(Ready(all) \ Expired(all))
    BY ReadyCounts, FS_Subset
  <2>9. Cardinality(ReadyAfter(all, e)) <= Cardinality(Ready(all) \ Expired(all))
    BY <2>7, <2>8, FS_Subset
  <2>10. /\ Cardinality(ReadyAfter(all, e)) \in Nat
         /\ Cardinality(Ready(all) \ Expired(all)) \in Nat
    BY <2>1, <2>8, ReadyCounts, FS_CardinalityType
  <2>11. Cardinality(ReadyAfter(all, e)) >= Keep
    BY <2>1
  <2> QED BY <1>0, <2>9, <2>10, <2>11
<1> QED BY <1>1, <1>2

\* The newest artifact is there; until a step failed or a process died, so is
\* every one that is listed, and there are enough of them.
Retention ==
    /\ Len(backups) >= 1 /\ backups[Len(backups)].status = "ready"
    /\ Keep >= 2 => backups[Len(backups)].stored
    /\ failures = 0 /\ ~died =>
         /\ \A b \in 1..Len(backups) : backups[b].status = "ready" => backups[b].stored
         /\ Cardinality(Ready(backups)) >= Enough(backups)

\* What m has written, were it listed.
LEMMA InsertedIs ==
    ASSUME Types, NEW m \in Managers
    PROVE  /\ Inserted(m) \in Seq(Artifact) /\ Len(Inserted(m)) = Len(backups) + 1
           /\ Len(backups) \in Nat
           /\ \A b \in 1..Len(backups) : Inserted(m)[b] = backups[b]
           /\ Inserted(m)[Len(backups) + 1].status = "ready"
           /\ Inserted(m)[Len(backups) + 1].stored
<1> DEFINE new == [status |-> "ready", stored |-> TRUE,
                   rows |-> manager[m].rows, tree |-> manager[m].tree]
<1>1. new \in Artifact /\ new.status = "ready" /\ new.stored
  BY ManagerFields DEF Artifact
<1>2. backups \in Seq(Artifact) /\ Len(backups) \in Nat
  BY DEF Types
<1> HIDE DEF new
<1>3. Inserted(m) = Append(backups, new)
  BY DEF Inserted, new
<1> QED BY <1>1, <1>2, <1>3

\* A transaction that does not commit has unlinked old files at most.
LEMMA UnlinkedKeepsNewest ==
    ASSUME Types, Retention, NEW m \in Managers, backups' = Unlinked(backups, Expiring(m))
    PROVE  /\ Len(backups') >= 1 /\ backups'[Len(backups')].status = "ready"
           /\ Keep >= 2 => backups'[Len(backups')].stored
<1>1. /\ backups \in Seq(Artifact) /\ Len(backups) \in Nat /\ Len(backups) >= 1
      /\ Len(backups) \in 1..Len(backups)
  BY DEF Types, Retention
<1>2. Len(backups') = Len(backups)
  BY ArtifactsKept
<1>3. /\ backups'[Len(backups)].status = backups[Len(backups)].status
      /\ backups'[Len(backups)].stored =
           IF Len(backups) \in Expiring(m) THEN FALSE ELSE backups[Len(backups)].stored
  <2>1. Retains(backups, Expiring(m))
    BY <1>1, RetentionKeeps
  <2>2. /\ Unlinked(backups, Expiring(m))[Len(backups)].status = backups[Len(backups)].status
        /\ Unlinked(backups, Expiring(m))[Len(backups)].stored =
             IF Len(backups) \in Expiring(m) THEN FALSE ELSE backups[Len(backups)].stored
    BY <1>1, <2>1, Zenon DEF Retains
  <2> QED BY <2>2
<1>4. ASSUME Keep >= 2 PROVE Len(backups) \notin Expiring(m)
  <2>1. /\ Inserted(m) \in Seq(Artifact) /\ Len(Inserted(m)) = Len(backups) + 1
    BY InsertedIs
  <2>2. Len(backups) \in 1..Len(Inserted(m)) /\ Len(Inserted(m)) - Len(backups) < Keep
    BY <1>1, <1>4, <2>1, ConstantsAssumption
  <2>3. Len(backups) \notin Expired(Inserted(m))
    BY <2>1, <2>2, NewestStay
  <2> QED BY <2>3 DEF Expiring
<1> QED BY <1>1, <1>2, <1>3, <1>4 DEF Retention

LEMMA RegisterRetains ==
    ASSUME Types, Retention, NEW m \in Managers, Register(m), UNCHANGED modeVars
    PROVE  Retention'
<1> DEFINE all == Inserted(m)
           gone == Expiring(m)
<1>1. /\ backups' = Marked(Unlinked(all, gone), gone) /\ failures' = failures /\ died' = died
  BY DEF Register, modeVars, constantVars
<1>2. /\ all \in Seq(Artifact) /\ Len(all) = Len(backups) + 1 /\ Len(backups) \in Nat
      /\ \A b \in 1..Len(backups) : all[b] = backups[b]
      /\ all[Len(all)].status = "ready" /\ all[Len(all)].stored
  BY InsertedIs
<1>3. gone = {} \/ gone = Expired(all)
  BY DEF Expiring
<1>4. Len(backups') = Len(all)
  <2>1. Len(Marked(Unlinked(Inserted(m), gone), gone)) = Len(Inserted(m))
    BY ArtifactsKept
  <2> QED BY <1>1, <2>1
<1>5. Retains(all, gone)
  BY <1>2, RetentionKeeps
<1> HIDE DEF all, gone
<1>6. \A b \in 1..Len(all) :
        /\ backups'[b].status = IF b \in gone THEN "expired" ELSE all[b].status
        /\ backups'[b].stored = IF b \in gone THEN FALSE ELSE all[b].stored
  BY <1>1, <1>5, Zenon DEF Retains
<1>7. Len(all) \in 1..Len(all) /\ Len(all) \notin gone
  <2>1. Len(all) \in 1..Len(all) /\ Len(all) - Len(all) < Keep
    BY <1>2, ConstantsAssumption
  <2> QED BY <1>2, <1>3, <2>1, NewestStay
<1>8. /\ Len(backups') >= 1 /\ backups'[Len(backups')].status = "ready"
      /\ backups'[Len(backups')].stored
  <2>1. backups'[Len(all)].status = "ready" /\ backups'[Len(all)].stored
    BY <1>2, <1>6, <1>7, Zenon
  <2>2. Len(backups') >= 1
    BY <1>2, <1>4
  <2> QED BY <1>4, <2>1, <2>2, Zenon
<1>9. ASSUME failures = 0, ~died
      PROVE  /\ \A b \in 1..Len(all) : backups'[b].status = "ready" => backups'[b].stored
             /\ Cardinality(Ready(backups)') >= Enough(backups)'
  <2>1. /\ \A b \in 1..Len(backups) : backups[b].status = "ready" => backups[b].stored
        /\ Cardinality(Ready(backups)) >= Enough(backups)
    BY <1>9 DEF Retention
  <2>2. \A b \in 1..Len(all) : b \in 1..Len(backups) \/ b = Len(all)
    BY <1>2
  <2>3. \A b \in 1..Len(all) : backups'[b].status = "ready" => backups'[b].stored
    BY <1>2, <1>6, <2>1, <2>2
  <2>4. Ready(all) = Ready(backups) \cup {Len(all)}
    <3>1. 1..Len(all) = 1..Len(backups) \cup {Len(all)}
      BY <1>2
    <3> QED BY <1>2, <3>1 DEF Ready
  <2>5. /\ Len(all) \notin Ready(backups)
        /\ IsFiniteSet(Ready(backups)) /\ Cardinality(Ready(backups)) \in Nat
    <3>1. Len(all) \notin 1..Len(backups)
      BY <1>2
    <3>2. backups \in Seq(Artifact)
      BY DEF Types
    <3> QED BY <3>1, <3>2, ReadyCounts DEF Ready
  <2>6. Cardinality(Ready(all)) = Cardinality(Ready(backups)) + 1
    BY <2>4, <2>5, FS_AddElement
  <2>7. Cardinality(Ready(all)) >= Enough(all)
    <3>1. Keep \in Nat
      BY ConstantsAssumption
    <3> QED BY <1>2, <2>1, <2>5, <2>6, <3>1 DEF Enough
  <2>8. Cardinality(Ready(all) \ gone) >= Enough(all)
    <3>1. CASE gone = {}
      <4>1. Ready(all) \ gone = Ready(all)
        BY <3>1
      <4> QED BY <2>7, <4>1
    <3>2. CASE gone = Expired(all)
      BY <1>2, <2>7, <3>2, EnoughStay
    <3> QED BY <1>3, <3>1, <3>2
  <2>9. Ready(backups)' = Ready(all) \ gone
    BY <1>4, <1>6 DEF Ready
  <2>10. Enough(backups)' = Enough(all)
    BY <1>4 DEF Enough
  <2> QED BY <2>3, <2>8, <2>9, <2>10
<1> QED BY <1>1, <1>4, <1>8, <1>9 DEF Retention

LEMMA RetentionStep == BackupInv /\ Retention /\ [Next]_vars => Retention'
<1> SUFFICES ASSUME BackupInv, Retention, [Next]_vars PROVE Retention'
  OBVIOUS
<1>0. Types /\ failures \in Nat
  BY DEF BackupInv, Types
<1>1. ASSUME backups' = backups, failures' \in {failures, failures + 1}, died' = died
      PROVE  Retention'
  <2>1. failures' = 0 => failures = 0
    BY <1>0, <1>1
  <2> QED BY <1>1, <2>1 DEF Retention, Ready, Enough
<1>2. ASSUME NEW m \in Managers, Create(m), UNCHANGED modeVars
      PROVE  Retention'
  <2>1. CASE Register(m)
    BY <1>0, <1>2, <2>1, RegisterRetains
  <2>2. CASE RegisterFails(m)
    <3>1. backups' = Unlinked(backups, Expiring(m)) /\ failures' = failures + 1
      BY <2>2 DEF RegisterFails, Fault
    <3>2. failures' # 0
      BY <1>0, <3>1
    <3>3. /\ Len(backups') >= 1 /\ backups'[Len(backups')].status = "ready"
          /\ Keep >= 2 => backups'[Len(backups')].stored
      BY <1>0, <3>1, UnlinkedKeepsNewest
    <3> QED BY <3>2, <3>3 DEF Retention
  <2>3. CASE ReadFiles(m) \/ \E target \in 0..Len(backups) : ReadRows(m, target)
    BY <1>1, <1>2, <2>3 DEF ReadFiles, ReadRows, modeVars, constantVars
  <2> QED BY <1>2, <2>1, <2>2, <2>3 DEF Create
<1>3. ASSUME NEW m \in Managers, Restore(m), UNCHANGED modeVars
      PROVE  Retention'
  <2>1. backups' = backups /\ failures' \in {failures, failures + 1}
    BY <1>3 DEF Restore, CloseGate, Stage, MoveAside, Activate, Commit, Finish,
       RestoreFails, PutAside, PutBack, RecoveryFails, Fault
  <2> QED BY <1>1, <1>3, <2>1 DEF modeVars, constantVars
<1>4. ASSUME NEW d \in Deleters,
             (Delete(d) /\ UNCHANGED modeVars) \/ \E doc \in Docs : PathRefused(d, doc)
      PROVE  Retention'
  <2>1. backups' = backups /\ failures' \in {failures, failures + 1}
    BY <1>4 DEF Delete, StartDeletion, StageFile, DeleteRows, RowGone, StagingFails,
       TransactionFails, RestoreStaged, DeleteStaged, PathRefused, Fault
  <2> QED BY <1>1, <1>4, <2>1 DEF modeVars, constantVars, PathRefused
<1>5. ASSUME Forgets
      PROVE  Retention'
  <2>1. died'
    BY <1>5 DEF Forgets
  <2>2. CASE backups' = backups
    BY <2>1, <2>2 DEF Retention
  <2>3. ASSUME NEW m \in Managers, backups' = Unlinked(backups, Expiring(m))
        PROVE  Retention'
    BY <1>0, <2>1, <2>3, UnlinkedKeepsNewest DEF Retention
  <2> QED BY <1>5, <2>2, <2>3 DEF Forgets
<1>6. CASE UNCHANGED vars
  BY <1>1, <1>6 DEF vars, modeVars, constantVars
<1> QED BY <1>0, <1>2, <1>3, <1>4, <1>5, <1>6, DeathForgets DEF Next

LEMMA RetentionInit == Init => Retention
<1> SUFFICES ASSUME Init PROVE Retention
  OBVIOUS
<1>1. PICK all \in SUBSET Docs :
        backups = <<[status |-> "ready", stored |-> TRUE, rows |-> all,
                     tree |-> [files |-> all \ linked, quarantine |-> {}]]>>
  BY DEF Init
<1> DEFINE first == [status |-> "ready", stored |-> TRUE, rows |-> all,
                     tree |-> [files |-> all \ linked, quarantine |-> {}]]
<1>2. first.status = "ready" /\ first.stored
  OBVIOUS
<1> HIDE DEF first
<1>3. backups = <<first>>
  BY <1>1 DEF first
<1>4. Len(backups) = 1 /\ backups[1] = first
  BY <1>3
<1>5. Ready(backups) = {1}
  BY <1>2, <1>4 DEF Ready
<1>6. Cardinality(Ready(backups)) = 1
  BY <1>5, FS_Singleton
<1>7. 1 >= Enough(backups)
  BY <1>4, ConstantsAssumption DEF Enough
<1>8. \A b \in 1..Len(backups) : backups[b] = first
  BY <1>4
<1> QED BY <1>2, <1>4, <1>6, <1>7, <1>8 DEF Retention

\* Retention, failures and concurrent requests leave the newest artifact in
\* place, and as many as they must; a backup made alone is complete.
THEOREM NewestBackupSurvives == Spec => []LatestSurvives
<1>1. ASSUME BackupInv, InStep, Retention PROVE LatestSurvives
  <2>1. backups \in Seq(Artifact) /\ DOMAIN backups = 1..Len(backups)
    BY <1>1 DEF BackupInv, Types
  <2>2. Keep >= 2 => Verified(Len(backups))
    BY <1>1 DEF Retention, Verified
  <2>3. ASSUME failures = 0, ~died
        PROVE  /\ \A b \in DOMAIN backups : backups[b].status = "ready" => backups[b].stored
               /\ Cardinality({b \in DOMAIN backups : Verified(b)}) >= Enough(backups)
    <3>1. /\ \A b \in 1..Len(backups) : backups[b].status = "ready" => backups[b].stored
          /\ Cardinality(Ready(backups)) >= Enough(backups)
      BY <1>1, <2>3 DEF Retention
    <3>2. {b \in DOMAIN backups : Verified(b)} = Ready(backups)
      BY <2>1, <3>1 DEF Ready, Verified
    <3> QED BY <2>1, <3>1, <3>2
  <2>4. ASSUME Sheltered, NEW b \in DOMAIN backups
        PROVE  backups[b].rows \ GivenUp
                 \subseteq (IF backups[b].tree = NoTree THEN {} ELSE backups[b].tree.files)
    <3>1. backups[b].tree \in Tree /\ backups[b].rows \ GivenUp \subseteq backups[b].tree.files
      BY <1>1, <2>1, <2>4 DEF InStep, BackupsWhole, Holds
    <3> QED BY <3>1, NoTreeAssumption
  <2> QED BY <2>2, <2>3, <2>4 DEF LatestSurvives, Enough
<1> QED
  BY <1>1, BackupInvInit, BackupInvStep, InStepInit, InStepStep, RetentionInit,
     RetentionStep, PTL DEF Spec
=============================================================================
