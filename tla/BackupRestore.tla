--------------------------- MODULE BackupRestore ---------------------------
(***************************************************************************)
(* Backups of the whole application, their retention and their restore     *)
(* (apps/backups), and the deletion of private documents for good, with    *)
(* their account or by the retention command (apps/accounts).  What they   *)
(* share are the document rows of the database and the directory of the    *)
(* private files, which no transaction covers.                             *)
(***************************************************************************)
EXTENDS Integers, Sequences, FiniteSets, SequencesExt

CONSTANTS
    Docs,       \* private documents, each a row and a file
    Trash,      \* those in the trash for longer than the retention period
    Managers,   \* staff requests that create or restore a backup
    Accounts,   \* requests that delete the account with its documents
    Commands,   \* runs of cleanup_expired_personal_data
    WorkerOf,   \* the worker process of each request
    Keep,       \* BACKUP_RETENTION_COUNT
    NoTree,     \* a directory that does not exist
    Modes,      \* may an operation start while another one is under way?
    Links,      \* which documents may be reached through a symbolic link
    MaxBackups, MaxFailures \* bounds: artifacts, steps that fail

Deleters == Accounts \cup Commands

ASSUME ConstantsAssumption ==
    /\ Trash \subseteq Docs
    /\ DOMAIN WorkerOf = Managers \cup Accounts
    /\ Accounts \cap Commands = {}
    /\ Keep \in Nat \ {0} /\ MaxBackups \in Nat \ {0} /\ MaxFailures \in Nat
    /\ Modes \subseteq BOOLEAN /\ Links \subseteq SUBSET Docs

\* A directory tree: the files in place and those in .deletion-quarantine.
Tree == [files: SUBSET Docs, quarantine: SUBSET Docs]

ASSUME NoTreeAssumption == NoTree \notin Tree

VARIABLES
    rows,        \* PrivateDocument rows, committed
    root,        \* PRIVATE_MEDIA_ROOT
    backups,     \* BackupArtifact rows by age: status, is the file there, content
    maintenance, \* workers whose process-local cache says maintenance_mode
    manager,     \* what each staff request has done so far
    deleter,     \* what each deletion has done so far
    failures,    \* how many steps failed
    overlap,     \* the mode of this behaviour, which never changes
    died,        \* has a process been killed in the middle of its work?
    linked,      \* documents whose path is a symbolic link, which never changes
    stranded     \* documents a refused deletion has left in the quarantine

constantVars == <<overlap, died, linked>>
modeVars == <<constantVars, stranded>>
vars == <<rows, root, backups, maintenance, manager, deleter, failures, modeVars>>

EmptyTree == [files |-> {}, quarantine |-> {}]
IdleManager == [step |-> "idle", target |-> 0, rows |-> {}, tree |-> NoTree,
                previous |-> NoTree, swapped |-> FALSE]
IdleDeleter == [step |-> "idle", chosen |-> {}, todo |-> {}, staged |-> {}]

\* A backup was made of the documents of that time; some were deleted since.
Init ==
    /\ linked \in Links
    /\ \E all \in SUBSET Docs :
         /\ backups = <<[status |-> "ready", stored |-> TRUE, rows |-> all,
                         tree |-> [files |-> all \ linked, quarantine |-> {}]]>>
         /\ rows \in SUBSET all
    /\ root = [files |-> rows, quarantine |-> {}]
    /\ maintenance = {}
    /\ manager = [m \in Managers |-> IdleManager]
    /\ deleter = [d \in Deleters |-> IdleDeleter]
    /\ failures = 0
    /\ overlap \in Modes /\ died = FALSE /\ stranded = {}

Quiet == /\ \A m \in Managers : manager[m] = IdleManager
         /\ \A d \in Deleters : deleter[d] = IdleDeleter

\* A request reaches its view unless its own worker is in maintenance; a
\* command does not pass the middleware.
Served(x) == x \notin Commands => WorkerOf[x] \notin maintenance

Starts(x) == Served(x) /\ (~overlap => Quiet)

At(m, step) == manager[m].step = step

Advance(m, step) == manager' = [manager EXCEPT ![m].step = step]

Fault == failures < MaxFailures /\ failures' = failures + 1
-----------------------------------------------------------------------------
(***************************************************************************)
(* create_backup: the rows are read first, the files after them.           *)
(***************************************************************************)

\* verify_backup, for an artifact that is still listed
Verified(b) == backups[b].status = "ready" /\ backups[b].stored

\* backup_create, and backup_restore up to its safety backup of the present.
ReadRows(m, target) ==
    /\ At(m, "idle") /\ Starts(m)
    /\ target # 0 => Verified(target)
    /\ manager' = [manager EXCEPT ![m] =
         [IdleManager EXCEPT !.step = "rows read", !.target = target, !.rows = rows]]
    /\ UNCHANGED <<rows, root, backups, maintenance, deleter, failures>>

\* What goes into an archive: files, but no symbolic links.
Archived == IF root = NoTree THEN NoTree
            ELSE [files |-> root.files \ linked, quarantine |-> root.quarantine]

\* The files are archived, the archive is written to its place.
ReadFiles(m) ==
    /\ At(m, "rows read")
    /\ manager' = [manager EXCEPT ![m].step = "written", ![m].tree = Archived]
    /\ UNCHANGED <<rows, root, backups, maintenance, deleter, failures>>

\* Seeded fault: the newest artifacts are the ones that expire.
ExpiredNewest(all) ==
    {b \in DOMAIN all : /\ all[b].status = "ready"
                        /\ Cardinality({c \in 1..(b - 1) : all[c].status = "ready"}) >= Keep}

\* apply_retention: all but the newest Keep of the artifacts that are ready.
Expired(all) ==
    {b \in DOMAIN all :
        /\ all[b].status = "ready"
        /\ Cardinality({c \in (b + 1)..Len(all) : all[c].status = "ready"}) >= Keep}

Inserted(m) ==
    Append(backups, [status |-> "ready", stored |-> TRUE,
                     rows |-> manager[m].rows, tree |-> manager[m].tree])

\* A safety backup expires nothing.
Expiring(m) == IF manager[m].target = 0 THEN Expired(Inserted(m)) ELSE {}

Unlinked(all, gone) ==
    [b \in DOMAIN all |-> IF b \in gone THEN [all[b] EXCEPT !.stored = FALSE] ELSE all[b]]

Marked(all, gone) ==
    [b \in DOMAIN all |-> IF b \in gone THEN [all[b] EXCEPT !.status = "expired"] ELSE all[b]]

\* The transaction of create_backup commits.
Register(m) ==
    /\ At(m, "written") /\ Len(backups) < MaxBackups
    /\ backups' = Marked(Unlinked(Inserted(m), Expiring(m)), Expiring(m))
    /\ manager' = [manager EXCEPT ![m] =
         IF manager[m].target = 0 THEN IdleManager ELSE [@ EXCEPT !.step = "saved"]]
    /\ UNCHANGED <<rows, root, maintenance, deleter, failures>>

\* ... or it fails, and files that retention unlinked stay gone.
RegisterFails(m) ==
    /\ At(m, "written") /\ Len(backups) < MaxBackups /\ Fault
    /\ backups' = Unlinked(backups, Expiring(m))
    /\ manager' = [manager EXCEPT ![m] = IdleManager]
    /\ UNCHANGED <<rows, root, maintenance, deleter>>
-----------------------------------------------------------------------------
(***************************************************************************)
(* restore_backup                                                          *)
(***************************************************************************)

\* cache.set("maintenance_mode", True), in the cache of this process
CloseGate(m) ==
    /\ At(m, "saved")
    /\ maintenance' = maintenance \cup {WorkerOf[m]}
    /\ Advance(m, "closed")
    /\ UNCHANGED <<rows, root, backups, deleter, failures>>

\* cache.delete("maintenance_mode") ends the request.
OpenGate(m) ==
    /\ maintenance' = maintenance \ {WorkerOf[m]}
    /\ manager' = [manager EXCEPT ![m] = IdleManager]

\* The archive is verified again and unpacked next to the private root.
Stage(m) ==
    /\ At(m, "closed")
    /\ IF manager[m].target \in DOMAIN backups /\ backups[manager[m].target].stored
       THEN Advance(m, "staged") /\ UNCHANGED maintenance
       ELSE OpenGate(m)
    /\ UNCHANGED <<rows, root, backups, deleter, failures>>

\* os.replace(private_root, previous), if there is a private root.
MoveAside(m) ==
    /\ At(m, "staged")
    /\ manager' = [manager EXCEPT ![m].step = "aside", ![m].previous = root]
    /\ root' = NoTree
    /\ UNCHANGED <<rows, backups, maintenance, deleter, failures>>

Unpacked(m) ==
    LET tree == backups[manager[m].target].tree
    IN  IF tree = NoTree THEN EmptyTree ELSE tree

\* os.replace onto a directory needs it to be absent or empty.
Replaceable(tree) == tree \in {NoTree, EmptyTree}

\* os.replace(staged_files, private_root)
Activate(m) ==
    /\ At(m, "aside")
    /\ IF Replaceable(root)
       THEN /\ root' = Unpacked(m)
            /\ manager' = [manager EXCEPT ![m].step = "active", ![m].swapped = TRUE]
       ELSE Advance(m, "failing") /\ UNCHANGED root
    /\ UNCHANGED <<rows, backups, maintenance, deleter, failures>>

\* Seeded fault: rows that are not in the snapshot survive it.
CommitMerged(m) ==
    /\ At(m, "active")
    /\ rows' = rows \cup backups[manager[m].target].rows
    /\ Advance(m, "committed")
    /\ UNCHANGED <<root, backups, maintenance, deleter, failures>>

\* _replace_database and the commit
Commit(m) ==
    /\ At(m, "active")
    /\ rows' = backups[manager[m].target].rows
    /\ Advance(m, "committed")
    /\ UNCHANGED <<root, backups, maintenance, deleter, failures>>

\* The previous tree and the stage are removed, the gate is opened.
Finish(m) ==
    /\ At(m, "committed")
    /\ OpenGate(m)
    /\ UNCHANGED <<rows, root, backups, deleter, failures>>

\* A step inside the try block fails: file system, database or commit.
RestoreFails(m) ==
    /\ manager[m].step \in {"staged", "aside", "active"} /\ Fault
    /\ Advance(m, "failing")
    /\ UNCHANGED <<rows, root, backups, maintenance, deleter>>

\* except: the tree that was activated is put aside ...
PutAside(m) ==
    /\ At(m, "failing")
    /\ root' = IF manager[m].swapped THEN NoTree ELSE root
    /\ Advance(m, "recovering")
    /\ UNCHANGED <<rows, backups, maintenance, deleter, failures>>

\* Seeded fault: the previous tree is put back only after the activation.
PutBackSwapped(m) ==
    /\ At(m, "recovering")
    /\ root' = IF manager[m].swapped /\ Replaceable(root) THEN manager[m].previous ELSE root
    /\ OpenGate(m)
    /\ UNCHANGED <<rows, backups, deleter, failures>>

\* ... and the previous one put back; finally: what is left of it is removed.
PutBack(m) ==
    /\ At(m, "recovering")
    /\ root' = IF manager[m].previous # NoTree /\ Replaceable(root)
               THEN manager[m].previous ELSE root
    /\ OpenGate(m)
    /\ UNCHANGED <<rows, backups, deleter, failures>>

\* An error in the except block: finally still removes the previous tree.
RecoveryFails(m) ==
    /\ manager[m].step \in {"failing", "recovering"} /\ Fault
    /\ OpenGate(m)
    /\ UNCHANGED <<rows, root, backups, deleter>>
-----------------------------------------------------------------------------
(***************************************************************************)
(* delete_account_and_data and permanently_delete_private_document         *)
(***************************************************************************)

Busy(d, step) == deleter[d].step = step

InPlace == IF root = NoTree THEN {} ELSE root.files
InQuarantine == IF root = NoTree THEN {} ELSE root.quarantine

\* The names of the files are read before any row is locked: all of an
\* account's documents, one document in the trash at a time for a command.
StartDeletion(d, chosen) ==
    /\ Busy(d, "idle") /\ Starts(d)
    /\ IF d \in Accounts THEN chosen = rows
       ELSE \E doc \in rows \cap Trash : chosen = {doc}
    /\ deleter' = [deleter EXCEPT ![d] =
         [step |-> "staging", chosen |-> chosen, todo |-> chosen, staged |-> {}]]
    /\ UNCHANGED <<rows, root, backups, maintenance, manager, failures>>

\* One os.replace into the quarantine; a file that is not there is skipped.
StageFile(d, doc) ==
    /\ Busy(d, "staging") /\ doc \in deleter[d].todo \ (linked \cap InPlace)
    /\ IF doc \in InPlace
       THEN /\ root' = [files |-> root.files \ {doc}, quarantine |-> root.quarantine \cup {doc}]
            /\ deleter' = [deleter EXCEPT ![d].todo = @ \ {doc}, ![d].staged = @ \cup {doc}]
       ELSE /\ deleter' = [deleter EXCEPT ![d].todo = @ \ {doc}]
            /\ UNCHANGED root
    /\ UNCHANGED <<rows, backups, maintenance, manager, failures>>

\* _safe_private_path refuses a symbolic link.  Its error is no OSError and comes
\* from outside the try block of the transaction: the deletion ends, and what it
\* has staged so far stays in the quarantine.
PathRefused(d, doc) ==
    /\ Busy(d, "staging") /\ doc \in deleter[d].todo \cap linked \cap InPlace
    /\ deleter' = [deleter EXCEPT ![d] = IdleDeleter]
    /\ stranded' = stranded \cup deleter[d].staged
    /\ UNCHANGED <<rows, root, backups, maintenance, manager, failures, constantVars>>

\* The transaction: an account takes every row of its owner with it, a command
\* locks the row it chose, which must still be there.
DeleteRows(d) ==
    /\ Busy(d, "staging") /\ deleter[d].todo = {}
    /\ d \in Commands => deleter[d].chosen \subseteq rows
    /\ rows' = IF d \in Accounts THEN {} ELSE rows \ deleter[d].chosen
    /\ deleter' = [deleter EXCEPT ![d].step = "deleted"]
    /\ UNCHANGED <<root, backups, maintenance, manager, failures>>

\* The row of the document is gone: PrivateDocument.DoesNotExist.
RowGone(d) ==
    /\ Busy(d, "staging") /\ deleter[d].todo = {}
    /\ d \in Commands /\ ~(deleter[d].chosen \subseteq rows)
    /\ deleter' = [deleter EXCEPT ![d].step = "undoing"]
    /\ UNCHANGED <<rows, root, backups, maintenance, manager, failures>>

\* An OSError while a file is staged, caught in _stage_private_file_names ...
StagingFails(d) ==
    /\ Busy(d, "staging") /\ deleter[d].todo # {} /\ Fault
    /\ deleter' = [deleter EXCEPT ![d].step = "undoing"]
    /\ UNCHANGED <<rows, root, backups, maintenance, manager>>

\* ... or any exception of the transaction, caught by both deletions.
TransactionFails(d) ==
    /\ Busy(d, "staging") /\ deleter[d].todo = {} /\ Fault
    /\ deleter' = [deleter EXCEPT ![d].step = "undoing"]
    /\ UNCHANGED <<rows, root, backups, maintenance, manager>>

\* _restore_staged_files: what is still in the quarantine goes back, unless an
\* OSError stops it: then the rest stays.
RestoreStaged(d, stuck) ==
    LET back == (deleter[d].staged \cap InQuarantine) \ stuck
    IN  /\ Busy(d, "undoing") /\ stuck \subseteq deleter[d].staged \cap InQuarantine
        /\ IF stuck = {} THEN UNCHANGED failures ELSE Fault
        /\ root' = IF root = NoTree THEN NoTree
                   ELSE [files |-> root.files \cup back, quarantine |-> root.quarantine \ back]
        /\ deleter' = [deleter EXCEPT ![d] = IdleDeleter]
        /\ UNCHANGED <<rows, backups, maintenance, manager>>

\* Seeded fault: the files stay in the quarantine.
DeleteStagedNot(d, kept) ==
    /\ Busy(d, "deleted") /\ kept = {}
    /\ deleter' = [deleter EXCEPT ![d] = IdleDeleter]
    /\ UNCHANGED <<rows, root, backups, maintenance, manager, failures>>

\* _delete_staged_files; a file whose unlink fails stays in the quarantine.
DeleteStaged(d, kept) ==
    LET gone == deleter[d].staged \ kept
    IN  /\ Busy(d, "deleted") /\ kept \subseteq deleter[d].staged
        /\ IF kept = {} THEN UNCHANGED failures ELSE Fault
        /\ root' = IF root = NoTree THEN NoTree
                   ELSE [root EXCEPT !.quarantine = @ \ gone]
        /\ deleter' = [deleter EXCEPT ![d] = IdleDeleter]
        /\ UNCHANGED <<rows, backups, maintenance, manager>>
-----------------------------------------------------------------------------
(***************************************************************************)
(* A worker is killed when its 30 seconds to stop are over.  What was not  *)
(* committed is rolled back, what was done to files stays, its own cache   *)
(* and everything its threads knew is lost.                                *)
(***************************************************************************)

\* Killed before the commit, retention may have unlinked its files already.
LeftUnlinked(killed) ==
    {backups} \cup {Unlinked(backups, Expiring(m)) :
                      m \in {n \in killed : At(n, "written") /\ Len(backups) < MaxBackups}}

WorkerDies(w) ==
    LET killed == {m \in Managers : WorkerOf[m] = w}
        stopped == {d \in Accounts : WorkerOf[d] = w}
    IN  /\ ~died /\ died' = TRUE
        /\ backups' \in LeftUnlinked(killed)
        /\ maintenance' = maintenance \ {w}
        /\ manager' = [m \in Managers |-> IF m \in killed THEN IdleManager ELSE manager[m]]
        /\ deleter' = [d \in Deleters |-> IF d \in stopped THEN IdleDeleter ELSE deleter[d]]
        /\ UNCHANGED <<rows, root, failures, overlap, linked, stranded>>

CommandDies(d) ==
    /\ ~died /\ died' = TRUE
    /\ deleter' = [deleter EXCEPT ![d] = IdleDeleter]
    /\ UNCHANGED <<rows, root, backups, maintenance, manager, failures>>
    /\ UNCHANGED <<overlap, linked, stranded>>
-----------------------------------------------------------------------------
Create(m) ==
    \/ \E target \in 0..Len(backups) : ReadRows(m, target)
    \/ ReadFiles(m) \/ Register(m) \/ RegisterFails(m)

Restore(m) ==
    \/ CloseGate(m) \/ Stage(m) \/ MoveAside(m) \/ Activate(m) \/ Commit(m) \/ Finish(m)
    \/ RestoreFails(m) \/ PutAside(m) \/ PutBack(m) \/ RecoveryFails(m)

Delete(d) ==
    \/ \E chosen \in SUBSET rows : StartDeletion(d, chosen)
    \/ \E doc \in Docs : StageFile(d, doc)
    \/ DeleteRows(d) \/ RowGone(d) \/ StagingFails(d) \/ TransactionFails(d)
    \/ \E stuck \in SUBSET deleter[d].staged : RestoreStaged(d, stuck)
    \/ \E kept \in SUBSET deleter[d].staged : DeleteStaged(d, kept)

Next == \/ \E m \in Managers : (Create(m) \/ Restore(m)) /\ UNCHANGED modeVars
        \/ \E d \in Deleters : Delete(d) /\ UNCHANGED modeVars
        \/ \E d \in Deleters, doc \in Docs : PathRefused(d, doc)
        \/ \E w \in Range(WorkerOf) : WorkerDies(w)
        \/ \E d \in Commands : CommandDies(d)

Spec == Init /\ [][Next]_vars
-----------------------------------------------------------------------------
\* Operations come one at a time, at most one step failed, none was killed.
Sheltered == ~overlap /\ failures <= 1 /\ ~died

\* Documents the code gives up: backups leave symbolic links out, so a restore
\* loses them, and a refused deletion leaves what it had staged in the quarantine.
\* Without links there are none.
GivenUp == linked \cup stranded

\* When nothing is under way and operations came one at a time, every document
\* row has its file: an interrupted restore or deletion has put back what it had
\* moved (the except blocks of restore_backup, of the staging and of both
\* deletions), unless that failed as well.  Documents given up are exempt.
RowsHaveFiles == Quiet /\ Sheltered => rows \ GivenUp \subseteq InPlace

\* One at a time, the restore commits with rows and files as they were when the
\* backup was made, whatever failures and killed processes have left of the
\* private root before (restore_backup).
RestoredExactly ==
    [][\A m \in Managers :
         (~overlap /\ At(m, "active") /\ manager'[m].step = "committed")
            => /\ rows' = backups[manager[m].target].rows
               /\ root' = Unpacked(m)]_vars

\* No file outlives its row once nothing is under way, except in the quarantine
\* after an unlink that failed (_delete_staged_files) or a deletion refused there.
NoOrphans ==
    Quiet => /\ InPlace \subseteq rows
             /\ failures = 0 => InQuarantine \subseteq stranded

\* ... when operations came one at a time and at most one step failed.
DeletedMeansErased == Sheltered => NoOrphans

\* Whatever retention, failures and concurrent requests do, the newest artifact
\* can be restored where at least two are kept: with a retention of one, a
\* transaction that fails after the unlink leaves none.  As long as no transaction
\* ended after its files were unlinked, every artifact that is listed as ready
\* can, and no more expire than must (apply_retention).  One at a time, a backup
\* holds the file of every row it holds but of those given up (create_backup).
LatestSurvives ==
    /\ Keep >= 2 => Verified(Len(backups))
    /\ failures = 0 /\ ~died =>
         /\ \A b \in DOMAIN backups : backups[b].status = "ready" => backups[b].stored
         /\ Cardinality({b \in DOMAIN backups : Verified(b)})
              >= (IF Len(backups) < Keep THEN Len(backups) ELSE Keep)
    /\ Sheltered =>
         \A b \in DOMAIN backups :
            backups[b].rows \ GivenUp
              \subseteq (IF backups[b].tree = NoTree THEN {} ELSE backups[b].tree.files)
=============================================================================
