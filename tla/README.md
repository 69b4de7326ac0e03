# BrickMissing: formal models

BrickMissing (release 8.6.3) is a Django application that keeps a LEGO
collection: sets, the bricks they need and the bricks that are missing, a
warehouse of loose bricks, orders, backups. This directory holds TLA+ models of
its core, the TLC runs that check them and TLAPS proofs about them. Every
definition is translated from the Python source; `PROJECT.json` says from which
lines.

Contents: 1 inventory of the system, 2 plan, 3 the modules, 4 the runs and their
bounds, 5 fairness, 6 proofs, 7 disagreements found, 8 abstractions and what is
not modelled.

## 1. Inventory

### How the system runs

Production is Nginx, Gunicorn with three workers of two threads
(`deploy/gunicorn.conf.py`) and MariaDB at READ COMMITTED without
ATOMIC_REQUESTS (`config/settings/production.py`): a view is one transaction only
where it says `@transaction.atomic`. The cache is a LocMemCache, one per worker
process (`config/settings/base.py`). There is no task queue; besides requests,
management commands run from a shell or cron. So up to six requests and some
commands work on the same rows, and what protects them is `SELECT ... FOR
UPDATE` where the code asks for it, the constraints of the tables, and nothing
else.

### Components

| Component | State | Operations | Hard behaviour | Correct when |
| --- | --- | --- | --- | --- |
| Catalog (`apps/catalog`, figures in `apps/organizer`) | sets, inventory positions, figures and their parts, Part rows that mirror positions | forms, inline quantities, bulk requests per set, create-missing, trash, reports | one number is stored in several rows; a dozen writers and half a dozen pages that count; matching by element id, number and color; opposite lock orders | mirrors agree with positions unless there is a known cause; every page counts the same, each piece once; marker and constraint hold; trash is frozen; transactions act as one step and all end |
| Rebrickable sync (`apps/integrations/rebrickable_sync.py`) | the same rows | refresh, batch import, standalone figure, initialization of a purchase | replies lose, gain and reorder rows; a rate limit in the middle; user data between refreshes | user state survives; open rows are the reply; a refresh fails only when it must |
| Inventory (`apps/inventory`) | stock rows, movements, locations | create, adjust, change, archive a location | concurrent receipts and absolute forms; NULL locations escape the unique constraint | the ledger explains the stock |
| Orders (`apps/orders`) | orders, items | import, forms, receive | a receipt reads rows of other receipts; rows saved whole from stale forms; an import is confirmed after what it covers has changed | each receipt is counted once; an order is received exactly when its items are; an import covers what it marks |
| Backups (`apps/backups`) | artifacts, archive files, maintenance flag | create, retain, verify, restore | two stores without a common transaction; failures and a killed process between renames; gate in one process | restore is all or nothing; artifacts that are listed can be restored |
| Documents and accounts (`apps/accounts/account_deletion.py`, `apps/media_library`) | document rows, private files, quarantine | delete account, delete expired documents | files move before rows are deleted; command and request on one document | every row has its file unless a refused path stopped the staging, no file outlives its row |
| Accounts (`apps/accounts`, `apps/core/middleware.py`) | users, links to change an address, sessions and the list of them, second factor | register, verify, change address or password, log in and out, end sessions, anonymise, delete | rows saved whole after they were read; links and letters that outlive what they were sent for; keys that change within a request | an address in use was confirmed; one link works; an ended account gets nothing back; every session can be seen and ended |
| Organizer (`apps/organizer`) | MOCs and their versions, wishlist, labels, collections, loans | forms, activation of a version, purchase of a wish, label studio | whole-row saves, replacement of parts, a session that carries a wish, answers that come late | the version activated is the version stored; the wish that was bought is marked; what was chosen is printed, once |
| Data portability (`apps/data_portability`) | import batches | preview, confirmation by one of four strategies, export | two confirmations of one batch; rows found by set number and not by key; duplicates counted by another rule than the one that writes | a batch is applied once; each strategy does what the page says; an export read back changes nothing |
| V7 migration | rows with a `legacy_id`, archive of V7 records | migrate, dry run, validate | repeated runs between changes of both sides; references that are missing | nothing is lost or doubled, and to repeat it changes nothing |
| Reconciliation (`apps/catalog/owned_quantity_reconciliation.py`) | none of its own | report, plan, apply | the plan is older than the rows it is applied to | stale plans are refused |
| Core | rate-limit counters, saved views | limit, quality check, search | counters per process | |
| Audit | append-only events | insert | | |
| Deployment (`scripts/`) | release link, schema | build, verify, deploy, roll back | failure at any line | one complete release is active |
| Browser scripts (`static/js`) | form of the label studio, queue of a bulk refresh | ask for labels, refresh all sets | late and failed answers | what was chosen is kept; every set is tried once |
| V7 runtime (`brickmissing/`, `frontend/`, `server.py`) | | | inert reference (`docs/ARCHITECTURE.md:21`) | |
| Documentation, legal | | render | none | |

### How they interact

The catalog services are called by the views of `catalog` and `organizer` and,
indirectly, by the sync, which writes the same positions and then brings the
mirrors back in line in its own way (`_reconcile_missing_part_requirement`). The
catalog's Part and the warehouse's stock row are separate figures on purpose; an
order connects to both, to Parts when an import is confirmed and to stock when
an item is received. A wish becomes a set through a form of the catalog and is
marked by the first refresh of that set; the session of the owner carries it from
one to the other. The end of an account touches its sessions, its links and its
documents. Backups read and replace every table and the tree of the
private files, which the deletion of accounts changes as well.

## 2. Plan

1. *done* `CatalogQuantities`, `CatalogProperties`: the requests of the catalog.
2. *done* `QuantityService`, `QuantityLocks`: the same quantities as concurrent
   transactions that implement atomic ones.
3. *done* `StockLedger`, `OrderReceipts`: goods receipt, likewise.
4. *done* `RebrickableSync`: composed with the catalog (it EXTENDS
   `CatalogProperties`, and the catalog's requests are steps of it).
5. *done* `BackupRestore`: backups, retention, restore, deletion of documents.
6. *done* `Reconciliation`: the repair of diverged mirrors, composed with the
   catalog in the same way.
7. *done* `DataImport`: import and export, composed with the catalog likewise.
8. *done* `CatalogReports`: what the pages, labels and exports count of the
   catalog's rows, as invariants of the run `catalog`.
9. *done* `MocVersions`, `Wishlist`, `LabelSheets`, `LabelStudio`, `OrderImport`:
   the desks of the organizer and the import of orders.
10. *done* `LegacyMigration`, `AccountAddresses`, `AccountSessions`.
11. `RecoveryCodes`: TOTP and recovery codes, attempt counters.
12. `WarehouseLocations`: archiving against concurrent receipts; `Collections`:
    memberships, also beside their transfer when an account ends.
13. `Deployment`: switch, smoke test, rollback; `RateLimit`; `BulkRefresh`: the
    queue of `set-bulk-sync.js`.

## 3. Modules

**PartStatus**: the statuses of a Part, which of them claim possession, and how
a status follows a shortage (`apps/catalog/part_status.py`).

**CatalogQuantities**: one owner's catalog. `sets`, `figures`, `allocs` (the
positions: inventory items and figure parts) and `parts` are the tables; an
action is a request with everything it calls: the service, the mirrors, the
marker, the status. `Matching` is `_matching_authoritative_allocations`,
`SetPartOwnedQuantity` and `SetAuthoritativeOwned` are the two services,
`CreateMissing`, `SetInventoryComplete`, `MarkAllSparesPresent` and so on are
named after the views. A request that fails rolls back, so its failure is the
action not being enabled. Here a request is one step.

**CatalogProperties**: what the catalog promises; separate so that the sync can
be checked against it.

**CatalogReports**: nothing changes here. Each operator is a page or an export
as it computes its figures from the rows: `Dashboard`, `Completeness` and
`SetList`, `FigureRecord` in Python beside `FigureOrder` in SQL,
`MissingPartLabels`, `ListedParts` with its groups, `ExportRows`,
`UnavailableMatches`. `BooksAgree` and `CountedOnce` relate them to each other in
every state the requests reach.

**QuantityService / QuantityLocks**: the two services and the status change
again, this time as transactions that lock a row at a time, wait, are aborted as
deadlock victims, and commit from what they have read. `QuantityService` is the
same in one step each; `Serializable` says the first implements the second.

**StockLedger / OrderReceipts**: `receive_item` with its locks, its
`get_or_create` (which may insert concurrently and collide), its unlocked look at
the other items, beside the forms. `StockLedger` is the abstract specification;
`ImplementsLedger` the refinement.

**OrderImport**: a preview allocates the lines of a file to what is short
(`Give` is a round of the loop over what is short) and signs it; `OpenConfirmation` reads
the preview and looks for the order, `StoreOrder` writes it and the statuses.
Shortages change in between.

**RebrickableSync**: `synchronize_set` and its callers. A reply is a set of rows
per set and figure; the refresh places it (`Placed`), reconciles the Parts,
closes what the reply no longer has, attaches figures and their components. Any
of the Parts that a row names may be the first one, and the rows come in any
order. The requests of the catalog run in between.

**Reconciliation**: `classify_owned_quantity_consistency` and
`apply_reconciliation` as the command calls them. `Classify` prints the plan,
`Apply` is the transaction that locks, looks again (`NothingChanged`) and writes
`Repaired` Parts and the positions of the `Givers`. Requests of the catalog run
before, after and in between; the three that set one amount record an audit event
(`edits`), which is the evidence the next classification works with.

**DataImport**: `import_json` and `import_csv` store a batch (`Preview`),
`import_confirm` looks at it (`LookAt`), locks it and writes its rows (`Confirm`,
`ConfirmFails`). What the loops of the confirmation do is one fold over the rows
of the file (`Imported`); its state carries the four tables, whether a row has
raised (`ok`) and whether the keys of the instance have run out (`full`).
`Exported` is `export_json`.

**BackupRestore**: `create_backup`, `apply_retention`, `restore_backup` and the
two deletions, a step per effect on disk or database. Any step may fail
(`MaxFailures`), which takes the code's own way back: an OSError while files are
staged (`StagingFails`) and an exception of the transaction (`TransactionFails`)
lead to `RestoreStaged`, which may stop half-way. A path that is refused, here a
symbolic link (`linked`, of `Links`), leads nowhere: `PathRefused` ends the
deletion and leaves what it has staged (`stranded`). A process may be killed at
any point (`died`), which takes no way back. `Modes` says whether an operation may
start while another one is under way; `overlap` remembers that one did.

**MocVersions**: a form is two steps, the row it reads and the row it saves;
`LockMoc`, `DeleteParts` and `CommitActivation` are the activation, whose lock
only other activations ask for.

**Wishlist**: a request has the session as it was at its start; a form checks for
duplicates, asks Rebrickable and saves. `Remembered` and `Marked` are the
dictionary in the session.

**LabelSheets / LabelStudio**: the first has the labels of every type and the
places they get; the second is the form in the browser, the question it has
asked, the answer that is late, and what the view makes of a question.

**LegacyMigration**: the whole command is one transaction, so `Migrate` is one
step: a fold over the tables in the command's order, each with the key its
`update_or_create` looks for, what it does with a row whose references are
missing, and whether it caps amounts. `Validate` compares both sides. Both sides
change in between: rows are edited and deleted, addresses confirmed, accounts
closed (`V8Closes`) or deleted with all they own (`V8DeletesAccount`); the end of
an account also erases the details of its audit events (`Minimized`), by which the
command and the validation would find them again.

**AccountAddresses / AccountSessions**: users, links and letters; users, sessions
and the list of them. A request reads at its start and writes later; what it
writes is a field or the whole row, as in the code.

**MC\*** modules give the constants their small values. Operators marked "Seeded
fault" in the modules are variants of the code with one plausible mistake; they
take no part in the specification and serve to see that a property can fail.

## 4. Runs

| Run | Instance | Shows |
| --- | --- | --- |
| `catalog` | one set with two items and one Part, with an item, a figure part of one brick and two Parts, or with a figure part without element id | all catalog properties, spares included, what a second mirror can and cannot break, and that pages and exports agree |
| `quantity_locks` | three requests of nine kinds, three positions, two Parts | reads stay current, mirrors agree, transactions are atomic, every request ends |
| `order_receipts` | three requests of fourteen, four items, three places | gapless ledger, receipts counted once, every request ends |
| `order_complete` | two receipts that complete an order | violated, see 7 |
| `sync` | replies that require one piece of a brick, one and two spares, or nothing, and lose a component; rate limits, loose figures | user state kept, rows and components follow the reply, a mirror goes on showing its row |
| `sync_refused` | as above | violated, see 7 |
| `reconciliation` | two items and one Part, or one item and two Parts; one request between the two looks at the data | a repair writes what it printed or nothing, keeps the newest recorded amount, settles what it can |
| `data_import` | three files, two confirmations, two sets that have one number in turn | a batch is applied once, SKIP leaves what is there, an export imported again changes no amount |
| `import_error` | as above | violated, see 7 |
| `backups` | two documents, a staff request, an account deletion and the command, one at a time or at once on two workers, two failures or a killed process, three backups | rows and files stay in step, a restore brings both back, the newest artifact can be restored |
| `organizer` | one of four desks: two MOC requests and two versions; two wishes, two purchases, two requests; four sets, six types of labels, one search, collected numbers in rows of two and three on a label; three short rows, two files, two confirmations | a version is restored exactly, a bought wish is marked, the chosen sets are kept and printed once, an import covers what it marks |
| `accounts` | one of three desks: rows of every table of V7 with what they refer to; two people, two addresses, two requests; one account, three session keys, two requests | nothing is lost or doubled, every address was confirmed, every session is listed |

The desks of a run share no variables; a behaviour is about one of them
(`desk`), so that a run covers all of them without their product.

Why the bounds are enough:

* Catalog: the interesting cases are a position alone, two of one brick (normal
  and spare, or item and figure part), a blank element id beside an exact one,
  and one or two Parts; each is in one of the three parts of the instance
  (`ItemsOrMirrors`). Quantities up to 2 tell none, some and all apart. Items
  are interchangeable model values (`SameKinds`), here and in the run `sync`,
  where components are as well: no `CHOOSE` over them has more than one outcome.
* Sync: the requirement shrinks below what is owned, a spare row requires
  another amount than the normal row of its brick. While the figure exists there
  is no Part and at most one row of the set (`FigureOrMirrors`), because figures
  and mirrors meet only in the catalog's own requests, which the run `catalog`
  covers.
* Reconciliation: two Parts of one position and one Part of two positions are
  the two shapes the classification tells apart (`RowsAtOnce`); two remembered
  events are enough for one side to be newer (`FewEdits`); a plan that prints
  nothing is not followed (`PrintingRuns`); the command is asked for the whole
  catalog (`AskedFilters`), and one request between its two looks already
  changes every field of a state token (`MaxRequests`); a set is in the trash
  only while a command runs (`SetInUse`), when it can change what the command
  sees.
* Import: the files have a set with all its contents, rows of a set that is not
  in the file, and one kind twice; two Parts are what a file can add to one that
  is there. `SmallAmounts` stops after a merge or two, `ItemOrFigure` leaves one
  position, `PartsInUse` leaves only sets in the trash, `SecondSet` has a number
  used again once its set is in the trash, `DoubleClick` makes both
  confirmations of one strategy, `HasRoom` keeps an import from needing a key
  the instance lacks; there is one batch at a time, and requests between a look
  and its lock commute with the look. Items and Parts are interchangeable model
  values, so are confirmations.
* Locks: a cycle needs two requests, three let one interfere with a cycle of the
  other two.
* Orders: four stock rows are as many as three requests can need.
* Backups: with `Keep = 2` three artifacts make one expire; two documents tell
  the one in the trash from the other, and one that is a link leaves the other
  to be staged before it or after it; with overlap one document is enough for
  operations to meet, no document is a link, and a killed process is followed
  without further failures (`FewFaults`).
* MOCs: two activations and a form are what can interleave, three part rows let
  one be left over (`FewForms`, `MaxParts`).
* Wishes: with overlap one wish suffices, since what is lost then is exempt
  (`OneWish`).
* Labels: capacities of two and three have sheets that are full, just full and
  not; the code has rows of four numbers and twenty on a label of collected ones
  (`organizer/views.py:764-780`, 871), the run rows of two and three on a label
  (`CutColumns`, `ChunkSize`), so that with three sets or four there are cuts to the
  right and below, a last row that is not full and a second label; that the cuts
  are right for rows of any length is proved (`CutsAlwaysMeet`). Two of the four
  sets stay chosen unless none is; unusual inputs come one at a time (`QuietStudio`).
* Order imports: one preview is confirmed by both requests, one row changes
  before it is imported, an order comes twice (`OnePreview`, `MaxImports`).
* Migration: every row is tried with all it refers to and with each of those
  missing; V7 changes once and V8 changes once, in either order (`MaxEditions`,
  `MaxChanges`), and the command and the validation run at any time. Closed and
  deleted accounts are followed with every row. What `FewChanges` cuts, as long as
  V7 has rows besides users, is what touches only users: a user of V7 that turns
  into one no source begins with before V8 has changed, and accounts registered
  in V8 or addresses that no user of V7 has. Without rows these are followed.
* Addresses: the second person only holds an address (`Guest`).
* Sessions: a login, a change of its key and a session to end besides are three
  keys; passwords 1 and 2 tell the old from the new (`Order`, `MaxPasswords`).

The constants and constraints that only bound a run are `PositionForms`,
`PartForms` (of the catalog and of MOCs), `InventoryReplies`, `FigureReplies`,
`ItemsOrMirrors`, `FigureOrMirrors`, `AskedFilters`, `MaxRequests`, `RowsAtOnce`,
`FewEdits`, `PrintingRuns`, `SetInUse`, `Files`, `SmallAmounts`, `ItemOrFigure`,
`PartsInUse`, `DoubleClick`, `SecondSet`, `HasRoom`, `Asked`, `Stored`, `Opening`,
`ItemForms`, `StockForms`, `MaxBackups`, `MaxFailures`, `FewFaults`, `MaxParts`,
`FewForms`, `PostedStatuses`, `OneWish`, `Queries`, `FirstPlaces`, `CapacityOf`,
`ChunkSize`, `CutColumns`, `CheckedCount`, `QuietStudio`, `CsvFiles`,
`Shortfalls`, `FirstShortfall`, `MaxImports`, `OnePreview`, `Sources`,
`MaxEditions`, `MaxChanges`, `FewChanges`, `Guest`, `MaxPasswords` and `Order`.

The runs `backups`, `organizer` and `accounts` say `CHECK_DEADLOCK FALSE`: they
stop when the artifacts, keys or rows of their bounds are used up. Everywhere
else a deadlock would be an error.

## 5. Fairness

Only `QuantityLocks` and `OrderReceipts` state fairness: `WF` of each request's
steps. A thread of a worker keeps running its view, and the database grants a
lock that has become free and aborts one transaction of a cycle. No fairness
between requests, no FIFO of waiting transactions and no retry is assumed; the
code retries nothing.

## 6. Proofs

All theorems hold for every value of the constants that satisfies the named
assumptions of the modules. These say that sets of keys are disjoint, that a null
value is none of the rows it stands beside (`NoAccount`, `Nobody`, `NoTree`, ...),
that the tables summed over are finite (`KeysAssumption`, `RowsAssumption`), and
what the code makes sure of before it writes: forms have the types of their
fields, a page of a reply names each key once (`RepliesAssumption`, from the set
of keys seen at `apps/integrations/rebrickable_sync.py:184`), an unavailable
reply names no figures, a file has finitely many figures, a line that was parsed
has an amount, the form of the studio begins at a place from 1 on, at least one
backup is kept.

* `SumTheorems`: the models take sums with `MapThenSumSet`. That such a sum does
  not depend on the order, changes by one summand when one row changes, is zero
  exactly when all summands are, and can be taken bucket by bucket
  (`TotalByBuckets`) or over the pairs of a grouping (`TotalOfPairs`), is proved
  once, from the well-foundedness of the finite subsets and of the natural
  numbers, applied to the set of counterexamples. The loops of the code are
  `FoldLeft`s, which are folds over the finite set of places of a sequence, and
  their value is a `CHOOSE`. `FoldSolved` shows that what is chosen exists, and
  `FoldStays` that it keeps whatever a round of the loop keeps: with them a
  loop is reasoned about by its invariant.
* `CatalogQuantities_proofs`: `TypeCorrect`, `PresenceMarkerHolds` and
  `ConstraintNeverTrips` from the inductive invariant `IInv`: types, the marker,
  and owned never above quantity. The first two are needed for each other
  because a writer computes the marker from fields of the row. There is one
  lemma per service, which the lemmas for the groups of requests cite.
  `TrashStaysFrozen` is an action property from the type invariant alone.
  `PossessionIsEarned` and `DivergenceIsCaused` go through every request once
  more: a status of possession is written only where the sum of what is missing
  is zero, and two figures that agree stay equal because the positions and the
  Part are written with the same sum, or neither is. `RowsMakeBooksAgree` shows
  that typed rows and the foreign key of a component are all `BooksAgree` needs:
  the dashboard's positions are taken apart by set and by loose figure, or by
  brick, and what a page leaves out counts nothing.
* `QuantityLocks_proofs`: `LockedReadsStayCurrent` from `LockInv`: locks are
  exclusive, a request holds the rows its stage needs, and what it has read is
  current. `LocksImplementService`: each commit is the atomic request of
  `QuantityService`, every other step stutters, provided no two Parts share a
  position (with two, the status change reads positions another request may be
  writing). The status change reads without locks; that its reads stay current
  needs the lock on the Part that every writer of its positions takes too.
  `RowsAgree` has no such condition: it needs only that the Part it speaks about
  shares none.
* `OrderReceipts_proofs`: `ReceiptsImplementLedger` from `ReceiptInv`: what a
  receipt has read under a lock is still so, stock rows it inserted are its own
  until it commits. `LedgerIsGapless` is proved of the abstract ledger and
  carried over. `TablesWellFormed` adds what a pending insert reserves: no
  committed row and no other insert has its place (`TableInv`).
  `ReceiptsCountedOnce` from `AddUpInv`, an equation of sums over the movements,
  and `CompleteInv`: a receipt that found its order complete is right about the
  other items until it commits, although it locks none of them, since received
  amounts only grow.
* `CatalogWriters_proofs`, about the refresh: all three properties of the run
  `sync`. `SyncInv` adds to `IInv` the two constraints of the database on which
  the placement of a reply relies: rows of one set differ in number, color or
  spare marker (`ItemsApart`), and a component has a figure
  (`ComponentsHaveFigure`). `RefreshKeepsUser` follows the only Part a row can
  reconcile; `RefreshMatchesReply` shows that the rows of a reply and the open
  rows of the set are in bijection. `BooksAgreeAfterRequests` and
  `BooksAgreeAfterRefreshes`: the pages agree in every state of the catalog,
  also with refreshes and imports in between, which no run checks.
* `CatalogWriters_proofs`, about the import: `BInv` adds to `IInv` and the two
  constraints that set numbers are unique among live sets and that a batch which
  is not committed has not been applied. `Imported` is three loops, over sets,
  Parts and figures; each is shown to keep `Between`, which says of the tables in
  the hand of the import what `BInv` says of the stored ones. `BatchesAppliedOnce`
  and `BooksAgreeAfterImports` follow. `SkipKeepsRows` takes a stronger invariant
  through the same loops (`Skipped`): until the figures come, positions keep
  their identities (`BeforeFigures`), so a new Part still mirrors what it
  mirrored before the import; a figure that is not on file has no components
  that are, by the foreign key, so writing its components touches nothing stored.
* `CatalogWriters_proofs`, about the repair: `RInv` adds to `IInv` that no
  position owns more than it requires, that events are of rows that are stored,
  at most one of each, and what the printed plan consists of. From it
  `AppliesPrinted`: the tokens of the second look bind every field the repair
  reads. `NewestEditSurvives` and `RunsVerify` are about what `Repaired` and
  `Givers` write. `EventsOf`, a recursive function, is shown to keep exactly the
  events of the rows, in their order.
* `BackupRestore_proofs`: `BackupInv` has, with one operation at a time, who is
  under way (`Alone`). `InterruptionsUndone` needs, for every stage of every
  operation, where each file is meanwhile (`InStep`): in place, staged, in the
  previous root, or in the quarantine. It exempts the documents the code gives
  up (`GivenUp`): those behind links, and those a refused deletion has left in
  the quarantine; and it says that where no document is a link there are none
  (`NothingGivenUp`), so that every row then has its file. `DeletionErases` and `RestoreIsExact`
  rest on the same. `NewestBackupSurvives` holds with any overlap: the
  invariant `Retention` counts the artifacts that can be restored.
* `Accounts_proofs`: `SessionsStayListed` from `SessionInv`: the list names the
  right account or nobody, and nobody only for a session whose logout is between
  its two steps or was cut off there. `AddressesStayEarned` from `AddressInv`:
  what every request has read and may write later, as long as the requests of
  its account do not overlap.
* `Organizer_proofs`, about the wishlist: `WishInv` has types, what each request
  goes on with, and, as long as requests come one at a time, that the row and the
  session a request has read are those that are stored, that the session knows
  the wish of every set whose refresh has not come (`SessionRemembers`) and that
  no set is on the list twice. `WishesStayHonoured` follows step by step.
* About the MOC: `MocInv` says that whoever is between the deletion of the parts
  and the commit holds the lock and that the parts have not changed since
  (`NothingBeside`): a part that a form saves belongs to no activation. The
  snapshot lists every part once (`PlacesFilled`, a bijection between the parts
  and their places); new keys are above all old ones, so the bill of what is
  written is the bill of the snapshot (`SameBill`).
* About the label studio: `StudioInv` relates the form, the question on its way
  and the preview: a question asks what the form still says and for the sets the
  user has chosen (`QuestionHolds`), since every change of the form asks anew or
  starts the timer that will; what is neither asked nor about to be asked is
  shown (`PreviewHolds`).
* About the labels: `CutsAlwaysMeet` rests on a place of a row having one number:
  quotient and remainder determine it (`RowAndColumn`, `OnePlace`).
* About the import of orders: `ImportInv` carries what a preview promises,
  `Enough`, from the preview through the request that reads it to the stored
  order, and `NumbersOnce`, that a number about to be stored is not stored yet.
  That the allocation of a line gives no more than the line has is an invariant of
  the loop over what is short (`Within`).

Specifications that serve the proofs only: `SessionSpec`, `AddressSpec`,
`WishSpec`, `MocSpec`, `StudioSpec` and `OrderImportSpec` are the desks of the runs
`accounts` and `organizer`, each alone.

Only model-checked:

* liveness (`EveryRequestEnds`), which is out of the prover's reach;
* `CreateMissingCovers` and `CountedOnce`, which do not hold of every catalog the
  constants allow, but of those in which part numbers and element ids do not
  clash. A position without element id whose number is the element id of another
  brick finds no Part of its own; two mirrors of one element id with different
  numbers, each of a position without element id, are taken for one, and the
  shortage of the second position is not on the page. The run's bricks have one
  number per element id;
* `SheetsComplete`, `NothingLostNothingDoubled` and `ReimportKeepsAmounts`: what
  nested loops over labels, tables and an exported file compute. Their loops are
  folds within folds, or go through a sorting, which the library defines by a
  recursion of its own; each needs more than an invariant of one loop.

The attempt to prove `SkipLeavesRows` corrected it: which position a new Part
mirrors is said of the positions as the import found them. Rows of the file that
come later can create a position that matches the Part better.

## 7. Disagreements found

`PROJECT.json` lists the first three with the line each contradicts.

* `order_complete`: two receipts of the last two items leave the order
  "ordered".
* `sync_refused`: a figure that loses a component makes every further refresh of
  its set fail on a field that does not exist.
* `import_error`: an import with ERROR overwrites a Part, although ERROR is meant
  to stop at duplicates: the preview counts duplicates of the set number, the
  confirmation finds Parts of no set for a number that no live set has.

Two more that the models have as steps, and no run of their own:

* A deletion that refuses a path (`PathRefused`) ends with an
  AccountDeletionFileError. The staging restores what it has moved on OSError
  only (`account_deletion.py:121`), and its call is outside the try block of the
  transaction (lines 199 and 229), so documents staged before stay in
  `.deletion-quarantine` while their rows remain (`stranded`); a test of a failed
  deletion (`apps/accounts/test_account_deletion.py:156`) says that the file is
  back in its place. Without the exemption of `stranded`, `RowsHaveFiles` fails.
* Imported audit events are looked up by their details
  (`migrate_legacy_brickmissing.py:639`), which the end of an account erases
  (`account_deletion.py:193`). The next run of the migration writes the event of
  V7 a second time, its details included, and the validation passes;
  docs/V7_MYSQL_TO_V8_HANDOFF.md:147 says that a repeated import duplicates
  nothing. If erased events counted, `NothingLostNothingDoubled` would fail.

More limits of what holds. Each is an exemption in a property, a constant of a
run, or a step the module has because the code has it.

Catalog and sync:

* `SyncKeepsUserState` exempts, in `MirrorsKept`, three refreshes. Without any of
  them the property fails, although the comment at
  `apps/integrations/rebrickable_sync.py:72` says "Keep an already-consistent
  mirror consistent". One drops another row which names the Part
  (`DropsAnotherRow`): dropping the spare row of a brick closes the Part of its
  normal row (line 220), although the reply still requires it. One names another row of
  the same brick (`NamesAnotherRow`): each row reconciles the Part in turn (line
  205), so the one that comes last decides, and a spare row that requires two
  makes the Part of a normal row that requires one require two. One finds
  another Part for the row (`HasRivals`): only the first one is reconciled (lines
  67-68), the mirror of a later one keeps an old requirement. The attempt to prove
  the property found the last two; TLC shows both with two rows of one brick or two
  Parts.
* `AppliedRunVerifies` and `NewestEditStands` exempt Parts that share a position
  (`SecondMirror`). Two of them can both be proven; the repair then writes both,
  the position keeps the amount written last, and its own verification fails
  after the commit.
* `CountedOnce`: a mirror gives way to an open part of a figure of the same set
  and brick, which hides the shortage of the normal item beside it
  (docs/missing-parts.md has the page show open quantities); two mirrors with
  different identities, or a figure part without element id beside one with it,
  are counted twice (`TwoIdentities`). The LEGO analysis looks at trashed sets
  too and does not find loose figures, whose colors the filter of the
  missing-parts page offers.
* `SkipLeavesRows` exempts the position of a Part that the import creates: with
  SKIP a new Part writes its amount to the position it matches, as the import
  found the positions.
* `ReimportKeepsAmounts` exempts what a file does not keep apart (`KeptApart`) and
  an export with a Part of no set (`Unreadable`): its set number is null, which
  the import refuses (`apps/data_portability/services.py:49`), so such an export
  cannot be imported again.

Orders: `ImportedOrdersCover` leaves out confirmations of one number at once, which
both pass the look at `apps/orders/views.py:123`, and orders without a supplier:
they are stored under their source (line 125), under which nobody looks, so a
second confirmation stores them again. Nothing ticked counts as everything ticked
(line 127). A Part whose shortage grew after the preview, or that went to the
trash, is still put to "ordered". Two lines of one brick, and a mirror beside the
component it mirrors, are each allocated the same shortage.

Backups: `RowsHaveFiles` and `LatestSurvives` exempt the documents of `GivenUp`:
backups leave symbolic links out (`apps/backups/services.py:72`), so a restore
loses what is behind them, and a refused deletion leaves the others in the quarantine (above).
`DeletedMeansErased` lets these stay in the quarantine.
`LatestSurvives` is about a retention of at least two. With
`BACKUP_RETENTION_COUNT` at 1 (the default is 10, `config/settings/base.py:136`)
a registration that fails after the unlink (`apps/backups/services.py:244-252`)
leaves no artifact that can be restored. `RestoredExactly` and
`DeletedMeansErased` are about operations that come one at a time (`Sheltered`).
With overlap they fail: the gate is an entry of the cache of one worker,
requests on the other workers and commands go on changing files, and a document
that the command and the deletion of its account delete at once stays on disk,
against docs/account.md. After a killed process, or a second failure, rows may
be without files: no code brings the previous root back.

Organizer:

* `WishesHonoured` is about requests that come one at a time (`alone`). Forms that
  overlap can store one set twice; a request that stores an older session loses
  the wish behind a purchase; a form saved after its wish was deleted inserts it
  again. An edited reference is never looked up at Rebrickable, though
  docs/organization.md says so: `reference_changed` compares the row with the
  instance the form has already written to.
* A form of a part that is saved after an activation inserts the part again
  beside the new ones; a form of the MOC overwrites the version shown; a version
  that is renamed leaves the old name with the MOC. `ActivationRestores` is about
  the state an activation leaves.
* `SelectionKept` leaves out a question that the delay of a replaced form has
  aborted (`astray`). A text typed while an answer is on its way is lost with the
  form, and a visit to the label type "colors" forgets the sets that were listed.

Migration: `NothingLostNothingDoubled` leaves out collections that were handed to
another owner when an account was deleted: the next run writes them a second
time, and the validation, which looks at the first match, cannot see it. What is
left of an audit event after the end of an account does not count as the event;
the next run writes it again (above). A repeated run re-creates accounts and
rows that were deleted in V8, gives anonymised accounts their V7 address back and
overwrites the workshop document of a user. The validation never passes for a user with
`deleted_at` that is not disabled, and for amounts the import caps; it does not
look at the archive of unknown tables nor at additional workshop or audit rows; a
parent of a location is never cleared.

Accounts:

* `AddressesEarned` leaves out accounts whose requests overlapped
  (`overlapped`). Two changes of an address that find no open link leave two that
  work; a form that sets a password saves the whole row as it was read, which
  undoes a change of the address confirmed meanwhile, gives an anonymised account
  its contact data back or inserts a deleted one again; a form of the settings
  that began before the end of the account writes its secret afterwards.
* `SessionsListed` leaves out a session whose logout was cut off between the
  signal that takes it off the list and the deletion (`cut`), until its next
  request. An ended session may be listed again, without effect, by a request that was
  under way.

## 8. Abstractions

Catalog: one owner; set numbers and their uniqueness among live sets, names,
images, prices and notes are left out; a color id and its name are one value;
quantities of figures are left out; a form's `full_clean` is a guard. Sync: a
reply is complete before the first write; a failed fetch changes nothing and is
no step; which of several rows with one key comes last, and which of several
Parts comes first, is any. Reconciliation: one command at a time; each
classification is one look, although its statements read one after the other
(READ COMMITTED); an event is of a row that exists, since keys are never used
again; retention removes the oldest events first; `fresh` stands for the primary
key of an event in the state token; the dry run changes nothing and is no step;
`reconcile_part_status` writes only `is_present` where `PresenceMarker` does not
hold. Import: what happens between lock and commit is one step, so that requests
which save a row the import has read are not interleaved; a figure's key stands
for its number, so that a figure is found again only in the set it is in;
prices, names, dates and the syntax of the files are left out. Locks: one set,
the matching fixed, the bulk requests of a whole set not included; a deadlock
victim is any request of the cycle. Orders: forms are one statement that may
post any row, since what they post was rendered at any time before; nothing sets
`archived_at` of stock or `deleted_at` of orders. Backups: encryption, hash and
archive checks are one condition; the expiry of the maintenance flag after an
hour is left out; moving a group of files back is one step; no code of the
repository adds private documents. Directories of several deletions below
`.deletion-quarantine` are one.

Reports: prices, names, paging and the order of rows are left out, and a page is
read in one look. Order import: the fields that are copied, prices and dates are
left out; an order is not edited or deleted before it is imported again. MOCs
and wishes: the fields that no other request reads are one value. Labels: what
is printed on a label beside what it stands for, pictures and QR codes are left
out; so is what a browser does between a click and its handler. Migration:
passwords, the conversion of single fields and the reading of the two databases
are left out; a row's content is "fine", changed, erased, or more than the import
takes over; only who can sign in closes or deletes an account. Accounts: a letter's token is the fields its hash is made of; the
throttles, codes and TOTP counters are left out, as are edits in the
administration; `profile` and `deactivate` have no route.

Not modelled are the components marked so in `PROJECT.json`, for the reason given
there.
