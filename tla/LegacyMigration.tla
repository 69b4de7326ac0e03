--------------------------- MODULE LegacyMigration ---------------------------
(***************************************************************************)
(* The migration from BrickMissing 7 (apps/data_portability): the command  *)
(* migrate_legacy_brickmissing reads every table of the old database and   *)
(* writes the rows of the new one in a single transaction, so it is one    *)
(* step here, or none; validate_legacy_migration compares both databases.  *)
(* Both may be repeated, before and after either side has changed.         *)
(*                                                                         *)
(* A row of any table is a record: the table, the key "id", the rows "up"  *)
(* it cannot do without, the rows "refs" it may point to, and "data" for   *)
(* the rest.  A row is referred to as <<table, id>>.                       *)
(***************************************************************************)
EXTENDS Integers, FiniteSets, SequencesExt

CONSTANTS
    UserIds,     \* users.id of version 7
    Addresses,   \* mail addresses
    Sources,     \* the contents version 7 may have: users and rows
    NoUser, NoAddress,
    Erased,      \* the placeholder an erased account gets
    MaxEditions, \* bounds how often version 7 changes
    MaxChanges   \* bounds how often version 8 changes

ASSUME MigrationAssumption ==
    /\ NoAddress \notin Addresses /\ Erased \notin Addresses
    /\ UserIds \subseteq Nat /\ MaxEditions \in Nat /\ MaxChanges \in Nat

VARIABLES
    v7users,   \* users of version 7
    v7,        \* rows of its other tables
    edition,   \* stands for the fingerprint of both
    users,     \* User rows that have a legacy_id
    target,    \* rows that have a legacy_id, with their owner, and audit events that
               \* have lost it
    archive,   \* LegacyArchiveRecord: edition and row
    taken,     \* addresses of accounts that were registered in version 8
    imported,  \* edition of the last completed migration
    changes,   \* changes made in version 8
    moved,     \* has a row got another owner in version 8?
    report     \* how the last comparison ended, if nothing has changed since

sourceVars == <<v7users, v7, edition>>
targetVars == <<users, target, archive, taken, moved>>
migrationVars == <<sourceVars, targetVars, imported, changes, report>>

UserRef(u) == <<"users", u>>
Ref(row) == <<row.table, row.id>>
OwnerIn(refs) == IF \E u \in UserIds : UserRef(u) \in refs
                 THEN CHOOSE u \in UserIds : UserRef(u) \in refs ELSE NoUser
-----------------------------------------------------------------------------
(***************************************************************************)
(* The tables in the order of the command.  "key" is what update_or_create *)
(* looks a row up by, "orphan" what happens to a row that lacks one of its *)
(* "up" rows.  "caps" marks tables whose import bounds an amount in a way  *)
(* the validation does not expect.                                         *)
(***************************************************************************)
Owned(table) == [table |-> table, key |-> {"owner", "id"}, orphan |-> "skip", caps |-> FALSE]
Below(table) == [Owned(table) EXCEPT !.key = {"up", "id"}]

SetsBlock == [Owned("sets") EXCEPT !.orphan = "refuse"]
SetCopiesBlock == Owned("set_copies")
PartsBlock == [Owned("parts") EXCEPT !.orphan = "refuse", !.caps = TRUE]
SetInventoryBlock == [Below("set_inventory") EXCEPT !.orphan = "refuse"]
HistoryBlock == [Owned("history") EXCEPT !.key = {"id"}, !.orphan = "archive"]
CollectionsBlock == Owned("collections")
MembersBlock == [Owned("collection_members") EXCEPT !.key = {"up"}]
LocationsBlock == Owned("warehouse_locations")
InventoryBlock == Owned("inventory_items")
MovementsBlock == Below("inventory_movements")
FiguresBlock == [Owned("set_minifigures") EXCEPT !.caps = TRUE]
FigurePartsBlock == [Below("minifigure_parts") EXCEPT !.caps = TRUE]
NotesBlock == Owned("personal_notes")
OrdersBlock == Owned("orders")
OrderItemsBlock == [Below("order_items") EXCEPT !.caps = TRUE]
MocsBlock == [Owned("mocs") EXCEPT !.caps = TRUE]
MocPartsBlock == Below("moc_parts")
MocVersionsBlock == Below("moc_versions")
WishlistBlock == Owned("wishlist")
LoansBlock == Owned("loans")
PricesBlock == [Owned("price_history") EXCEPT !.key = {"id"}]
SnapshotsBlock == Owned("value_snapshots")
NotificationsBlock == Owned("notifications")
WorkshopBlock == [Owned("workshop_documents") EXCEPT !.key = {"owner"}]
\* The legacy_id of an audit event is part of its details.
AuditBlock == [Owned("audit_log") EXCEPT !.key = {"id", "data"}]
LabelTemplatesBlock == Owned("label_templates")
SavedViewsBlock == Owned("saved_views")
RecentItemsBlock == Owned("recent_items")
IssuesBlock == Owned("data_quality_issues")

Blocks == <<SetsBlock, SetCopiesBlock, PartsBlock, SetInventoryBlock, HistoryBlock,
            CollectionsBlock, MembersBlock, LocationsBlock, InventoryBlock, MovementsBlock,
            FiguresBlock, FigurePartsBlock, NotesBlock, OrdersBlock, OrderItemsBlock, MocsBlock,
            MocPartsBlock, MocVersionsBlock, WishlistBlock, LoansBlock, PricesBlock,
            SnapshotsBlock, NotificationsBlock, WorkshopBlock, AuditBlock, LabelTemplatesBlock,
            SavedViewsBlock, RecentItemsBlock, IssuesBlock>>

Mapped == {block.table : block \in ToSet(Blocks)}

\* SECURITY_RUNTIME_TABLES
Runtime == {"account_tokens", "sessions", "trusted_devices", "background_jobs",
            "schema_migrations", "system_health"}

\* Only open issues are taken over.
Wanted(row) == ~(row.table = "data_quality_issues" /\ row.data = "closed")

Rows(table) == {row \in v7 : row.table = table /\ Wanted(row)}
-----------------------------------------------------------------------------
(***************************************************************************)
(* migrate_legacy_brickmissing                                             *)
(***************************************************************************)

\* The row of a user: a verified address stays verified, a real address is not
\* given up for a placeholder, a deactivated account stays inactive.
MigratedUser(old, source) ==
    [address |-> IF old # NoUser /\ old.address \in Addresses /\ source.address = NoAddress
                 THEN old.address ELSE source.address,
     verified |-> source.verified \/ (old # NoUser /\ old.verified),
     active |-> (old = NoUser \/ ~old.closed) /\ source.off = "no",
     closed |-> old # NoUser /\ old.closed]

\* Does somebody else have the address?
Held(address, people, u) ==
    address \in taken \cup {people[v].address : v \in {w \in UserIds \ {u} : people[w] # NoUser}}

\* Users are saved one after the other; their addresses are unique.
ImportUser(done, u) ==
    LET new == MigratedUser(done.users[u], v7users[u])
        clash == new.address \in Addresses /\ Held(new.address, done.users, u)
    IN  [users |-> [done.users EXCEPT ![u] = new], refused |-> done.refused \/ clash]

ImportUsers ==
    FoldLeft(ImportUser, [users |-> users, refused |-> FALSE],
             SetToSortSeq({u \in UserIds : v7users[u] # NoUser}, <))

\* The owner a row is stored under: its user, or that of the set or the row a
\* copy or a price is about.
OwnerOf(row, rows) ==
    LET about == IF row.table = "set_copies" THEN row.up
                 ELSE IF row.table = "price_history" THEN row.refs ELSE {}
    IN  IF \E x \in rows : Ref(x) \in about
        THEN (CHOOSE x \in rows : Ref(x) \in about).owner
        ELSE OwnerIn(row.up)

SameKey(block, x, y) == x.table = y.table /\ \A field \in block.key : x[field] = y[field]

\* A location keeps its parent unless there is a new one; a price keeps the key
\* of whatever it is about; any other reference to a missing row is dropped.
RefsOf(row, done, old) ==
    LET found == row.refs \cap done
    IN  IF row.table = "price_history" THEN row.refs
        ELSE IF row.table = "warehouse_locations" /\ found = {} THEN UNION {x.refs : x \in old}
        ELSE found

\* update_or_create of the rows of one table; get_or_create for the audit log
ImportBlock(so, block) ==
    LET rows == Rows(block.table)
        kept == {row \in rows : row.up \subseteq so.done}
        done == so.done \cup {Ref(row) : row \in kept}
        fresh == {x \in so.target : Ref(x) \in done}
        New(row) == [table |-> row.table, id |-> row.id, up |-> row.up, refs |-> {},
                     owner |-> OwnerOf(row, fresh),
                     data |-> IF block.caps /\ row.data = "excess" THEN "capped" ELSE row.data]
        Old(row) == {x \in so.target : SameKey(block, x, New(row))}
        Stored(row) == IF block.table = "audit_log" /\ Old(row) # {} THEN Old(row)
                       ELSE {[New(row) EXCEPT !.refs = RefsOf(row, done, Old(row))]}
    IN  [target |-> (so.target \ UNION {Old(row) : row \in kept})
                       \cup UNION {Stored(row) : row \in kept},
         done |-> done,
         archive |-> so.archive \cup
            (IF block.orphan = "archive" THEN {<<edition, row>> : row \in rows \ kept} ELSE {}),
         refused |-> so.refused \/ (block.orphan = "refuse" /\ kept # rows)]

ImportRows ==
    FoldLeft(ImportBlock,
             [target |-> target, archive |-> archive, refused |-> FALSE,
              done |-> {UserRef(u) : u \in {v \in UserIds : v7users[v] # NoUser}}],
             SelectSeq(Blocks, LAMBDA block : Rows(block.table) # {}))

\* Rows of tables nobody knows are archived, those of the runtime are left behind.
Unmapped == {<<edition, row>> : row \in {r \in v7 : r.table \notin Mapped \cup Runtime}}

\* _import: all of it, or a CommandError or IntegrityError that undoes all
Import ==
    LET people == ImportUsers
        rows == ImportRows
    IN  [users |-> people.users, target |-> rows.target, archive |-> rows.archive \cup Unmapped,
         refused |-> people.refused \/ rows.refused]
-----------------------------------------------------------------------------
(***************************************************************************)
(* validate_legacy_migration, of a database given as a record              *)
(***************************************************************************)
UserMatches(u, source, user) ==
    /\ user # NoUser
    /\ user.address = source.address /\ user.verified = source.verified
    /\ user.active = (source.off # "disabled")

UsersMatch(db) ==
    \A u \in UserIds : IF v7users[u] = NoUser THEN db.users[u] = NoUser
                       ELSE UserMatches(u, v7users[u], db.users[u])

\* Copies and prices have an owner of their own.
OwnerMatches(row, x, rows) ==
    /\ row.table = "set_copies" =>
         \E set \in v7 : Ref(set) \in row.up /\ x.owner = OwnerIn(set.up)
    /\ row.table = "price_history" => x.owner = OwnerOf(row, rows)

\* Relations are compared by the legacy_id of the row they lead to.
RowMatches(row, x, rows) ==
    x.up = row.up /\ x.refs = row.refs /\ x.data = row.data /\ OwnerMatches(row, x, rows)

\* history: only rows that have their part
Compared(table) ==
    {row \in Rows(table) : table = "history" => row.up \subseteq {Ref(part) : part \in Rows("parts")}}

ExtraRows(table, rows) ==
    {x \in rows : x.table = table /\ \A row \in Compared(table) : row.id # x.id}

\* Seeded fault: a row that has no counterpart is not reported.
RowsDifferUnlessMissing(table, rows) ==
    \E row \in Compared(table) :
      LET found == {x \in rows : Ref(x) = Ref(row)}
      IN  found # {} /\ ~\E x \in found : RowMatches(row, x, rows)

\* Of several rows with one legacy_id, any may be the first.
RowsDiffer(table, rows) ==
    \E row \in Compared(table) : ~\E x \in rows : Ref(x) = Ref(row) /\ RowMatches(row, x, rows)

TablesMatch(db) ==
    \A table \in Mapped \ {"collection_members", "workshop_documents", "audit_log"} :
      ExtraRows(table, db.target) = {} /\ ~RowsDiffer(table, db.target)

MembersMatch(db) ==
    {<<x.up, x.data>> : x \in {y \in db.target : y.table = "collection_members"}}
      = {<<row.up, row.data>> : row \in Rows("collection_members")}

WorkshopMatches(db) ==
    \A row \in Rows("workshop_documents") :
      \E x \in db.target : x.table = row.table /\ x.up = row.up /\ x.data = row.data

\* Actors that version 7 no longer has are kept as an identifier.
AuditMatches(db) ==
    \A row \in Rows("audit_log") :
      \E x \in db.target :
        /\ Ref(x) = Ref(row) /\ x.data = row.data
        /\ x.refs = row.refs \cap {UserRef(u) : u \in {v \in UserIds : v7users[v] # NoUser}}

OrphansMatch(db) ==
    {entry \in db.archive : entry[1] = edition /\ entry[2].table = "history"}
      = {<<edition, row>> : row \in Rows("history") \ Compared("history")}

Matches(db) == /\ UsersMatch(db) /\ TablesMatch(db) /\ MembersMatch(db)
               /\ WorkshopMatches(db) /\ AuditMatches(db) /\ OrphansMatch(db)
-----------------------------------------------------------------------------
MigrationInit ==
    /\ \E source \in Sources : v7users = source.users /\ v7 = source.rows
    /\ edition = 1 /\ imported = 0 /\ changes = 0
    /\ users = [u \in UserIds |-> NoUser]
    /\ target = {} /\ archive = {} /\ taken = {}
    /\ moved = FALSE /\ report = "none"

Migrate ==
    LET result == Import
    IN  /\ ~result.refused
        /\ users' = result.users /\ target' = result.target /\ archive' = result.archive
        /\ imported' = edition /\ report' = "none"
        /\ UNCHANGED <<sourceVars, taken, moved, changes>>

\* Neither an error nor a killed command leaves anything behind.
MigrationFails ==
    /\ Import.refused
    /\ report' = "failed"
    /\ UNCHANGED <<sourceVars, targetVars, imported, changes>>

\* --dry-run: import, validate, roll back; says nothing about the target itself
DryRun ==
    LET result == Import
    IN  /\ report' = IF ~result.refused /\ Matches(result) THEN "none" ELSE "failed"
        /\ UNCHANGED <<sourceVars, targetVars, imported, changes>>

Validate ==
    /\ report' = IF Matches([users |-> users, target |-> target, archive |-> archive])
                 THEN "passed" ELSE "failed"
    /\ UNCHANGED <<sourceVars, targetVars, imported, changes>>
-----------------------------------------------------------------------------
(***************************************************************************)
(* Both sides go on                                                        *)
(***************************************************************************)
V7Changes(newUsers, newRows) ==
    /\ edition < MaxEditions
    /\ edition' = edition + 1
    /\ v7users' = newUsers /\ v7' = newRows
    /\ report' = "none"
    /\ UNCHANGED <<targetVars, imported, changes>>

\* Audit events of version 7 never change.
V7Edits(row) ==
    /\ row.table # "audit_log"
    /\ V7Changes(v7users, (v7 \ {row}) \cup
         {[row EXCEPT !.data = IF row.table = "data_quality_issues" THEN "closed" ELSE "other"]})

V7Unlinks(row) ==
    /\ row.refs # {} /\ row.table # "audit_log"
    /\ V7Changes(v7users, (v7 \ {row}) \cup {[row EXCEPT !.refs = {}]})

V7Deletes(row) == V7Changes(v7users, v7 \ {row})

V7EditsUser(u, source) ==
    /\ v7users[u] # NoUser /\ v7users[u] # source
    /\ V7Changes([v7users EXCEPT ![u] = source], v7)

V8Changes ==
    /\ changes < MaxChanges
    /\ changes' = changes + 1
    /\ report' = "none"
    /\ UNCHANGED <<sourceVars, imported>>

V8Edits(x) ==
    /\ x.table # "audit_log" /\ x.data # "edited"
    /\ target' = (target \ {x}) \cup {[x EXCEPT !.data = "edited"]}
    /\ V8Changes /\ UNCHANGED <<users, taken, archive, moved>>

\* A row nothing refers to is deleted for good, an audit event when it is old.
V8Deletes(x) ==
    /\ \A y \in target : Ref(x) \notin y.up \cup y.refs
    /\ target' = target \ {x}
    /\ V8Changes /\ UNCHANGED <<users, taken, archive, moved>>

CanSignIn(u) == users[u] # NoUser /\ users[u].active /\ users[u].verified

\* _minimize_audit_events erases the details, and with them the legacy_id: the
\* row only remembers here which event it was.
Minimized(rows, u) ==
    {IF x.table = "audit_log" /\ UserRef(u) \in x.refs THEN [x EXCEPT !.data = "erased"] ELSE x
       : x \in rows}

\* anonymize_account
V8Closes(u) ==
    /\ CanSignIn(u)
    /\ users' = [users EXCEPT ![u] = [address |-> Erased, verified |-> FALSE,
                                      active |-> FALSE, closed |-> TRUE]]
    /\ target' = Minimized(target, u)
    /\ V8Changes /\ UNCHANGED <<taken, archive, moved>>

\* confirm_email_change, or the address an administrator enters
V8Confirms(u, a) ==
    /\ users[u] # NoUser /\ ~users[u].closed /\ ~Held(a, users, u)
    /\ users' = [users EXCEPT ![u].address = a, ![u].verified = TRUE]
    /\ V8Changes /\ UNCHANGED <<target, taken, archive, moved>>

\* register
V8Registers(a) ==
    /\ ~Held(a, users, NoUser)
    /\ taken' = taken \cup {a}
    /\ V8Changes /\ UNCHANGED <<users, target, archive, moved>>

Successors(x, u) ==
    {v \in UserIds \ {u} : \E y \in target : y.table = "collection_members"
                                         /\ {Ref(x), UserRef(v)} \subseteq y.up}

Shared(u) ==
    {x \in target : x.table = "collections" /\ x.owner = u /\ Successors(x, u) # {}}

\* _transfer_shared_collections, to a member each
HandedOver(heir) ==
    {IF x \in DOMAIN heir THEN [x EXCEPT !.owner = heir[x], !.up = {UserRef(heir[x])}] ELSE x
       : x \in target}

\* With an account go the rows it owns and those that cannot do without one of
\* them; other rows lose their reference to what is gone.
Without(u, rows) ==
    LET owned == {x \in rows : x.owner = u}
        gone == {UserRef(u)} \cup {Ref(x) : x \in owned}
        left == {x \in rows \ owned : x.up \cap gone = {}}
        lost == {UserRef(u)} \cup {Ref(x) : x \in rows \ left}
    IN  {[x EXCEPT !.refs = @ \ lost] : x \in left}

\* delete_account_and_data, when its transaction commits
V8DeletesAccount(u) ==
    /\ CanSignIn(u)
    /\ \E heir \in [Shared(u) -> UserIds] :
         /\ \A x \in Shared(u) : heir[x] \in Successors(x, u)
         /\ target' = Without(u, Minimized(HandedOver(heir), u))
    /\ users' = [users EXCEPT ![u] = NoUser]
    /\ archive' = {entry \in archive : UserRef(u) \notin entry[2].up}
    /\ moved' = (moved \/ Shared(u) # {})
    /\ V8Changes /\ UNCHANGED taken

\* What version 7 may turn the row of a user into
V7Edited == [u \in UserIds |-> {source.users[u] : source \in Sources} \ {NoUser}]

MigrationNext ==
    \/ Migrate \/ MigrationFails \/ DryRun \/ Validate
    \/ \E row \in v7 : V7Edits(row) \/ V7Unlinks(row) \/ V7Deletes(row)
    \/ \E u \in UserIds : \E source \in V7Edited[u] : V7EditsUser(u, source)
    \/ \E x \in target : V8Edits(x) \/ V8Deletes(x)
    \/ \E u \in UserIds : V8Closes(u) \/ V8DeletesAccount(u)
    \/ \E u \in UserIds, a \in Addresses : V8Confirms(u, a)
    \/ \E a \in Addresses : V8Registers(a)
-----------------------------------------------------------------------------
(***************************************************************************)
(* Once a source has been migrated and the validation passes, every row of *)
(* it, runtime tables aside, is there exactly once with its user, its      *)
(* relations and its content, or is archived; no other row claims to stem  *)
(* from it; and to migrate it again would change nothing (the promise of   *)
(* docs/V7_MYSQL_TO_V8_HANDOFF.md, section 12).  Left out are rows that     *)
(* went to another owner, which the next run writes a second time, and     *)
(* what remains of audit events that were erased with an account: these    *)
(* do not count as the event any more.                                     *)
(***************************************************************************)
NothingLostNothingDoubled ==
    (report = "passed" /\ imported = edition /\ ~moved) =>
      /\ \A row \in v7 :
           \/ row.table \in Runtime \/ ~Wanted(row)
           \/ <<edition, row>> \in archive
           \/ \E x \in target :
                /\ {y \in target : Ref(y) = Ref(row) /\ y.data # "erased"} = {x}
                /\ x.up = row.up /\ x.data = row.data
                /\ x.refs = row.refs \/ row.table = "audit_log"
      /\ \A x \in target : x.table \in {"workshop_documents", "audit_log"}
                             \/ \E row \in v7 : Ref(row) = Ref(x)
      /\ LET again == Import
         IN  again = [users |-> users, target |-> target, archive |-> archive, refused |-> FALSE]
=============================================================================
