----------------------------- MODULE MocVersions -----------------------------
(***************************************************************************)
(* A MOC, its parts and its stored versions (apps/organizer).  A version   *)
(* keeps a snapshot of the parts; activating it locks the MOC, deletes the *)
(* parts and writes those of the snapshot.  The forms read a row, and save *)
(* it whole in a later statement: an update that finds its row gone makes  *)
(* Django insert it again.                                                 *)
(***************************************************************************)
EXTENDS Integers, Sequences, FiniteSets

CONSTANTS
    MocRequests,  \* requests in flight
    Versions,     \* primary keys of MocVersion
    VersionNames, \* what its field "version" may hold
    PartForms,    \* contents a part form may post: a line and a stock row
    VanishedStock,\* stock rows a snapshot may name but that are gone
    NoStock,      \* the NULL of inventory_item
    NoVersion, NoValue,
    MaxParts      \* bounds how many part rows are ever written

Contents == [line: {form.line : form \in PartForms},
             stock: {form.stock : form \in PartForms} \cup VanishedStock \cup {NoStock}]

VersionRow == [live: BOOLEAN, name: VersionNames, snapshot: Seq(Contents)]

ASSUME MocAssumption ==
    /\ NoVersion \notin Versions \cup VersionRow /\ NoValue \notin Nat /\ MaxParts \in Nat
    /\ VersionNames # {} /\ NoStock \notin VanishedStock
    /\ PartForms \subseteq Contents
    /\ \A form \in PartForms : form.stock \notin VanishedStock

VARIABLES
    moc,        \* the Moc row: does it exist, the version it shows
    mocParts,   \* its parts by primary key
    nextPart,   \* the next primary key
    versions,   \* MocVersion rows ever stored: name, parts_snapshot, is it there?
    mocLock,    \* the requests that hold the row of the MOC
    mocRequest  \* what each request is doing

mocVars == <<moc, mocParts, nextPart, versions, mocLock, mocRequest>>

MocIdle == [stage |-> "idle", key |-> NoValue, content |-> NoValue, version |-> NoVersion,
            name |-> NoValue, snapshot |-> <<>>, gone |-> {}]

Doing(r, stage) == mocRequest[r].stage = stage
Begins(r, request) == mocRequest' = [mocRequest EXCEPT ![r] = request]
Finishes(r) == mocRequest' = [mocRequest EXCEPT ![r] = MocIdle]

Stored(v) == versions[v] # NoVersion /\ versions[v].live

NameTaken(name, except) ==
    \E w \in Versions \ except : Stored(w) /\ versions[w].name = name

MocInit ==
    /\ moc = [exists |-> TRUE, version |-> CHOOSE n \in VersionNames : TRUE]
    /\ mocParts \in [{1} -> PartForms]
    /\ nextPart = 2
    /\ versions \in [Versions -> {NoVersion} \cup
         {[live |-> TRUE, name |-> n, snapshot |-> <<c>>] :
            n \in VersionNames,
            c \in {d \in Contents : d.stock \in VanishedStock}}]
    /\ \A v \in Versions : Stored(v) => ~NameTaken(versions[v].name, {v})
    /\ mocLock = {}
    /\ mocRequest = [r \in MocRequests |-> MocIdle]

-----------------------------------------------------------------------------
\* Seeded fault: the view does not lock the MOC.
RowFreeAnyway(r) == mocLock \subseteq MocRequests

\* An update or a delete of the MOC waits for its row, so does the foreign key
\* check of a row inserted below it.
RowFree(r) == mocLock \subseteq {r}

\* _moc_parts_snapshot: the parts in the order of their keys
Place(k) == Cardinality({j \in DOMAIN mocParts : j <= k})

Snapshot == [i \in 1..Cardinality(DOMAIN mocParts) |->
               mocParts[CHOOSE k \in DOMAIN mocParts : Place(k) = i]]

\* moc_version_edit without a key: the snapshot is read, ...
TakeSnapshot(r) ==
    /\ Doing(r, "idle") /\ moc.exists
    /\ Begins(r, [MocIdle EXCEPT !.stage = "version", !.snapshot = Snapshot])
    /\ UNCHANGED <<moc, mocParts, nextPart, versions, mocLock>>

\* ... and a version is inserted, unless its name is taken or the MOC is gone.
StoreVersion(r, v, name) ==
    /\ Doing(r, "version") /\ RowFree(r) /\ versions[v] = NoVersion
    /\ versions' = IF NameTaken(name, {}) \/ ~moc.exists THEN versions
                   ELSE [versions EXCEPT ![v] = [live |-> TRUE, name |-> name,
                                                    snapshot |-> mocRequest[r].snapshot]]
    /\ Finishes(r)
    /\ UNCHANGED <<moc, mocParts, nextPart, mocLock>>

\* moc_version_edit of a version: it is read, ...
LoadVersion(r, v) ==
    /\ Doing(r, "idle") /\ Stored(v)
    /\ Begins(r, [MocIdle EXCEPT !.stage = "rename", !.version = v,
                                 !.snapshot = versions[v].snapshot])
    /\ UNCHANGED <<moc, mocParts, nextPart, versions, mocLock>>

\* ... and saved whole under the name the form posts.
SaveVersion(r, name) ==
    LET v == mocRequest[r].version
    IN  /\ Doing(r, "rename") /\ (Stored(v) \/ RowFree(r))
        /\ versions' = IF NameTaken(name, {v}) \/ ~moc.exists THEN versions
                       ELSE [versions EXCEPT ![v] = [live |-> TRUE, name |-> name,
                                                        snapshot |-> mocRequest[r].snapshot]]
        /\ Finishes(r)
        /\ UNCHANGED <<moc, mocParts, nextPart, mocLock>>

\* moc_version_delete
DeleteVersion(r, v) ==
    /\ Doing(r, "idle") /\ Stored(v)
    /\ versions' = [versions EXCEPT ![v].live = FALSE]
    /\ UNCHANGED <<moc, mocParts, nextPart, mocLock, mocRequest>>
-----------------------------------------------------------------------------
(***************************************************************************)
(* moc_version_activate, one transaction                                   *)
(***************************************************************************)

\* get_object_or_404(Moc.objects.select_for_update()), then the version
LockMoc(r, v) ==
    /\ Doing(r, "idle") /\ RowFree(r)
    /\ moc.exists /\ Stored(v)
    /\ mocLock' = mocLock \cup {r}
    /\ Begins(r, [MocIdle EXCEPT !.stage = "locked", !.version = v, !.name = versions[v].name,
                                 !.snapshot = versions[v].snapshot])
    /\ UNCHANGED <<moc, mocParts, nextPart, versions>>

\* moc.parts.all().delete() of the rows that are there now
DeleteParts(r) ==
    /\ Doing(r, "locked")
    /\ mocRequest' = [mocRequest EXCEPT ![r].stage = "deleted", ![r].gone = DOMAIN mocParts]
    /\ UNCHANGED <<moc, mocParts, nextPart, versions, mocLock>>

\* A stock row that no longer exists is left out.
Restored(content) ==
    IF content.stock \in VanishedStock THEN [content EXCEPT !.stock = NoStock] ELSE content

\* bulk_create, the version shown, the commit
CommitActivation(r) ==
    LET request == mocRequest[r]
        kept == DOMAIN mocParts \ request.gone
        new == nextPart..(nextPart + Len(request.snapshot) - 1)
    IN  /\ Doing(r, "deleted") /\ nextPart + Len(request.snapshot) <= MaxParts + 1
        /\ mocParts' = [k \in kept \cup new |->
                          IF k \in new THEN Restored(request.snapshot[k - nextPart + 1])
                          ELSE mocParts[k]]
        /\ nextPart' = nextPart + Len(request.snapshot)
        /\ moc' = [moc EXCEPT !.version = request.name]
        /\ mocLock' = mocLock \ {r}
        /\ Finishes(r)
        /\ UNCHANGED versions
-----------------------------------------------------------------------------
(***************************************************************************)
(* child_edit of a part, area_edit and area_delete of the MOC              *)
(***************************************************************************)

\* The form reads its part, or none for a new one.
LoadPart(r, k) ==
    /\ Doing(r, "idle") /\ moc.exists
    /\ k \in DOMAIN mocParts \cup {NoValue}
    /\ Begins(r, [MocIdle EXCEPT !.stage = "part", !.key = k])
    /\ UNCHANGED <<moc, mocParts, nextPart, versions, mocLock>>

\* Rows that an activation is replacing stay locked until it commits.
Locked(k) == \E q \in MocRequests : k \in mocRequest[q].gone

\* An update of a row that is gone becomes an insert.
SavePart(r, content) ==
    LET k == IF mocRequest[r].key = NoValue THEN nextPart ELSE mocRequest[r].key
    IN  /\ Doing(r, "part") /\ ~Locked(k)
        /\ k \notin DOMAIN mocParts => RowFree(r)
        /\ k = nextPart => nextPart <= MaxParts
        /\ IF moc.exists
           THEN /\ mocParts' = [j \in DOMAIN mocParts \cup {k} |->
                                  IF j = k THEN content ELSE mocParts[j]]
                /\ nextPart' = IF k = nextPart THEN nextPart + 1 ELSE nextPart
           ELSE UNCHANGED <<mocParts, nextPart>>
        /\ Finishes(r)
        /\ UNCHANGED <<moc, versions, mocLock>>

LoadMoc(r) ==
    /\ Doing(r, "idle") /\ moc.exists
    /\ Begins(r, [MocIdle EXCEPT !.stage = "moc"])
    /\ UNCHANGED <<moc, mocParts, nextPart, versions, mocLock>>

\* The form posts the version as well.
SaveMoc(r, name) ==
    /\ Doing(r, "moc") /\ RowFree(r)
    /\ moc' = [exists |-> TRUE, version |-> name]
    /\ Finishes(r)
    /\ UNCHANGED <<mocParts, nextPart, versions, mocLock>>

\* The parts and the versions go with it.
DeleteMoc(r) ==
    /\ Doing(r, "idle") /\ moc.exists /\ RowFree(r)
    /\ moc' = [moc EXCEPT !.exists = FALSE]
    /\ mocParts' = <<>>
    /\ versions' = [v \in Versions |-> IF Stored(v) THEN [versions[v] EXCEPT !.live = FALSE]
                                       ELSE versions[v]]
    /\ UNCHANGED <<nextPart, mocLock, mocRequest>>
-----------------------------------------------------------------------------
Activation(r) ==
    (\E v \in Versions : LockMoc(r, v)) \/ DeleteParts(r) \/ CommitActivation(r)

MocForm(r) ==
    \/ TakeSnapshot(r) \/ LoadMoc(r) \/ DeleteMoc(r)
    \/ \E k \in DOMAIN mocParts \cup {NoValue} : LoadPart(r, k)
    \/ \E content \in PartForms : SavePart(r, content)
    \/ \E name \in VersionNames : SaveVersion(r, name) \/ SaveMoc(r, name)
    \/ \E v \in Versions : LoadVersion(r, v) \/ DeleteVersion(r, v)
    \/ \E v \in Versions, name \in VersionNames : StoreVersion(r, v, name)

MocNext == \E r \in MocRequests : Activation(r) \/ MocForm(r)

MocSpec == MocInit /\ [][MocNext]_mocVars
-----------------------------------------------------------------------------
\* The parts of the MOC by their lines and stock rows, each as often as stored
Bill(rows) == [c \in Contents |-> Cardinality({k \in DOMAIN rows : rows[k] = c})]

\* An activation leaves exactly the parts of its version, none that a form, an
\* older version or another activation has put beside them, and each with a stock
\* row that exists or none; the MOC shows the name the version had.  Nothing that
\* happens to a version changes its snapshot (moc_version_activate).
ActivationRestores ==
    [][/\ \A r \in MocRequests :
            Doing(r, "deleted") /\ mocRequest'[r].stage = "idle" =>
              /\ Bill(mocParts') = Bill([i \in DOMAIN mocRequest[r].snapshot |->
                                          Restored(mocRequest[r].snapshot[i])])
              /\ \A k \in DOMAIN mocParts' : mocParts'[k].stock \notin VanishedStock
              /\ moc'.version = mocRequest[r].name
       /\ \A v \in Versions :
            versions[v] # NoVersion
              => versions'[v].snapshot = versions[v].snapshot]_mocVars
=============================================================================
