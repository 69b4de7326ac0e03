------------------------------ MODULE MCAccounts ------------------------------
(***************************************************************************)
(* The desks of the accounts: the migration from V7, the addresses and the *)
(* sessions of an account.  They share no state here, so a behaviour is    *)
(* about one of them.                                                      *)
(***************************************************************************)
EXTENDS LegacyMigration, AccountAddresses, AccountSessions

VARIABLE desk

V7User(address, verified, off) == [address |-> address, verified |-> verified, off |-> off]
Row(table, up, refs) == [table |-> table, id |-> 1, up |-> up, refs |-> refs, data |-> "fine"]
U1 == <<"users", 1>>
U2 == <<"users", 2>>
R(t) == <<t, 1>>
Menu ==
    {Row(t, {U1}, {}) : t \in {"sets", "collections", "personal_notes", "orders", "loans",
        "value_snapshots", "notifications", "workshop_documents", "label_templates",
        "saved_views", "recent_items", "data_quality_issues"}}
    \cup {Row("set_copies", {R("sets")}, {}), Row("parts", {U1}, {R("sets")}),
          Row("set_inventory", {R("sets")}, {}), Row("history", {R("parts")}, {}),
          Row("collection_members", {R("collections"), U2}, {}),
          Row("warehouse_locations", {U1}, {}),
          [Row("warehouse_locations", {U1}, {R("warehouse_locations")}) EXCEPT !.id = 2],
          Row("inventory_items", {U1}, {R("warehouse_locations")}),
          Row("inventory_movements", {R("inventory_items")}, {U2}),
          Row("set_minifigures", {U1, R("sets")}, {}),
          Row("minifigure_parts", {R("set_minifigures")}, {}),
          Row("order_items", {R("orders")}, {R("inventory_items"), R("sets")}),
          Row("mocs", {U1}, {R("collections")}), Row("moc_parts", {R("mocs")}, {R("inventory_items")}),
          Row("moc_versions", {R("mocs")}, {}), Row("wishlist", {U1}, {R("collections")}),
          Row("price_history", {}, {R("sets")}), Row("price_history", {}, {R("inventory_items")}),
          Row("audit_log", {}, {U1, U2}), Row("favorites", {U1}, {}), Row("sessions", {}, {})}
    \cup {[Row("parts", {U1}, {}) EXCEPT !.data = "excess"]}

Above(rows) == {row \in Menu : row.data # "excess" /\ \E x \in rows : Ref(row) \in x.up \cup x.refs}
Closure(row) == LET one == {row} \cup Above({row})
                    two == one \cup Above(one)
                    three == two \cup Above(two)
                IN  three \cup Above(three)

MCUsers == {[u \in {1, 2} |-> IF u = 1 THEN x[1] ELSE x[2]] :
   x \in {<<V7User("a", TRUE, "no"), V7User("b", FALSE, "disabled")>>,
          <<V7User(NoAddress, FALSE, "no"), NoUser>>,
          <<NoUser, V7User("b", TRUE, "deleted")>>,
          <<V7User("a", TRUE, "disabled"), V7User("b", TRUE, "no")>>}}
Simple == {"collections", "personal_notes", "orders", "loans", "value_snapshots",
    "notifications", "label_templates", "saved_views", "recent_items"}
NoSource == [users |-> [u \in UserIds |-> NoUser], rows |-> {}]

MCSources == UNION {{[users |-> people, rows |-> Closure(row) \ D] : D \in {{}} \cup {{x} : x \in Closure(row)}} :
   people \in MCUsers, row \in {row \in Menu : row.table \notin Simple}}
  \cup {[users |-> CHOOSE p \in MCUsers : p[1] = V7User("a", TRUE, "no"), rows |-> {row}] : row \in Menu}
  \cup {NoSource}


Init ==
    /\ desk \in {"migration", "addresses", "sessions"}
    /\ MigrationInit /\ AddressInit /\ SessionInit
    /\ (desk = "migration") = (v7users # NoSource.users)
    /\ desk # "sessions" => \A o \in Owners : ~owner[o].factor

Next ==
    /\ UNCHANGED desk
    /\ \/ desk = "migration" /\ MigrationNext /\ UNCHANGED <<addressVars, sessionVars>>
       \/ desk = "addresses" /\ AddressNext /\ UNCHANGED <<migrationVars, sessionVars>>
       \/ desk = "sessions" /\ SessionNext /\ UNCHANGED <<migrationVars, addressVars>>

Spec == Init /\ [][Next]_<<desk, migrationVars, addressVars, sessionVars>>

-----------------------------------------------------------------------------
FewChanges ==
    v7 # {} => /\ v7users \in MCUsers \/ changes > 0
               /\ taken = {} /\ \A u \in UserIds : users[u] # NoUser => users[u].address # "c"

\* The second person asks for nothing with an account; one form that saves a
\* whole row, or a secret, is open at a time.
Guest ==
    /\ \A r \in AccountRequests : accountRequest[r].user # "q"
    /\ Cardinality({r \in AccountRequests : accountRequest[r].stage \in {"password", "secrets"}}) <= 1

\* Requests and keys come into play in order; second factors and workers that
\* die do so while there are few sessions; one row at a time is not in step.
Order ==
    /\ used = 1..Cardinality(used)
    /\ sessionRequest["r1"].stage = "idle" => sessionRequest["r2"].stage = "idle"
    /\ \A r \in SessionRequests : Stage(r, "factor") => Cardinality(used) = 1
    /\ \A o \in Owners : owner[o].factor => Cardinality(used) <= 1
    /\ cut # {} => Cardinality(used) <= 2
    /\ Cardinality({k \in used : registry[k] # NoOwner /\ sessions[k] = NoSession}) <= 1
    /\ Cardinality({k \in used : registry[k] = NoOwner /\ sessions[k] # NoSession}) <= 1

Bounds == FewChanges /\ Guest /\ Order
=============================================================================
