-------------------------- MODULE AccountAddresses --------------------------
(***************************************************************************)
(* The mail address of an account (apps/accounts): it is registered,       *)
(* verified through a letter, changed through a link that is sent to the   *)
(* new address, and erased with the account.  A request reads its user at  *)
(* the start; what it writes later are single fields, or the whole row     *)
(* when a form of Django saves a password.                                 *)
(***************************************************************************)
EXTENDS Integers, FiniteSets

CONSTANTS
    AccountRequests, \* requests in flight
    People,          \* accounts that may come into being
    Mail,            \* mail addresses
    LinkIds,         \* primary keys of PendingEmailChange
    Placeholder,     \* deleted-...@invalid.local
    NoAccount, NoLink, Nobody

ASSUME AddressAssumption ==
    /\ Placeholder \notin Mail /\ Nobody \notin People \cup AccountRequests
    /\ NoAccount \notin [address : Mail \cup {Placeholder}, verified : BOOLEAN,
                         active : BOOLEAN, secrets : BOOLEAN]
    /\ NoLink \notin [user : People, address : Mail, open : BOOLEAN]

VARIABLES
    accounts,       \* User rows
    links,          \* PendingEmailChange rows
    letters,        \* verification letters that were sent
    accountRequest, \* what each request is doing
    earned,         \* addresses somebody followed a letter or a link of
    erased,         \* accounts that were deactivated or deleted
    overlapped      \* accounts of which two requests got in each other's way

addressVars == <<accounts, links, letters, accountRequest, earned, erased, overlapped>>

RequestIdle == [stage |-> "idle", user |-> Nobody, row |-> NoAccount, address |-> Placeholder,
                found |-> {}]

At(r, stage) == accountRequest[r].stage = stage
Starts(r, request) == accountRequest' = [accountRequest EXCEPT ![r] = request]
Finishes(r) == Starts(r, RequestIdle)

Exists(p) == accounts[p] # NoAccount
SignedIn(p) == Exists(p) /\ accounts[p].active /\ accounts[p].verified

\* The unique address of a User row
AddressOf(p) == IF Exists(p) THEN {accounts[p].address} ELSE {}
Free(a, p) == a \notin UNION {AddressOf(q) : q \in People \ {p}}

OpenLinks(p) == {l \in LinkIds : links[l] # NoLink /\ links[l].user = p /\ links[l].open}

\* Requests of p other than r
Busy(p, r) == {q \in AccountRequests \ {r} : accountRequest[q].user = p}
-----------------------------------------------------------------------------
(***************************************************************************)
(* Registration and verification                                           *)
(***************************************************************************)
Register(p, a) ==
    /\ ~Exists(p) /\ p \notin erased /\ Free(a, p)
    /\ accounts' = [accounts EXCEPT ![p] = [address |-> a, verified |-> FALSE,
                                            active |-> TRUE, secrets |-> FALSE]]
    /\ letters' = letters \cup {[user |-> p, address |-> a]}
    /\ UNCHANGED <<links, accountRequest, earned, erased, overlapped>>

\* resend_verification: another letter, with the same token or a new one
Resend(p) ==
    /\ Exists(p) /\ accounts[p].active /\ ~accounts[p].verified
    /\ letters' = letters \cup {[user |-> p, address |-> accounts[p].address]}
    /\ UNCHANGED <<accounts, links, accountRequest, earned, erased, overlapped>>

\* The token is a hash over the address and email_verified, among others.
TokenHolds(letter) ==
    /\ Exists(letter.user)
    /\ accounts[letter.user].address = letter.address
    /\ ~accounts[letter.user].verified

\* verify_email: user and token are checked, ...
OpenLetter(r, letter) ==
    /\ At(r, "idle") /\ TokenHolds(letter)
    /\ Starts(r, [RequestIdle EXCEPT !.stage = "letter", !.user = letter.user])
    /\ earned' = earned \cup {<<letter.user, letter.address>>}
    /\ UNCHANGED <<accounts, links, letters, erased, overlapped>>

\* ... then the field is saved; a row that is gone is an error.
SaveVerified(r) ==
    LET p == accountRequest[r].user
    IN  /\ At(r, "letter")
        /\ accounts' = IF Exists(p) THEN [accounts EXCEPT ![p].verified = TRUE] ELSE accounts
        /\ Finishes(r)
        /\ UNCHANGED <<links, letters, earned, erased, overlapped>>
-----------------------------------------------------------------------------
(***************************************************************************)
(* The change of an address                                                *)
(***************************************************************************)

\* change_email: the form is checked against the rows of this moment.
AskChange(r, p, a) ==
    /\ At(r, "idle") /\ SignedIn(p) /\ a # accounts[p].address /\ Free(a, p)
    /\ Starts(r, [RequestIdle EXCEPT !.stage = "ask", !.user = p, !.address = a])
    /\ UNCHANGED <<accounts, links, letters, earned, erased, overlapped>>

\* A row another transaction has updated is locked.
LinkLocked(l, r) == \E q \in AccountRequests \ {r} : l \in accountRequest[q].found

\* create_email_change: a transaction that closes the open links it finds ...
FindLinks(r) ==
    LET p == accountRequest[r].user
    IN  /\ At(r, "ask") /\ \A l \in OpenLinks(p) : ~LinkLocked(l, r)
        /\ Starts(r, [accountRequest[r] EXCEPT !.stage = "link", !.found = OpenLinks(p)])
        /\ overlapped' = IF \E q \in Busy(p, r) : At(q, "link")
                         THEN overlapped \cup {p} ELSE overlapped
        /\ UNCHANGED <<accounts, links, letters, earned, erased>>

Closed(link) == [link EXCEPT !.open = FALSE]

\* ... and adds the new one; the user it belongs to must still be there.
InsertLink(r, l) ==
    LET q == accountRequest[r]
    IN  /\ At(r, "link") /\ links[l] = NoLink
        /\ links' = IF ~Exists(q.user) THEN links
                    ELSE [k \in LinkIds |->
                            IF k = l THEN [user |-> q.user, address |-> q.address, open |-> TRUE]
                            ELSE IF k \in q.found /\ links[k] # NoLink THEN Closed(links[k])
                            ELSE links[k]]
        /\ Finishes(r)
        /\ UNCHANGED <<accounts, letters, earned, erased, overlapped>>

\* confirm_email_change: one transaction that locks the link and its user.  An
\* address somebody else has got meanwhile closes the link without effect.
Confirm(l) ==
    /\ links[l] # NoLink /\ links[l].open /\ \A r \in AccountRequests : ~LinkLocked(l, r)
    /\ LET p == links[l].user
           a == links[l].address
       IN  /\ accounts' = IF Free(a, p)
                          THEN [accounts EXCEPT ![p].address = a, ![p].verified = TRUE]
                          ELSE accounts
           /\ earned' = earned \cup {<<p, a>>}
    /\ links' = [links EXCEPT ![l] = Closed(links[l])]
    /\ UNCHANGED <<letters, accountRequest, erased, overlapped>>

\* expires_at passes.
ExpireLink(l) ==
    /\ links[l] # NoLink /\ links[l].open /\ \A r \in AccountRequests : ~LinkLocked(l, r)
    /\ links' = [links EXCEPT ![l] = Closed(links[l])]
    /\ UNCHANGED <<accounts, letters, accountRequest, earned, erased, overlapped>>

\* cleanup_expired_personal_data --apply, once the retention period is over
CleanLinks ==
    /\ \E l \in LinkIds : links[l] # NoLink /\ ~links[l].open
    /\ links' = [l \in LinkIds |->
                   IF links[l] # NoLink /\ ~links[l].open THEN NoLink ELSE links[l]]
    /\ UNCHANGED <<accounts, letters, accountRequest, earned, erased, overlapped>>
-----------------------------------------------------------------------------
(***************************************************************************)
(* Passwords and secrets                                                   *)
(***************************************************************************)

\* A form that sets a password has read the whole row, ...
LoadAccount(r, p) ==
    /\ At(r, "idle") /\ SignedIn(p)
    /\ Starts(r, [RequestIdle EXCEPT !.stage = "password", !.user = p, !.row = accounts[p]])
    /\ UNCHANGED <<accounts, links, letters, earned, erased, overlapped>>

\* ... and saves all of it, or inserts it again if it is gone.
SavePassword(r) ==
    LET q == accountRequest[r]
    IN  /\ At(r, "password")
        /\ accounts' = IF Free(q.row.address, q.user)
                       THEN [accounts EXCEPT ![q.user] = q.row] ELSE accounts
        /\ Finishes(r)
        /\ UNCHANGED <<links, letters, earned, erased, overlapped>>

\* The second factor and the key of Rebrickable
EnterSecrets(r, p) ==
    /\ At(r, "idle") /\ SignedIn(p)
    /\ Starts(r, [RequestIdle EXCEPT !.stage = "secrets", !.user = p])
    /\ UNCHANGED <<accounts, links, letters, earned, erased, overlapped>>

SaveSecrets(r, kept) ==
    LET p == accountRequest[r].user
    IN  /\ At(r, "secrets")
        /\ accounts' = IF Exists(p) THEN [accounts EXCEPT ![p].secrets = kept] ELSE accounts
        /\ Finishes(r)
        /\ UNCHANGED <<links, letters, earned, erased, overlapped>>
-----------------------------------------------------------------------------
(***************************************************************************)
(* The end of an account                                                   *)
(***************************************************************************)
LinksWithout(p) ==
    [l \in LinkIds |-> IF links[l] # NoLink /\ links[l].user = p THEN NoLink ELSE links[l]]

\* Seeded fault: the links that are open are forgotten.
KeepsLinks(p) == links

\* anonymize_account deletes the links; the cascade of a deletion does, too.
LinksAfter(p) == LinksWithout(p)

Ends(p) ==
    /\ SignedIn(p)
    /\ \A l \in OpenLinks(p) : ~LinkLocked(l, Nobody)
    /\ links' = LinksAfter(p)
    /\ erased' = erased \cup {p}
    /\ overlapped' = IF Busy(p, Nobody) # {} THEN overlapped \cup {p} ELSE overlapped
    /\ UNCHANGED <<letters, accountRequest, earned>>

Anonymize(p) ==
    /\ Ends(p)
    /\ accounts' = [accounts EXCEPT ![p] = [address |-> Placeholder, verified |-> FALSE,
                                            active |-> FALSE, secrets |-> FALSE]]

Delete(p) ==
    /\ Ends(p)
    /\ accounts' = [accounts EXCEPT ![p] = NoAccount]

\* A worker dies, or a transaction is rolled back.
RequestDies(r) ==
    /\ ~At(r, "idle")
    /\ Finishes(r)
    /\ UNCHANGED <<accounts, links, letters, earned, erased, overlapped>>
-----------------------------------------------------------------------------
AddressInit ==
    /\ accounts = [p \in People |-> NoAccount]
    /\ links = [l \in LinkIds |-> NoLink]
    /\ letters = {} /\ earned = {} /\ erased = {} /\ overlapped = {}
    /\ accountRequest = [r \in AccountRequests |-> RequestIdle]

AddressNext ==
    \/ \E p \in People :
         \/ Resend(p) \/ Anonymize(p) \/ Delete(p)
         \/ \E a \in Mail : Register(p, a)
    \/ \E l \in LinkIds : Confirm(l) \/ ExpireLink(l)
    \/ CleanLinks
    \/ \E r \in AccountRequests :
         \/ \E letter \in letters : OpenLetter(r, letter)
         \/ SaveVerified(r) \/ FindLinks(r) \/ SavePassword(r) \/ RequestDies(r)
         \/ \E l \in LinkIds : InsertLink(r, l)
         \/ \E kept \in BOOLEAN : SaveSecrets(r, kept)
         \/ \E p \in People :
              \/ LoadAccount(r, p) \/ EnterSecrets(r, p)
              \/ \E a \in Mail : AskChange(r, p, a)

AddressSpec == AddressInit /\ [][AddressNext]_addressVars
-----------------------------------------------------------------------------
(***************************************************************************)
(* An account that can be used has an address its owner has shown to       *)
(* receive mail at; of the links to change it only the newest works; a     *)
(* deactivated or deleted account never gets contact data or secrets back  *)
(* (docs/account.md).  The last two leave out accounts of which requests   *)
(* have overlapped: what those may leave behind is said in the README.     *)
(***************************************************************************)
AddressesEarned ==
    \A p \in People :
      /\ SignedIn(p) => <<p, accounts[p].address>> \in earned
      /\ p \notin overlapped => Cardinality(OpenLinks(p)) <= 1
      /\ p \in erased \ overlapped =>
           /\ \A l \in LinkIds : links[l] = NoLink \/ links[l].user # p
           /\ ~Exists(p) \/ accounts[p] = [address |-> Placeholder, verified |-> FALSE,
                                            active |-> FALSE, secrets |-> FALSE]
=============================================================================
