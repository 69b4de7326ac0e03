--------------------------- MODULE AccountSessions ---------------------------
(***************************************************************************)
(* Sessions of an account (apps/accounts, AccountSessionMiddleware).  A    *)
(* session of Django is valid for the password it was started with.  The   *)
(* page "Sitzungen" lists AccountSession rows and ends what it lists, so   *)
(* the list has to follow every login, logout and change of a key.         *)
(***************************************************************************)
EXTENDS Integers, FiniteSets

CONSTANTS
    SessionRequests, \* requests in flight
    Owners,          \* accounts
    Keys,            \* session keys
    MaxPasswords,    \* bounds how often an account gets another password
    NoSession, NoKey, NoOwner

ASSUME SessionAssumption ==
    /\ MaxPasswords \in Nat \ {0} /\ NoKey \notin Keys /\ NoOwner \notin Owners
    /\ NoSession \notin [user : Owners, password : Nat]

VARIABLES
    owner,          \* User rows: is there one, is it active, its password, a second factor?
    sessions,       \* Session rows that have not expired
    registry,       \* user of the AccountSession rows
    used,           \* keys that were ever given out
    browsers,       \* keys a browser has received in an answer
    sessionRequest, \* what each request is doing
    cut             \* sessions whose logout was cut off half-way

sessionVars == <<owner, sessions, registry, used, browsers, sessionRequest, cut>>

RequestAtRest == [stage |-> "idle", user |-> NoOwner, key |-> NoKey, row |-> NoOwner, listed |-> {}]

Stage(r, stage) == sessionRequest[r].stage = stage
Becomes(r, request) == sessionRequest' = [sessionRequest EXCEPT ![r] = request]
Proceeds(r, stage) == Becomes(r, [sessionRequest[r] EXCEPT !.stage = stage])
Rests(r) == Becomes(r, RequestAtRest)

\* get_user: the account is active and has the password of the session.
Usable(k) ==
    /\ sessions[k] # NoSession
    /\ LET o == owner[sessions[k].user]
       IN  o.exists /\ o.active /\ o.password = sessions[k].password

KeysOf(o) == {k \in Keys : registry[k] = o}
-----------------------------------------------------------------------------
(***************************************************************************)
(* Login                                                                   *)
(***************************************************************************)

\* SecureLoginView: the password is right; a second factor is asked for.
Authenticate(r, o) ==
    /\ Stage(r, "idle") /\ owner[o].exists /\ owner[o].active
    /\ Becomes(r, [RequestAtRest EXCEPT !.stage = IF owner[o].factor THEN "challenge" ELSE "login",
                                        !.user = o, !.row = owner[o]])
    /\ UNCHANGED <<owner, sessions, registry, used, browsers, cut>>

\* two_factor_challenge: the user is read again and must still have a factor.
Challenge(r) ==
    LET o == sessionRequest[r].user
    IN  /\ Stage(r, "challenge")
        /\ IF owner[o].exists /\ owner[o].active /\ owner[o].factor
           THEN Becomes(r, [sessionRequest[r] EXCEPT !.stage = "login", !.row = owner[o]])
           ELSE Rests(r)
        /\ UNCHANGED <<owner, sessions, registry, used, browsers, cut>>

\* login: a session with a new key, for the password that was read
StartSession(r, k) ==
    LET q == sessionRequest[r]
    IN  /\ Stage(r, "login") /\ k \notin used
        /\ sessions' = [sessions EXCEPT ![k] = [user |-> q.user, password |-> q.row.password]]
        /\ used' = used \cup {k}
        /\ Becomes(r, [q EXCEPT !.stage = "track", !.key = k, !.row = NoOwner])
        /\ UNCHANGED <<owner, registry, browsers, cut>>

\* update_or_create of the AccountSession; its user must be there.
Listed(k, o) == IF owner[o].exists THEN [registry EXCEPT ![k] = o] ELSE registry

\* audit_login, track_session
Track(r) ==
    LET q == sessionRequest[r]
    IN  /\ Stage(r, "track")
        /\ registry' = Listed(q.key, q.user)
        /\ IF owner[q.user].exists THEN Proceeds(r, "answer") ELSE Rests(r)
        /\ UNCHANGED <<owner, sessions, used, browsers, cut>>
-----------------------------------------------------------------------------
(***************************************************************************)
(* Requests of a session                                                   *)
(***************************************************************************)
Enter(r, k, stage) ==
    LET o == sessions[k].user
    IN  /\ Stage(r, "idle") /\ k \in browsers /\ Usable(k)
        /\ Becomes(r, [stage |-> stage, user |-> o, key |-> k,
                       row |-> IF stage \in {"password", "factor"} THEN owner[o] ELSE NoOwner,
                       listed |-> IF stage = "others" THEN KeysOf(o) \ {k} ELSE {}])
        /\ UNCHANGED <<owner, sessions, registry, used, browsers, cut>>

\* Seeded fault: nothing is listed after the view.
ListedAtLogin(r) == registry

\* AccountSessionMiddleware lists the session once the view is through.
ListedByMiddleware(r) == Listed(sessionRequest[r].key, sessionRequest[r].user)

Answer(r) ==
    /\ Stage(r, "answer")
    /\ registry' = ListedByMiddleware(r)
    /\ browsers' = IF owner[sessionRequest[r].user].exists
                   THEN browsers \cup {sessionRequest[r].key} ELSE browsers
    /\ cut' = cut \ {sessionRequest[r].key}
    /\ Rests(r)
    /\ UNCHANGED <<owner, sessions, used>>

\* PasswordChangeView saves the row as it was read with the new password and
\* goes on with a session that has another key.
ChangePassword(r, k) ==
    LET q == sessionRequest[r]
    IN  /\ Stage(r, "password") /\ k \notin used /\ owner[q.user].password < MaxPasswords
        /\ owner' = [owner EXCEPT ![q.user] =
                       [q.row EXCEPT !.password = owner[q.user].password + 1]]
        /\ sessions' = [sessions EXCEPT ![q.key] = NoSession,
                          ![k] = [user |-> q.user, password |-> owner[q.user].password + 1]]
        /\ used' = used \cup {k}
        /\ Becomes(r, [q EXCEPT !.stage = "answer", !.key = k, !.row = NoOwner])
        /\ UNCHANGED <<registry, browsers, cut>>

\* PasswordResetConfirmView: a new password without a session
ResetPassword(o) ==
    /\ owner[o].exists /\ owner[o].active /\ owner[o].password < MaxPasswords
    /\ owner' = [owner EXCEPT ![o].password = @ + 1]
    /\ UNCHANGED <<sessions, registry, used, browsers, sessionRequest, cut>>

\* two_factor_setup, two_factor_disable
SwitchFactor(r) ==
    LET q == sessionRequest[r]
    IN  /\ Stage(r, "factor")
        /\ owner' = IF owner[q.user].exists THEN [owner EXCEPT ![q.user].factor = ~q.row.factor]
                    ELSE owner
        /\ Becomes(r, [q EXCEPT !.stage = "answer", !.row = NoOwner])
        /\ UNCHANGED <<sessions, registry, used, browsers, cut>>

\* revoke_session: the session and its row
Revoked(k) == /\ sessions' = [sessions EXCEPT ![k] = NoSession]
              /\ registry' = [registry EXCEPT ![k] = NoOwner]

\* revoke_session_view: one of the sessions that are listed, never the own one
RevokeOne(r, k) ==
    LET q == sessionRequest[r]
    IN  /\ Stage(r, "one") /\ k # q.key /\ registry[k] = q.user
        /\ Revoked(k)
        /\ Proceeds(r, "answer")
        /\ UNCHANGED <<owner, used, browsers, cut>>

\* revoke_other_sessions: those that were listed at the start, one by one
RevokeOther(r, k) ==
    LET q == sessionRequest[r]
    IN  /\ Stage(r, "others") /\ k \in q.listed
        /\ Revoked(k)
        /\ Becomes(r, [q EXCEPT !.listed = @ \ {k}])
        /\ UNCHANGED <<owner, used, browsers, cut>>

OthersRevoked(r) ==
    /\ Stage(r, "others") /\ sessionRequest[r].listed = {}
    /\ Proceeds(r, "answer")
    /\ UNCHANGED <<owner, sessions, registry, used, browsers, cut>>

\* logout: the signal takes the session off the list, ...
Unlist(r) ==
    /\ Stage(r, "leave")
    /\ registry' = [registry EXCEPT ![sessionRequest[r].key] = NoOwner]
    /\ Proceeds(r, "flush")
    /\ UNCHANGED <<owner, sessions, used, browsers, cut>>

\* ... then the session is deleted; the middleware finds nobody to list.
Flush(r) ==
    /\ Stage(r, "flush")
    /\ sessions' = [sessions EXCEPT ![sessionRequest[r].key] = NoSession]
    /\ browsers' = browsers \ {sessionRequest[r].key}
    /\ Rests(r)
    /\ UNCHANGED <<owner, registry, used, cut>>
-----------------------------------------------------------------------------
(***************************************************************************)
(* The end of an account, of a session, of a request                       *)
(***************************************************************************)

\* _revoke_all_sessions, in the transaction that ends the account
EndAccount(r, row) ==
    LET o == sessionRequest[r].user
    IN  /\ Stage(r, "end") /\ owner[o].exists
        /\ owner' = [owner EXCEPT ![o] = row]
        /\ sessions' = [k \in Keys |-> IF sessions[k] # NoSession /\ sessions[k].user = o
                                       THEN NoSession ELSE sessions[k]]
        /\ registry' = [k \in Keys |-> IF registry[k] = o THEN NoOwner ELSE registry[k]]
        /\ browsers' = browsers \ {sessionRequest[r].key}
        /\ Rests(r)
        /\ UNCHANGED <<used, cut>>

\* anonymize_account: the password becomes unusable.
AnonymizeAccount(r) ==
    EndAccount(r, [exists |-> TRUE, active |-> FALSE, password |-> 0, factor |-> FALSE])

\* delete_account_and_data
DeleteAccount(r) ==
    EndAccount(r, [exists |-> FALSE, active |-> FALSE, password |-> 0, factor |-> FALSE])

ExpireSession(k) ==
    /\ sessions[k] # NoSession
    /\ sessions' = [sessions EXCEPT ![k] = NoSession]
    /\ UNCHANGED <<owner, registry, used, browsers, sessionRequest, cut>>

\* cleanup_expired_personal_data: rows without a session that is valid
CleanRegistry ==
    /\ \E k \in Keys : registry[k] # NoOwner /\ sessions[k] = NoSession
    /\ registry' = [k \in Keys |-> IF sessions[k] = NoSession THEN NoOwner ELSE registry[k]]
    /\ UNCHANGED <<owner, sessions, used, browsers, sessionRequest, cut>>

\* A worker dies, or a view fails.
RequestEnds(r) ==
    /\ ~Stage(r, "idle")
    /\ cut' = IF Stage(r, "flush") THEN cut \cup {sessionRequest[r].key} ELSE cut
    /\ Rests(r)
    /\ UNCHANGED <<owner, sessions, registry, used, browsers>>
-----------------------------------------------------------------------------
SessionInit ==
    /\ owner \in [Owners -> [exists : {TRUE}, active : {TRUE}, password : {1}, factor : BOOLEAN]]
    /\ sessions = [k \in Keys |-> NoSession]
    /\ registry = [k \in Keys |-> NoOwner]
    /\ used = {} /\ browsers = {} /\ cut = {}
    /\ sessionRequest = [r \in SessionRequests |-> RequestAtRest]

Views == {"answer", "password", "factor", "one", "others", "leave", "end"}

SessionNext ==
    \/ \E r \in SessionRequests :
         \/ Challenge(r) \/ Track(r) \/ Answer(r) \/ SwitchFactor(r) \/ OthersRevoked(r)
         \/ Unlist(r) \/ Flush(r) \/ AnonymizeAccount(r) \/ DeleteAccount(r) \/ RequestEnds(r)
         \/ \E o \in Owners : Authenticate(r, o)
         \/ \E k \in Keys :
              \/ StartSession(r, k) \/ ChangePassword(r, k)
              \/ RevokeOne(r, k) \/ RevokeOther(r, k)
              \/ \E view \in Views : Enter(r, k, view)
    \/ \E o \in Owners : ResetPassword(o)
    \/ \E k \in Keys : ExpireSession(k)
    \/ CleanRegistry

SessionSpec == SessionInit /\ [][SessionNext]_sessionVars
-----------------------------------------------------------------------------
InFlight(k) == \E r \in SessionRequests : sessionRequest[r].key = k

(***************************************************************************)
(* A session somebody can go on with is on the list of its account, so the *)
(* page that ends sessions can end it; only while a request of it is under *)
(* way, or after a worker died in its logout, it may be missing.           *)
(***************************************************************************)
SessionsListed ==
    \A k \in browsers \ cut : Usable(k) /\ ~InFlight(k) => registry[k] = sessions[k].user
=============================================================================
