------------------------------ MODULE Sessions ------------------------------
(***************************************************************************)
(* Sign-in state of one account: services/auth_service.py, the token       *)
(* checks of core/security.py, the session part of delete_account and of   *)
(* the cleanup job.                                                        *)
(*                                                                         *)
(* A sign-in answers with a pair of JWTs that carry users.token_version;   *)
(* the refresh token also has a refresh_sessions row.  Requests are        *)
(* transactions as in Billing: a SELECT sees what was committed before it, *)
(* an object keeps the values it was loaded with, and token_version += 1   *)
(* writes the loaded value plus one.  An UPDATE of the users row holds its *)
(* lock until the request ends; every sign-in sends one (last_login_at).   *)
(***************************************************************************)
EXTENDS Integers, FiniteSets, Sequences

CONSTANTS
    Tx,          \* request slots
    Overlap,     \* may requests that sign out everywhere overlap?
    MaxTokens,   \* bound on the token pairs issued
    MaxRevokes   \* bound on the requests that sign out everywhere

ASSUME OverlapAssumption == Overlap \in BOOLEAN
ASSUME BoundsAssumption  == MaxTokens \in Nat /\ MaxRevokes \in Nat

RevokeKind == {"logout_all", "password", "delete"}
Kind == {"login", "refresh", "logout"} \cup RevokeKind

VARIABLES
    ver,        \* users.token_version
    password,   \* which password users.password_hash holds: 1, 2, ...
    deleted,    \* users.deleted_at is set
    tokens,     \* every token pair answered so far, in order
    sessions,   \* ids (positions in tokens) that have a refresh_sessions row
    revoked,    \* rows with revoked_at set
    expired,    \* rows past expires_at
    pc,         \* control point of each slot
    req,        \* its request
    load,       \* token_version as the request loaded it
    found,      \* unrevoked sessions logout_all selected
    epoch,      \* history: committed sign-outs everywhere
    exchanged   \* history: sessions a committed refresh has used

rows == <<sessions, revoked, expired>>
slots == <<pc, req, load, found>>
vars == <<ver, password, deleted, tokens, rows, slots, epoch, exchanged>>

-----------------------------------------------------------------------------
(* ver is in the JWT; root and pw are history: the epoch at which the       *)
(* credentials behind the token were checked, and the password given (0 for *)
(* a Google or OAuth sign-in).                                              *)
Token(v, root, pw) == [ver |-> v, root |-> root, pw |-> pw]

NoReq == [kind |-> "none", token |-> 0, root |-> 0, pw |-> 0, late |-> FALSE]

\* _load_user: the bearer token is accepted (until it expires).
Accepted(n) == ~deleted /\ tokens[n].ver = ver

\* The lock on the users row is free.
Unlocked == \A t \in Tx : pc[t] # "locked"

Start(t, r) ==
    /\ pc[t] = "idle"
    /\ pc' = [pc EXCEPT ![t] = "loaded"]
    /\ req' = [req EXCEPT ![t] = r]
    /\ load' = [load EXCEPT ![t] = ver]
    /\ UNCHANGED <<ver, password, deleted, tokens, rows, found, epoch, exchanged>>

Finish(t) ==
    /\ pc' = [pc EXCEPT ![t] = "idle"]
    /\ req' = [req EXCEPT ![t] = NoReq]
    /\ load' = [load EXCEPT ![t] = 0]
    /\ found' = [found EXCEPT ![t] = {}]

Init ==
    /\ ver = 0
    /\ password = 1
    /\ deleted = FALSE
    /\ tokens = << >>
    /\ sessions = {} /\ revoked = {} /\ expired = {}
    /\ pc = [t \in Tx |-> "idle"]
    /\ req = [t \in Tx |-> NoReq]
    /\ load = [t \in Tx |-> 0]
    /\ found = [t \in Tx |-> {}]
    /\ epoch = 0
    /\ exchanged = {}

-----------------------------------------------------------------------------
(* _issue_tokens *)

\* Mutant: the version is read again when the tokens are made.
IssueCurrent(t) ==
    /\ Len(tokens) < MaxTokens
    /\ tokens' = Append(tokens, Token(ver, req[t].root, req[t].pw))
    /\ sessions' = sessions \cup {Len(tokens) + 1}

\* Both tokens carry the version of the user object the request loaded.
Issue(t) ==
    /\ Len(tokens) < MaxTokens
    /\ tokens' = Append(tokens, Token(load[t], req[t].root, req[t].pw))
    /\ sessions' = sessions \cup {Len(tokens) + 1}

-----------------------------------------------------------------------------
(* login, google_login, oauth_login *)

\* The account is loaded and the credentials are checked; a wrong password and
\* a deleted account are refused.
LoginBegin(t, pw) ==
    /\ ~deleted
    /\ pw \in {0, password}
    /\ Start(t, [kind |-> "login", token |-> 0, root |-> epoch, pw |-> pw, late |-> FALSE])

LoginCommit(t) ==
    /\ pc[t] = "loaded" /\ req[t].kind = "login"
    /\ Unlocked
    /\ Issue(t)
    /\ Finish(t)
    /\ UNCHANGED <<ver, password, deleted, revoked, expired, epoch, exchanged>>

-----------------------------------------------------------------------------
(* refresh *)

\* Mutant: the version in the refresh token is not compared.
RefreshUnversioned(t, n) ==
    /\ n \in sessions \ (revoked \cup expired)
    /\ ~deleted
    /\ Start(t, [kind |-> "refresh", token |-> n, root |-> tokens[n].root,
                 pw |-> tokens[n].pw, late |-> n \in exchanged])

\* The session row and the user are selected and checked.  A logout between
\* the two SELECTs acts as one after them, a sign-out everywhere as one before.
RefreshBegin(t, n) ==
    /\ n \in sessions \ (revoked \cup expired)
    /\ Accepted(n)
    /\ Start(t, [kind |-> "refresh", token |-> n, root |-> tokens[n].root,
                 pw |-> tokens[n].pw, late |-> n \in exchanged])

\* Mutant: the old session is not revoked.
RefreshKeeps(t) ==
    /\ pc[t] = "loaded" /\ req[t].kind = "refresh"
    /\ Unlocked
    /\ req[t].token \in sessions
    /\ Issue(t)
    /\ exchanged' = exchanged \cup {req[t].token}
    /\ Finish(t)
    /\ UNCHANGED <<ver, password, deleted, revoked, expired, epoch>>

\* Rotation: the old session is revoked with the new one's INSERT.
RefreshCommit(t) ==
    /\ pc[t] = "loaded" /\ req[t].kind = "refresh"
    /\ Unlocked
    /\ req[t].token \in sessions
    /\ Issue(t)
    /\ revoked' = revoked \cup {req[t].token}
    /\ exchanged' = exchanged \cup {req[t].token}
    /\ Finish(t)
    /\ UNCHANGED <<ver, password, deleted, expired, epoch>>

-----------------------------------------------------------------------------
(* logout *)

LogoutBegin(t, n) ==
    /\ n \in sessions \ revoked
    /\ Start(t, [kind |-> "logout", token |-> n, root |-> 0, pw |-> 0, late |-> FALSE])

LogoutCommit(t) ==
    /\ pc[t] = "loaded" /\ req[t].kind = "logout"
    /\ req[t].token \in sessions
    /\ revoked' = revoked \cup {req[t].token}
    /\ Finish(t)
    /\ UNCHANGED <<ver, password, deleted, tokens, sessions, expired, epoch, exchanged>>

\* The row a refresh or a logout would update is gone: the UPDATE matches no
\* row, which SQLAlchemy raises as StaleDataError, and the request rolls back.
RowGone(t) ==
    /\ pc[t] = "loaded" /\ req[t].kind \in {"refresh", "logout"}
    /\ req[t].token \notin sessions
    /\ Finish(t)
    /\ UNCHANGED <<ver, password, deleted, tokens, rows, epoch, exchanged>>

-----------------------------------------------------------------------------
(* logout_all, change_password, delete_account *)

Revoking(t) == req[t].kind \in RevokeKind

\* The bearer token n is accepted; a password change also checks the current
\* password, which the account holder knows.
RevokeBegin(t, k, n) ==
    /\ Accepted(n)
    /\ Overlap \/ \A s \in Tx : ~Revoking(s)
    /\ epoch < MaxRevokes
    /\ Start(t, [kind |-> k, token |-> n, root |-> 0, pw |-> 0, late |-> FALSE])

\* The SELECT of logout_all first flushes token_version, which takes the lock
\* of the users row, then finds the sessions to revoke.
RevokeLock(t) ==
    /\ pc[t] = "loaded" /\ Revoking(t)
    /\ Unlocked
    /\ pc' = [pc EXCEPT ![t] = "locked"]
    /\ found' = [found EXCEPT ![t] = sessions \ revoked]
    /\ UNCHANGED <<ver, password, deleted, tokens, rows, req, load, epoch, exchanged>>

\* delete_account deletes every session row besides.
RevokeCommit(t) ==
    /\ pc[t] = "locked"
    /\ ver' = load[t] + 1
    /\ password' = IF req[t].kind = "password" THEN password + 1 ELSE password
    /\ deleted' = (deleted \/ req[t].kind = "delete")
    /\ IF req[t].kind = "delete"
       THEN sessions' = {} /\ revoked' = {} /\ expired' = {}
       ELSE /\ revoked' = revoked \cup (found[t] \cap sessions)
            /\ UNCHANGED <<sessions, expired>>
    /\ epoch' = epoch + 1
    /\ Finish(t)
    /\ UNCHANGED <<tokens, exchanged>>

-----------------------------------------------------------------------------
\* Any request may fail or crash; its transaction is rolled back.  One that
\* updates a session row the cleanup job has deleted fails this way too.
Abort(t) ==
    /\ pc[t] # "idle"
    /\ Finish(t)
    /\ UNCHANGED <<ver, password, deleted, tokens, rows, epoch, exchanged>>

\* The clock passes the expiry of a refresh session.
Expire(n) ==
    /\ n \in sessions \ expired
    /\ expired' = expired \cup {n}
    /\ UNCHANGED <<ver, password, deleted, tokens, sessions, revoked, slots, epoch, exchanged>>

\* The cleanup job deletes expired and revoked rows.
Cleanup ==
    /\ sessions' = sessions \ (revoked \cup expired)
    /\ revoked' = {} /\ expired' = {}
    /\ UNCHANGED <<ver, password, deleted, tokens, slots, epoch, exchanged>>

Begin(t) ==
    \/ \E pw \in 0..password : LoginBegin(t, pw)
    \/ \E n \in DOMAIN tokens : \/ RefreshBegin(t, n) \/ LogoutBegin(t, n)
                                \/ \E k \in RevokeKind : RevokeBegin(t, k, n)

Step(t) ==
    \/ LoginCommit(t) \/ RefreshCommit(t) \/ LogoutCommit(t) \/ RowGone(t)
    \/ RevokeLock(t) \/ RevokeCommit(t)
    \/ Abort(t)

Next ==
    \/ \E t \in Tx : Begin(t) \/ Step(t)
    \/ \E n \in sessions : Expire(n)
    \/ Cleanup

Spec == Init /\ [][Next]_vars

-----------------------------------------------------------------------------
\* A token is accepted only if the sign-in it descends from, through any number
\* of refreshes, checked its credentials after the last logout-all, password
\* change or deletion committed: sign-ins and refreshes in flight during one
\* yield tokens that are dead on arrival.
AcceptedSignInIsCurrent ==
    \A n \in DOMAIN tokens : Accepted(n) => tokens[n].root = epoch

\* No accepted token goes back to a password that has been changed since.
OldPasswordOpensNothing ==
    \A n \in DOMAIN tokens : Accepted(n) => tokens[n].pw \in {0, password}

\* Once the refresh that used a session has committed, no request that begins
\* later gets past the checks with it.
RotatedIsRefused == \A t \in Tx : ~req[t].late
=============================================================================
