---------------------------- MODULE AuthSessions -----------------------------
(***************************************************************************)
(* Users, their passwords and roles, and the sessions of refresh tokens    *)
(*   internal/auth/auth.go, middleware.go, internal/api/user_handlers.go,  *)
(*   auth_handlers.go, internal/store/store.go, cmd/hub/main.go            *)
(*                                                                         *)
(* A request runs in a goroutine of its own, without a lock or a           *)
(* transaction, and may end between two statements.  Anyone who can log in *)
(* holds an access token: it is good for its time whatever becomes of the  *)
(* session, and RequireAuth reads the user's row again for every request.  *)
(***************************************************************************)
EXTENDS Naturals, FiniteSets

CONSTANTS
  User, NoUser,        \* accounts that may be made; a deleted one does not return
  Watched,             \* those who log in (bound)
  Session, NoSession,  \* sessions that may be issued (bound)
  Request,             \* goroutines of the API's server (bound on those at work together)
  MaxPasswords,        \* bound: passwords an account has had
  MaxChanges           \* bound: requests of administrators

ASSUME NoneAssumption == NoUser \notin User /\ NoSession \notin Session
ASSUME WatchedAssumption == Watched \subseteq User
ASSUME PasswordsAssumption == MaxPasswords \in Nat \ {0} /\ MaxChanges \in Nat

Role == {"admin", "viewer"}
Field == {"password", "role"}

VARIABLES
  users,    \* table users: whether a row is there, its password (counted in the
            \* order they were written) and role
  sessions, \* table user_sessions: state, user, the password that was given for it,
            \* the session it took the place of
  audited,  \* users that audit_logs names
  req,      \* requests: where each one is and what it has read
  last,     \* what was last set in each field of a user's row
  revoked,  \* the last password whose sessions before it have been revoked
  lost,     \* <<user, field>> a copy was written over that was read before
  late,     \* sessions of requests that a revocation or a lost password came between
  raced,    \* sessions refreshed by two requests at once, or not revoked
  orphaned, \* whether an account was deleted for one that was gone itself
  changes   \* requests of administrators so far

history == <<last, revoked, lost, late, raced, orphaned, changes>>
vars == <<users, sessions, audited, req, history>>

Nobody == [there |-> FALSE, password |-> 0, role |-> "viewer"]
Unused == [state |-> "none", u |-> NoUser, password |-> 0, parent |-> NoSession]
Idle == [pc |-> "idle", actor |-> NoUser, u |-> NoUser, s |-> NoSession, given |-> 0,
         copy |-> Nobody, role |-> "viewer", late |-> FALSE, demoted |-> FALSE, stale |-> {}]

At(r, pc) == req[r].pc = pc
End(r) == req' = [req EXCEPT ![r] = Idle]
Go(r, pc) == req' = [req EXCEPT ![r].pc = pc]
Admin(row) == row.there /\ row.role = "admin"
Live(s) == sessions[s].state = "live"

-----------------------------------------------------------------------------
\* Sessions.

\* Login reads the row and compares the password: the one of the row is given.
Login(r, u) ==
  /\ At(r, "idle") /\ users[u].there
  /\ req' = [req EXCEPT ![r] = [Idle EXCEPT !.pc = "issue", !.u = u,
                                            !.given = users[u].password,
                                            !.late = <<u, "password">> \in lost]]
  /\ UNCHANGED <<users, sessions, audited, history>>

\* Fault: the time of revocation is not looked at.
FaultyRefreshable(s) == sessions[s].state \in {"live", "revoked"}

Refreshable(s) == Live(s)

Refreshing(q, s) == req[q].pc \in {"rotate", "issue"} /\ req[q].s = s

\* RefreshTokens reads the session of the token ...
RefreshTokens(r, s) ==
  /\ At(r, "idle") /\ Refreshable(s)
  /\ req' = [req EXCEPT ![r] = [Idle EXCEPT !.pc = "rotate", !.u = sessions[s].u, !.s = s,
                                            !.given = sessions[s].password,
                                            !.late = s \in late]]
  /\ raced' = IF \E q \in Request : Refreshing(q, s) THEN raced \cup {s} ELSE raced
  /\ UNCHANGED <<users, sessions, audited, last, revoked, lost, late, orphaned, changes>>

\* Fault: the old session stays.
FaultyRotated(s) == sessions

Rotated(s) == [sessions EXCEPT ![s].state = IF @ = "live" THEN "revoked" ELSE @]

\* ... then the user, and revokes it; an error of that is only logged.
RevokeOld(r) ==
  /\ At(r, "rotate") /\ users[req[r].u].there
  /\ LET s == req[r].s IN
       \/ sessions' = Rotated(s) /\ UNCHANGED raced
       \/ raced' = raced \cup {s} /\ UNCHANGED sessions
  /\ Go(r, "issue")
  /\ UNCHANGED <<users, audited, last, revoked, lost, late, orphaned, changes>>

\* Fault: foreign keys are not enforced.
FaultyIssuable(u) == TRUE

Issuable(u) == users[u].there

\* CreateUserSession: a session of the user, new or in the place of an old one.
Issue(r, s) ==
  /\ At(r, "issue") /\ sessions[s].state = "none"
  /\ LET q == req[r] IN
       /\ Issuable(q.u)
       /\ sessions' = [sessions EXCEPT ![s] =
            [state |-> "live", u |-> q.u, password |-> q.given, parent |-> q.s]]
       /\ late' = IF q.late THEN late \cup {s} ELSE late
  /\ End(r)
  /\ UNCHANGED <<users, audited, last, revoked, lost, raced, orphaned, changes>>

\* Logout, or the session's time is over.
EndSession(s) ==
  /\ Live(s)
  /\ sessions' = [sessions EXCEPT ![s].state = "revoked"]
  /\ UNCHANGED <<users, audited, req, history>>

-----------------------------------------------------------------------------
\* The administration of users.

Pending(r) == req[r].pc \in {"create", "update", "update write", "reset", "reset write", "delete"}
Holds(r) == req[r].pc \in {"update write", "reset write"}

\* What another request misses when fields of u's row are set, and whether its own
\* user is no longer an administrator.
Passed(q, u, new, set) ==
  [req[q] EXCEPT !.stale = IF Holds(q) /\ req[q].u = u THEN @ \cup set ELSE @,
                 !.demoted = @ \/ (Pending(q) /\ req[q].actor = u /\ ~Admin(new))]

\* All that is left is the audit entry.
Done(r) == [Idle EXCEPT !.pc = "audit", !.actor = req[r].actor]

\* The store's UpdateUser writes the whole copy, new in the fields set.
UpdateUser(r, u, new, set, next) ==
  /\ users[u].there
  /\ users' = [users EXCEPT ![u] = new]
  /\ req' = [q \in Request |-> IF q = r THEN next
                               ELSE Passed(q, u, new, set)]
  /\ last' = [last EXCEPT ![u] =
       [password |-> IF "password" \in set THEN new.password ELSE @.password,
        role |-> IF "role" \in set THEN new.role ELSE @.role]]
  /\ lost' = (lost \cup {<<u, f>> : f \in req[r].stale}) \ {<<u, f>> : f \in set}

\* Fault: every user is let in.
FaultyAllowed(row) == row.there

\* RequireRole looks at the row RequireAuth has read.
Allowed(row) == Admin(row)

\* Fault: one may delete oneself.
FaultyDeletable(a, u) == TRUE

Deletable(a, u) == a # u

LetIn(r, a, pc, u) ==
  /\ At(r, "idle") /\ Allowed(users[a])
  /\ (pc = "create") = (last[u].password = 0)
  /\ pc = "delete" => Deletable(a, u)
  /\ req' = [req EXCEPT ![r] = [Idle EXCEPT !.pc = pc, !.actor = a, !.u = u]]
  /\ changes < MaxChanges /\ changes' = changes + 1
  /\ UNCHANGED <<users, sessions, audited, last, revoked, lost, late, raced, orphaned>>

\* CreateUser, and seedAdminUser of a hub that starts without users.
Add(u, role) ==
  /\ users' = [users EXCEPT ![u] = [there |-> TRUE, password |-> 1, role |-> role]]
  /\ last' = [last EXCEPT ![u] = [password |-> 1, role |-> role]]

CreateUser(r, role) ==
  /\ At(r, "create") /\ last[req[r].u].password = 0
  /\ Add(req[r].u, role)
  /\ req' = [req EXCEPT ![r] = Done(r)]
  /\ UNCHANGED <<sessions, audited, revoked, lost, late, raced, orphaned, changes>>

SeedAdminUser(u) ==
  /\ \A w \in User : ~users[w].there
  /\ last[u].password = 0
  /\ Add(u, "admin")
  /\ req' = [r \in Request |-> Idle]
  /\ orphaned' = FALSE
  /\ UNCHANGED <<sessions, audited, revoked, lost, late, raced, changes>>

\* GetUser, for an update with a role or without one, or for a new password.
UpdateReads(r) ==
  /\ At(r, "update") /\ users[req[r].u].there
  /\ \E role \in Role :
       req' = [req EXCEPT ![r].pc = "update write", ![r].copy = users[req[r].u], ![r].role = role]
  /\ UNCHANGED <<users, sessions, audited, history>>

ResetReads(r) ==
  /\ At(r, "reset") /\ users[req[r].u].there
  /\ req' = [req EXCEPT ![r].pc = "reset write", ![r].copy = users[req[r].u]]
  /\ UNCHANGED <<users, sessions, audited, history>>

\* Fault: the hash is not carried over.
FaultyUpdated(copy, role) == [copy EXCEPT !.role = role, !.password = 0]

Updated(copy, role) == [copy EXCEPT !.role = role]

UpdateWrites(r) ==
  /\ At(r, "update write")
  /\ LET q == req[r] IN
       UpdateUser(r, q.u, Updated(q.copy, q.role), IF q.role = q.copy.role THEN {} ELSE {"role"}, Done(r))
  /\ UNCHANGED <<sessions, audited, revoked, late, raced, orphaned, changes>>

\* UpdatePassword writes the new hash ...
ResetWrites(r) ==
  /\ At(r, "reset write")
  /\ LET q == req[r]
         n == last[q.u].password + 1 IN
       /\ n <= MaxPasswords
       /\ UpdateUser(r, q.u, [q.copy EXCEPT !.password = n], {"password"},
                     [Done(r) EXCEPT !.pc = "reset revoke", !.u = q.u, !.given = n])
  /\ UNCHANGED <<sessions, audited, revoked, late, raced, orphaned, changes>>

\* The password a login or refresh under way has been given, before number n.
GivenBefore(q, u, n) ==
  /\ req[q].pc \in {"rotate", "issue"} /\ req[q].u = u
  /\ req[q].given < n

\* ... and then revokes all sessions it finds; an error is only logged (Abandon
\* has the rest).
RevokeAll(r) ==
  /\ At(r, "reset revoke")
  /\ LET u == req[r].u
         n == req[r].given IN
       /\ sessions' = [s \in Session |->
            IF sessions[s].u = u /\ Live(s) THEN [sessions[s] EXCEPT !.state = "revoked"] ELSE sessions[s]]
       /\ req' = [q \in Request |->
            IF q = r THEN Done(r)
            ELSE [req[q] EXCEPT !.late = @ \/ GivenBefore(q, u, n)]]
       /\ revoked' = [revoked EXCEPT ![u] = IF @ < n THEN n ELSE @]
  /\ UNCHANGED <<users, audited, last, lost, late, raced, orphaned, changes>>

\* audit_logs must not name the user; sessions go with the row.
DeleteUser(r) ==
  /\ At(r, "delete")
  /\ LET u == req[r].u IN
       /\ users[u].there /\ u \notin audited
       /\ users' = [users EXCEPT ![u] = Nobody]
       /\ sessions' = [s \in Session |->
            IF sessions[s].u = u THEN [Unused EXCEPT !.state = "gone"] ELSE sessions[s]]
       /\ req' = [q \in Request |-> IF q = r THEN Done(r)
                                    ELSE Passed(q, u, Nobody, {})]
       /\ late' = {s \in late : sessions[s].u # u} /\ raced' = {s \in raced : sessions[s].u # u}
       /\ orphaned' = (orphaned \/ ~users[req[r].actor].there)
  /\ UNCHANGED <<audited, last, revoked, lost, changes>>

\* The audit entry names the user who asked, if still there.
Audit(r) ==
  /\ At(r, "audit") /\ users[req[r].actor].there
  /\ audited' = audited \cup {req[r].actor}
  /\ End(r)
  /\ UNCHANGED <<users, sessions, history>>

\* A request ends before its next statement, or that fails or finds nothing.
Abandon(r) ==
  /\ ~At(r, "idle")
  /\ End(r)
  /\ UNCHANGED <<users, sessions, audited, history>>

-----------------------------------------------------------------------------
\* The administrators there are so far: none before one is seeded; the others'
\* audit entry may have failed.
Init ==
  /\ \E admins \in SUBSET User :
       /\ users = [u \in User |-> IF u \in admins
                                 THEN [there |-> TRUE, password |-> 1, role |-> "admin"]
                                 ELSE Nobody]
  /\ sessions = [s \in Session |-> Unused]
  /\ audited = {}
  /\ req = [r \in Request |-> Idle]
  /\ last = [u \in User |-> [password |-> users[u].password, role |-> users[u].role]]
  /\ revoked = [u \in User |-> 0]
  /\ lost = {} /\ late = {} /\ raced = {} /\ orphaned = FALSE /\ changes = 0

Next ==
  \/ \E r \in Request :
       \/ \E u \in Watched : Login(r, u)
       \/ \E s \in Session : RefreshTokens(r, s) \/ Issue(r, s)
       \/ RevokeOld(r)
       \/ \E a, u \in User, pc \in {"create", "update", "reset", "delete"} : LetIn(r, a, pc, u)
       \/ \E role \in Role : CreateUser(r, role)
       \/ UpdateReads(r) \/ UpdateWrites(r) \/ ResetReads(r) \/ ResetWrites(r) \/ RevokeAll(r)
       \/ DeleteUser(r) \/ Audit(r) \/ Abandon(r)
  \/ \E s \in Session : EndSession(s)
  \/ \E u \in User : SeedAdminUser(u)

Spec == Init /\ [][Next]_vars

-----------------------------------------------------------------------------
\* Properties.

Row == [there : BOOLEAN, password : 0..MaxPasswords, role : Role]

\* A live session's user is there: sessions go with the account.
TypeOK ==
  /\ users \in [User -> Row]
  /\ sessions \in [Session -> [state : {"none", "live", "revoked", "gone"}, u : User \cup {NoUser},
                               password : 0..MaxPasswords, parent : Session \cup {NoSession}]]
  /\ audited \subseteq User
  /\ req \in [Request -> [pc : {"idle", "issue", "rotate", "create", "update", "update write", "reset",
                                "reset write", "reset revoke", "delete", "audit"},
                          actor : User \cup {NoUser}, u : User \cup {NoUser},
                          s : Session \cup {NoSession}, given : 0..MaxPasswords, copy : Row, role : Role, late : BOOLEAN,
                          demoted : BOOLEAN, stale : SUBSET Field]]
  /\ last \in [User -> [password : 0..MaxPasswords, role : Role]]
  /\ revoked \in [User -> 0..MaxPasswords]
  /\ lost \subseteq User \X Field
  /\ late \subseteq Session /\ raced \subseteq Session /\ orphaned \in BOOLEAN
  /\ changes \in 0..MaxChanges
  /\ \A s \in Session : Live(s) => sessions[s].u \in User /\ users[sessions[s].u].there

\* After a password change has revoked the sessions, none lives that an older
\* password was given for, except those of a login or refresh that had checked it
\* before, or after a profile update brought it back: UpdatePassword.
PasswordEndsSessions ==
  \A s \in Session : Live(s) =>
    s \in late \/ sessions[s].password >= revoked[sessions[s].u]

\* A user's password and role are the ones last set, whatever requests write the
\* row for the sake of the other, except one that had read it before: UpdateUser,
\* UpdatePassword.
UserKeepsWrites ==
  \A u \in User : users[u].there =>
    /\ <<u, "password">> \notin lost => users[u].password = last[u].password
    /\ <<u, "role">> \notin lost => users[u].role = last[u].role

\* A refresh token is good for one other, unless two refreshes overlapped or the
\* revocation failed: RefreshTokens.
OneSuccessor ==
  \A s, t \in Session :
    s # t /\ sessions[s].parent = sessions[t].parent => sessions[s].parent \in raced \cup {NoSession}

\* Users are administered for administrators only: for another one if it has lost
\* the role, or its account, since RequireAuth read it.
OnlyAdminsChangeUsers ==
  \A r \in Request :
    Pending(r) => req[r].demoted \/ Admin(users[req[r].actor])

\* Accounts are not all deleted, unless the last is by a request of one that was
\* deleted meanwhile: DeleteUser.
SomeoneStays ==
  \/ orphaned
  \/ \E u \in User : users[u].there
  \/ \A u \in User : last[u].password = 0
=============================================================================
