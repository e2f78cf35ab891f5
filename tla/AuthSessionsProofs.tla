-------------------------- MODULE AuthSessionsProofs --------------------------
(***************************************************************************)
(* Theorems about AuthSessions, for any accounts, sessions, requests at    *)
(* once, passwords and changes.                                            *)
(*                                                                         *)
(* The invariant adds to the properties                                    *)
(*   Begun        a request at work has the user, actor or session its     *)
(*                next statement needs; a deletion is never of its actor   *)
(*   Known        an account that is there has had a password              *)
(*   Revocations  what is revoked, or given to a login or refresh under    *)
(*                way, in the order of the passwords                       *)
(*   Copied       a copy of a row says what was last set, or what it       *)
(*                misses is noted                                          *)
(*   Lineage      a session, the one it took the place of, and the         *)
(*                refreshes under way between them                         *)
(***************************************************************************)
EXTENDS AuthSessions, TLAPS

Refreshers == {"rotate", "issue"}
Changers == {"update", "update write", "reset", "reset write"}

BegunAt(r) ==
  /\ req[r].pc \in Refreshers => req[r].u \in User
  /\ At(r, "rotate") => req[r].s \in Session
  /\ Pending(r) \/ At(r, "reset revoke") => req[r].actor \in User /\ req[r].u \in User
  /\ At(r, "audit") => req[r].actor \in User
  /\ req[r].pc \in Changers => last[req[r].u].password # 0
  /\ Holds(r) => req[r].copy.there
  /\ At(r, "delete") => req[r].actor # req[r].u

Begun == \A r \in Request : BegunAt(r)

Known == \A u \in User : users[u].there => last[u].password # 0

Owed(r) == At(r, "reset revoke") => req[r].given <= last[req[r].u].password
Timely(r) == req[r].pc \in Refreshers => req[r].late \/ req[r].given >= revoked[req[r].u]
Outlives(s) == Live(s) => s \in late \/ sessions[s].password >= revoked[sessions[s].u]

Revocations ==
  /\ \A u \in User : revoked[u] <= last[u].password
  /\ \A r \in Request : Owed(r) /\ Timely(r)

Misses(r, f) == f \in req[r].stale \/ <<req[r].u, f>> \in lost

CopiedAt(r) ==
  Holds(r) =>
    /\ Misses(r, "password") \/ req[r].copy.password = last[req[r].u].password
    /\ Misses(r, "role") \/ req[r].copy.role = last[req[r].u].role

Copied == \A r \in Request : CopiedAt(r)

\* A deleted account, which does not return.
Away(u) == ~users[u].there /\ last[u].password # 0

Present(s) == sessions[s].state \in {"live", "revoked"}

Parents ==
  \A s, p \in Session : sessions[s].parent = p => Present(p) /\ sessions[s].u = sessions[p].u

Refreshes ==
  \A r \in Request, p \in Session : Refreshing(r, p) =>
    \/ Present(p) /\ sessions[p].u = req[r].u
    \/ sessions[p].state = "gone" /\ Away(req[r].u)

Single(p) ==
  /\ \A q, r \in Request : Refreshing(q, p) /\ Refreshing(r, p) => q = r
  /\ \A r \in Request : Refreshing(r, p) /\ At(r, "issue") => ~Live(p)
  /\ \A s \in Session : sessions[s].parent = p => ~Live(p) /\ \A r \in Request : ~Refreshing(r, p)
  /\ \A s, t \in Session : sessions[s].parent = p /\ sessions[t].parent = p => s = t

Lineage ==
  /\ Parents
  /\ Refreshes
  /\ \A p \in Session : Present(p) => p \in raced \/ Single(p)

IInv ==
  /\ TypeOK /\ Begun /\ Known
  /\ Revocations /\ PasswordEndsSessions
  /\ Copied /\ UserKeepsWrites
  /\ OnlyAdminsChangeUsers /\ SomeoneStays
  /\ Lineage

-----------------------------------------------------------------------------
Pc == {"idle", "issue", "rotate", "create", "update", "update write", "reset",
       "reset write", "reset revoke", "delete", "audit"}
User0 == User \cup {NoUser}
Session0 == Session \cup {NoSession}
Password == 0..MaxPasswords
RequestRow == [pc : Pc, actor : User0, u : User0, s : Session0, given : Password, copy : Row,
               role : Role, late : BOOLEAN, demoted : BOOLEAN, stale : SUBSET Field]
SessionRow == [state : {"none", "live", "revoked", "gone"}, u : User0, password : Password,
               parent : Session0]
LastRow == [password : Password, role : Role]

Tables ==
  /\ users \in [User -> Row]
  /\ sessions \in [Session -> SessionRow]
  /\ req \in [Request -> RequestRow]
  /\ last \in [User -> LastRow]
Notes ==
  /\ audited \subseteq User
  /\ revoked \in [User -> Password]
  /\ lost \subseteq User \X Field
  /\ late \subseteq Session /\ raced \subseteq Session /\ orphaned \in BOOLEAN
  /\ changes \in 0..MaxChanges
Owned == \A s \in Session : Live(s) => sessions[s].u \in User /\ users[sessions[s].u].there

LEMMA Typed == TypeOK <=> Tables /\ Notes /\ Owned
  BY DEF TypeOK, Tables, Notes, Owned, RequestRow, SessionRow, LastRow, Pc, User0, Session0, Password

LEMMA TypedStep == TypeOK' <=> Tables' /\ Notes' /\ Owned'
  BY DEF TypeOK, Tables, Notes, Owned, RequestRow, SessionRow, LastRow, Pc, User0, Session0, Password

LEMMA Blanks ==
  /\ MaxPasswords \in Nat /\ 0 \in Password /\ 1 \in Password
  /\ Idle \in RequestRow /\ Nobody \in Row /\ Unused \in SessionRow
<1>1. MaxPasswords \in Nat /\ 0 \in Password /\ 1 \in Password
  BY PasswordsAssumption DEF Password
<1>2. Nobody \in Row
  BY <1>1 DEF Nobody, Row, Role, Password
<1>3. Unused \in SessionRow
  BY <1>1 DEF Unused, SessionRow, User0, Session0
<1>4. Idle \in RequestRow
  BY <1>1, <1>2 DEF Idle, RequestRow, Pc, User0, Session0, Role
<1>. QED
  BY <1>1, <1>2, <1>3, <1>4

LEMMA RequestOf ==
  ASSUME TypeOK, NEW r \in Request
  PROVE  /\ req[r] \in RequestRow
         /\ req[r].pc \in Pc /\ req[r].actor \in User0 /\ req[r].u \in User0 /\ req[r].s \in Session0
         /\ req[r].given \in Nat /\ req[r].given \in Password /\ req[r].copy \in Row
         /\ req[r].role \in Role /\ req[r].late \in BOOLEAN /\ req[r].stale \subseteq Field
<1>1. req[r] \in RequestRow
  BY Typed DEF Tables
<1>. QED
  BY <1>1, Blanks DEF RequestRow, Password

LEMMA RowOf ==
  ASSUME TypeOK, NEW u \in User
  PROVE  /\ users[u] \in Row /\ users[u].password \in Password /\ users[u].role \in Role
         /\ last[u].password \in Nat /\ last[u].password \in Password /\ last[u].role \in Role
         /\ last[u] \in LastRow
         /\ revoked[u] \in Nat /\ users[u].password \in Nat
  BY Typed, Blanks DEF Tables, Notes, Row, LastRow, Password

LEMMA SessionOf ==
  ASSUME TypeOK, NEW s \in Session
  PROVE  /\ sessions[s] \in SessionRow
         /\ sessions[s].state \in {"none", "live", "revoked", "gone"} /\ sessions[s].u \in User0
         /\ sessions[s].password \in Nat /\ sessions[s].password \in Password
         /\ sessions[s].parent \in Session0
  BY Typed, Blanks DEF Tables, SessionRow, Password

-----------------------------------------------------------------------------
\* What each step does, said once.

\* What another's step leaves of a request.
Stays(q) ==
  /\ req'[q].pc = req[q].pc /\ req'[q].actor = req[q].actor
  /\ req'[q].u = req[q].u /\ req'[q].s = req[q].s
  /\ req'[q].given = req[q].given /\ req'[q].copy = req[q].copy

LEMMA Moving ==
  ASSUME TypeOK, NEW r \in Request, NEW x \in RequestRow, req' = [req EXCEPT ![r] = x]
  PROVE  /\ req' \in [Request -> RequestRow]
         /\ req'[r] = x
         /\ \A q \in Request \ {r} : req'[q] = req[q]
  BY Typed DEF Tables

LEMMA Ending ==
  ASSUME TypeOK, NEW r \in Request, End(r)
  PROVE  /\ req' \in [Request -> RequestRow]
         /\ req'[r] = Idle /\ req'[r].pc = "idle"
         /\ \A q \in Request \ {r} : req'[q] = req[q]
  BY Moving, Blanks DEF End, Idle

LEMMA LoggingIn ==
  ASSUME TypeOK, NEW r \in Request, NEW u \in Watched, Login(r, u)
  PROVE  /\ u \in User /\ users[u].there /\ At(r, "idle")
         /\ req' \in [Request -> RequestRow]
         /\ req'[r].pc = "issue" /\ req'[r].u = u /\ req'[r].s = NoSession
         /\ req'[r].given = users[u].password
         /\ req'[r].late = (<<u, "password">> \in lost)
         /\ \A q \in Request \ {r} : req'[q] = req[q]
<1>. DEFINE x == [Idle EXCEPT !.pc = "issue", !.u = u, !.given = users[u].password,
                              !.late = <<u, "password">> \in lost]
<1>1. u \in User
  BY WatchedAssumption
<1>2. x \in RequestRow
  <2>. DEFINE b == <<u, "password">> \in lost
  <2>1. b \in BOOLEAN
    OBVIOUS
  <2>. HIDE DEF b
  <2>2. [Idle EXCEPT !.pc = "issue", !.u = u, !.given = users[u].password, !.late = b] \in RequestRow
    BY <1>1, <2>1, Blanks, RowOf DEF RequestRow, Pc, User0
  <2>. QED
    BY <2>2 DEF b
<1>3. x.pc = "issue" /\ x.u = u /\ x.s = NoSession /\ x.given = users[u].password
      /\ x.late = (<<u, "password">> \in lost)
  BY DEF Idle
<1>4. req' = [req EXCEPT ![r] = x]
  BY DEF Login
<1>. HIDE DEF x
<1>. QED
  BY <1>1, <1>2, <1>3, <1>4, Moving DEF Login

LEMMA Starting ==
  ASSUME TypeOK, NEW r \in Request, NEW s \in Session, RefreshTokens(r, s)
  PROVE  /\ At(r, "idle") /\ Live(s) /\ sessions[s].u \in User
         /\ req' \in [Request -> RequestRow]
         /\ req'[r].pc = "rotate" /\ req'[r].u = sessions[s].u /\ req'[r].s = s
         /\ req'[r].given = sessions[s].password
         /\ req'[r].late = (s \in late)
         /\ \A q \in Request \ {r} : req'[q] = req[q]
<1>. DEFINE x == [Idle EXCEPT !.pc = "rotate", !.u = sessions[s].u, !.s = s,
                              !.given = sessions[s].password, !.late = s \in late]
<1>1. Live(s) /\ sessions[s].u \in User
  BY Typed DEF RefreshTokens, Refreshable, Owned
<1>2. x \in RequestRow
  <2>. DEFINE b == s \in late
  <2>1. b \in BOOLEAN
    OBVIOUS
  <2>. HIDE DEF b
  <2>2. [Idle EXCEPT !.pc = "rotate", !.u = sessions[s].u, !.s = s,
                     !.given = sessions[s].password, !.late = b] \in RequestRow
    BY <1>1, <2>1, Blanks, SessionOf DEF RequestRow, Pc, User0, Session0
  <2>. QED
    BY <2>2 DEF b
<1>3. x.pc = "rotate" /\ x.u = sessions[s].u /\ x.s = s /\ x.given = sessions[s].password
      /\ x.late = (s \in late)
  BY DEF Idle
<1>4. req' = [req EXCEPT ![r] = x]
  BY DEF RefreshTokens
<1>. HIDE DEF x
<1>. QED
  BY <1>1, <1>2, <1>3, <1>4, Moving DEF RefreshTokens

\* Only what is live is revoked.
Revokes(s) ==
  /\ sessions'[s].u = sessions[s].u /\ sessions'[s].password = sessions[s].password
  /\ sessions'[s].parent = sessions[s].parent
  /\ sessions'[s].state = sessions[s].state \/ (Live(s) /\ sessions'[s].state = "revoked")

LEMMA Revoking ==
  ASSUME TypeOK, NEW s \in Session, NEW state \in {"none", "live", "revoked", "gone"},
         sessions' = [sessions EXCEPT ![s].state = state],
         state = sessions[s].state \/ (Live(s) /\ state = "revoked")
  PROVE  /\ sessions' \in [Session -> SessionRow]
         /\ sessions'[s].state = state
         /\ \A t \in Session : Revokes(t)
<1>1. [sessions[s] EXCEPT !.state = state] \in SessionRow
  BY SessionOf DEF SessionRow
<1>2. sessions' = [sessions EXCEPT ![s] = [sessions[s] EXCEPT !.state = state]]
  OBVIOUS
<1>3. sessions \in [Session -> SessionRow]
  BY Typed DEF Tables
<1>. QED
  BY <1>1, <1>2, <1>3 DEF Revokes, SessionRow, Live

LEMMA Rotating ==
  ASSUME TypeOK, Begun, NEW r \in Request, RevokeOld(r)
  PROVE  /\ At(r, "rotate") /\ req[r].s \in Session /\ req[r].u \in User
         /\ req' \in [Request -> RequestRow]
         /\ req'[r].pc = "issue" /\ req'[r].u = req[r].u /\ req'[r].s = req[r].s
         /\ req'[r].given = req[r].given /\ req'[r].late = req[r].late
         /\ \A q \in Request \ {r} : req'[q] = req[q]
         /\ sessions' \in [Session -> SessionRow]
         /\ \A t \in Session : Revokes(t)
         /\ \/ raced' = raced /\ sessions'[req[r].s].state # "live"
            \/ raced' = raced \cup {req[r].s}
<1>1. At(r, "rotate") /\ req[r].s \in Session /\ req[r].u \in User
  BY DEF RevokeOld, Begun, BegunAt, At, Refreshers
<1>. DEFINE s == req[r].s
            x == [req[r] EXCEPT !.pc = "issue"]
<1>2. x \in RequestRow /\ x.pc = "issue" /\ x.u = req[r].u /\ x.s = s /\ x.given = req[r].given
      /\ x.late = req[r].late
  BY RequestOf DEF RequestRow, Pc
<1>3. req' = [req EXCEPT ![r] = x]
  BY DEF RevokeOld, Go
<1>4. CASE sessions' = Rotated(s) /\ UNCHANGED raced
  <2>. DEFINE state == IF Live(s) THEN "revoked" ELSE sessions[s].state
  <2>1. state \in {"none", "live", "revoked", "gone"}
    BY <1>1, SessionOf
  <2>2. sessions' = [sessions EXCEPT ![s].state = state]
    BY <1>1, <1>4 DEF Rotated, Live
  <2>3. state = sessions[s].state \/ (Live(s) /\ state = "revoked")
    OBVIOUS
  <2>4. state # "live"
    BY DEF Live
  <2>. HIDE DEF state
  <2>5. sessions' \in [Session -> SessionRow] /\ sessions'[s].state = state /\ \A t \in Session : Revokes(t)
    BY <1>1, <2>1, <2>2, <2>3, Revoking
  <2>. HIDE DEF x
  <2>. QED
    BY <1>1, <1>2, <1>3, <1>4, <2>4, <2>5, Moving
<1>5. CASE raced' = raced \cup {s} /\ UNCHANGED sessions
  <2>1. sessions' \in [Session -> SessionRow] /\ \A t \in Session : Revokes(t)
    BY <1>5, Typed DEF Tables, Revokes
  <2>. HIDE DEF x
  <2>. QED
    BY <1>1, <1>2, <1>3, <1>5, <2>1, Moving
<1>. QED
  BY <1>4, <1>5 DEF RevokeOld

LEMMA Issuing ==
  ASSUME TypeOK, Begun, NEW r \in Request, NEW s \in Session, Issue(r, s)
  PROVE  /\ At(r, "issue") /\ sessions[s].state = "none"
         /\ req[r].u \in User /\ users[req[r].u].there
         /\ req' \in [Request -> RequestRow]
         /\ req'[r].pc = "idle"
         /\ \A q \in Request \ {r} : req'[q] = req[q]
         /\ sessions' \in [Session -> SessionRow]
         /\ sessions'[s].state = "live" /\ sessions'[s].u = req[r].u
         /\ sessions'[s].password = req[r].given /\ sessions'[s].parent = req[r].s
         /\ \A t \in Session \ {s} : sessions'[t] = sessions[t]
<1>. DEFINE x == [state |-> "live", u |-> req[r].u, password |-> req[r].given, parent |-> req[r].s]
<1>1. At(r, "issue") /\ req[r].u \in User
  BY DEF Issue, Begun, BegunAt, At, Refreshers
<1>2. x \in SessionRow
  BY RequestOf DEF SessionRow
<1>3. sessions' = [sessions EXCEPT ![s] = x]
  BY DEF Issue
<1>4. sessions \in [Session -> SessionRow]
  BY Typed DEF Tables
<1>. QED
  BY <1>1, <1>2, <1>3, <1>4, Ending DEF Issue, Issuable

\* The request of an administrator is let in.
LEMMA Asking ==
  ASSUME TypeOK, NEW r \in Request, NEW a \in User, NEW u \in User,
         NEW pc \in {"create", "update", "reset", "delete"}, LetIn(r, a, pc, u)
  PROVE  /\ At(r, "idle") /\ Admin(users[a])
         /\ (pc = "create") = (last[u].password = 0)
         /\ pc = "delete" => a # u
         /\ req' \in [Request -> RequestRow]
         /\ req'[r].pc = pc /\ req'[r].actor = a /\ req'[r].u = u
         /\ \A q \in Request \ {r} : req'[q] = req[q]
<1>. DEFINE x == [Idle EXCEPT !.pc = pc, !.actor = a, !.u = u]
<1>1. x \in RequestRow /\ x.pc = pc /\ x.actor = a /\ x.u = u
  BY Blanks DEF RequestRow, Pc, User0, Idle
<1>2. req' = [req EXCEPT ![r] = x]
  BY DEF LetIn
<1>. HIDE DEF x
<1>. QED
  BY <1>1, <1>2, Moving DEF LetIn, Allowed, Deletable

\* A copy of the row is made.
LEMMA Copying ==
  ASSUME TypeOK, Begun, NEW r \in Request, UpdateReads(r) \/ ResetReads(r)
  PROVE  /\ req[r].pc \in {"update", "reset"}
         /\ req[r].u \in User /\ req[r].actor \in User /\ users[req[r].u].there
         /\ req' \in [Request -> RequestRow]
         /\ req'[r].pc \in {"update write", "reset write"}
         /\ req'[r].u = req[r].u /\ req'[r].actor = req[r].actor
         /\ req'[r].copy = users[req[r].u] /\ req'[r].demoted = req[r].demoted
         /\ req'[r].stale = req[r].stale
         /\ \A q \in Request \ {r} : req'[q] = req[q]
<1>1. req[r].u \in User /\ req[r].actor \in User /\ req[r].pc \in {"update", "reset"}
      /\ users[req[r].u].there
  BY DEF UpdateReads, ResetReads, Begun, BegunAt, Pending, At
<1>2. PICK pc \in {"update write", "reset write"}, role \in Role :
        req' = [req EXCEPT ![r] = [req[r] EXCEPT !.pc = pc, !.copy = users[req[r].u], !.role = role]]
  <2>1. CASE UpdateReads(r)
    BY <2>1 DEF UpdateReads
  <2>2. CASE ResetReads(r)
    <3>. DEFINE role == req[r].role
    <3>1. role \in Role /\ req[r] \in RequestRow
      BY RequestOf
    <3>2. req' = [req EXCEPT ![r] = [req[r] EXCEPT !.pc = "reset write", !.copy = users[req[r].u]]]
      BY <2>2 DEF ResetReads
    <3>3. [req[r] EXCEPT !.pc = "reset write", !.copy = users[req[r].u]]
          = [req[r] EXCEPT !.pc = "reset write", !.copy = users[req[r].u], !.role = role]
      BY <3>1 DEF RequestRow
    <3>. QED
      BY <3>1, <3>2, <3>3
  <2>. QED
    BY <2>1, <2>2
<1>. DEFINE x == [req[r] EXCEPT !.pc = pc, !.copy = users[req[r].u], !.role = role]
<1>3. x \in RequestRow /\ x.pc = pc /\ x.u = req[r].u /\ x.actor = req[r].actor
      /\ x.copy = users[req[r].u] /\ x.demoted = req[r].demoted /\ x.stale = req[r].stale
  BY <1>1, RequestOf, RowOf DEF RequestRow, Pc
<1>. HIDE DEF x
<1>. QED
  BY <1>1, <1>2, <1>3, Moving DEF x

LEMMA Finishing ==
  ASSUME TypeOK, Begun, NEW r \in Request, Pending(r) \/ At(r, "reset revoke")
  PROVE  /\ Done(r) \in RequestRow
         /\ Done(r).pc = "audit" /\ Done(r).actor = req[r].actor /\ req[r].actor \in User
         /\ req[r].u \in User
<1>1. req[r].actor \in User /\ req[r].u \in User
  BY DEF Begun, BegunAt
<1>. QED
  BY <1>1, Blanks DEF Done, Idle, RequestRow, Pc, User0

\* One row of users is written, and the others' requests may miss it.
Concerns(r, u, new, set) ==
  /\ \A q \in Request \ {r} :
       /\ Stays(q) /\ req'[q].late = req[q].late
       /\ req'[q].stale = IF Holds(q) /\ req[q].u = u THEN req[q].stale \cup set ELSE req[q].stale
       /\ req[q].demoted => req'[q].demoted
       /\ Pending(q) /\ req[q].actor = u /\ ~Admin(new) => req'[q].demoted

LEMMA Passing ==
  ASSUME TypeOK, NEW r \in Request, NEW u \in User, NEW new \in Row, NEW set \in SUBSET Field,
         NEW next \in RequestRow,
         req' = [q \in Request |-> IF q = r THEN next ELSE Passed(q, u, new, set)]
  PROVE  /\ req' \in [Request -> RequestRow]
         /\ req'[r] = next
         /\ Concerns(r, u, new, set)
<1>. SUFFICES ASSUME NEW q \in Request \ {r}
              PROVE  /\ req'[q] \in RequestRow
                     /\ Stays(q) /\ req'[q].late = req[q].late
                     /\ req'[q].stale = IF Holds(q) /\ req[q].u = u THEN req[q].stale \cup set ELSE req[q].stale
                     /\ req[q].demoted => req'[q].demoted
                     /\ Pending(q) /\ req[q].actor = u /\ ~Admin(new) => req'[q].demoted
  BY DEF Concerns
<1>1. PICK b : b = (req[q].demoted \/ (Pending(q) /\ req[q].actor = u /\ ~Admin(new)))
  OBVIOUS
<1>2. b \in BOOLEAN
  BY <1>1
<1>3. PICK m : m = IF Holds(q) /\ req[q].u = u THEN req[q].stale \cup set ELSE req[q].stale
  OBVIOUS
<1>4. m \in SUBSET Field
  BY <1>3, RequestOf
<1>5. req'[q] = [req[q] EXCEPT !.stale = m, !.demoted = b]
  BY <1>1, <1>3 DEF Passed
<1>6. req[q] \in RequestRow
  BY RequestOf
<1>7. req'[q] \in RequestRow /\ Stays(q) /\ req'[q].late = req[q].late /\ req'[q].stale = m
      /\ req'[q].demoted = b
  BY <1>2, <1>4, <1>5, <1>6 DEF RequestRow, Stays
<1>. QED
  BY <1>1, <1>3, <1>7

LEMMA WritingUser ==
  ASSUME TypeOK, NEW r \in Request, NEW u \in User, NEW new \in Row, NEW set \in SUBSET Field,
         NEW next \in RequestRow, UpdateUser(r, u, new, set, next)
  PROVE  /\ users[u].there
         /\ users' \in [User -> Row] /\ users'[u] = new
         /\ \A w \in User \ {u} : users'[w] = users[w] /\ last'[w] = last[w]
         /\ req' \in [Request -> RequestRow] /\ req'[r] = next /\ Concerns(r, u, new, set)
         /\ last' \in [User -> LastRow]
         /\ last'[u].password = IF "password" \in set THEN new.password ELSE last[u].password
         /\ last'[u].role = IF "role" \in set THEN new.role ELSE last[u].role
         /\ lost' \subseteq User \X Field
         /\ \A w \in User, f \in Field :
              <<w, f>> \in lost' <=> /\ <<w, f>> \in lost \/ (w = u /\ f \in req[r].stale)
                                     /\ ~(w = u /\ f \in set)
<1>1. users[u].there /\ users' \in [User -> Row] /\ users'[u] = new
      /\ \A w \in User \ {u} : users'[w] = users[w]
  BY Typed DEF UpdateUser, Tables
<1>2. req' \in [Request -> RequestRow] /\ req'[r] = next /\ Concerns(r, u, new, set)
  BY Passing DEF UpdateUser
<1>. DEFINE x == [password |-> IF "password" \in set THEN new.password ELSE last[u].password,
                  role |-> IF "role" \in set THEN new.role ELSE last[u].role]
<1>3. x \in LastRow
  BY RowOf DEF LastRow, Row, Password
<1>4. last' = [last EXCEPT ![u] = x]
  BY DEF UpdateUser
<1>5. last' \in [User -> LastRow] /\ last'[u] = x /\ \A w \in User \ {u} : last'[w] = last[w]
  <2>. HIDE DEF x
  <2>. QED
    BY <1>3, <1>4, Typed DEF Tables
<1>6. req[r].stale \subseteq Field /\ lost \subseteq User \X Field
  BY RequestOf, Typed DEF Notes
<1>7. lost' = (lost \cup {<<u, f>> : f \in req[r].stale}) \ {<<u, f>> : f \in set}
  BY DEF UpdateUser
<1>8. lost' \subseteq User \X Field
  BY <1>6, <1>7
<1>9. \A w \in User, f \in Field :
        <<w, f>> \in lost' <=> /\ <<w, f>> \in lost \/ (w = u /\ f \in req[r].stale)
                               /\ ~(w = u /\ f \in set)
  BY <1>7
<1>. QED
  BY <1>1, <1>2, <1>5, <1>8, <1>9

\* The two writes of a copy: what they set, and where the request goes.
Rewrites(r, new, set, next) ==
  /\ UpdateUser(r, req[r].u, new, set, next)
  /\ new.there
  /\ next.pc \in {"audit", "reset revoke"} /\ next.actor = req[r].actor
  /\ next.pc = "reset revoke" =>
       "password" \in set /\ next.u = req[r].u /\ next.given = new.password
  /\ new.password = IF "password" \in set THEN last[req[r].u].password + 1 ELSE req[r].copy.password
  /\ "role" \notin set => new.role = req[r].copy.role

LEMMA Rewriting ==
  ASSUME TypeOK, Begun, NEW r \in Request, UpdateWrites(r) \/ ResetWrites(r)
  PROVE  /\ Holds(r) /\ req[r].u \in User /\ req[r].actor \in User
         /\ \E new \in Row, set \in SUBSET Field, next \in RequestRow : Rewrites(r, new, set, next)
<1>1. Holds(r) /\ req[r].u \in User /\ req[r].actor \in User /\ req[r].copy.there
  BY DEF UpdateWrites, ResetWrites, Begun, BegunAt, Holds, Pending, At
<1>. DEFINE q == req[r]
<1>2. q.copy \in Row /\ q.role \in Role
  BY RequestOf
<1>3. Done(r) \in RequestRow /\ Done(r).pc = "audit" /\ Done(r).actor = q.actor
  BY <1>1, Finishing DEF Holds, Pending
<1>4. CASE UpdateWrites(r)
  <2>. DEFINE new == [q.copy EXCEPT !.role = q.role]
              set == IF q.role = q.copy.role THEN {} ELSE {"role"}
  <2>1. new \in Row /\ new.there /\ new.password = q.copy.password /\ new.role = q.role
    BY <1>1, <1>2 DEF Row
  <2>2. set \in SUBSET Field /\ "password" \notin set /\ ("role" \notin set => q.role = q.copy.role)
    BY DEF Field
  <2>3. UpdateUser(r, q.u, new, set, Done(r))
    BY <1>4 DEF UpdateWrites, Updated
  <2>. HIDE DEF new, set
  <2>4. Rewrites(r, new, set, Done(r))
    BY <1>3, <2>1, <2>2, <2>3 DEF Rewrites
  <2>. QED
    BY <1>1, <1>3, <2>1, <2>2, <2>4
<1>5. CASE ResetWrites(r)
  <2>. DEFINE n == last[q.u].password + 1
              new == [q.copy EXCEPT !.password = n]
              next == [Done(r) EXCEPT !.pc = "reset revoke", !.u = q.u, !.given = n]
  <2>1. n \in Password
    <3>1. n <= MaxPasswords
      BY <1>5 DEF ResetWrites
    <3>2. last[q.u].password \in Nat
      BY <1>1, RowOf
    <3>. QED
      BY <3>1, <3>2, Blanks DEF Password
  <2>2. UpdateUser(r, q.u, new, {"password"}, next)
    BY <1>5 DEF ResetWrites
  <2>3. new \in Row /\ new.there /\ new.password = n /\ new.role = q.copy.role
    BY <1>1, <1>2, <2>1 DEF Row, Password
  <2>4. next \in RequestRow /\ next.pc = "reset revoke" /\ next.actor = q.actor /\ next.u = q.u
        /\ next.given = n
    BY <1>1, <1>3, <2>1 DEF RequestRow, Pc, User0
  <2>5. {"password"} \in SUBSET Field
    BY DEF Field
  <2>. HIDE DEF new, next
  <2>6. Rewrites(r, new, {"password"}, next)
    BY <2>2, <2>3, <2>4 DEF Rewrites
  <2>. QED
    BY <1>1, <2>3, <2>4, <2>5, <2>6
<1>. QED
  BY <1>4, <1>5

\* ... and what becomes of the tables.
Rewritten(r, new, set, next) ==
  /\ users[req[r].u].there
  /\ users'[req[r].u] = new
  /\ \A w \in User \ {req[r].u} : users'[w] = users[w] /\ last'[w] = last[w]
  /\ req'[r] = next /\ Concerns(r, req[r].u, new, set)
  /\ last'[req[r].u].password = IF "password" \in set THEN new.password ELSE last[req[r].u].password
  /\ last'[req[r].u].role = IF "role" \in set THEN new.role ELSE last[req[r].u].role
  /\ \A w \in User, f \in Field :
       <<w, f>> \in lost' <=> /\ <<w, f>> \in lost \/ (w = req[r].u /\ f \in req[r].stale)
                              /\ ~(w = req[r].u /\ f \in set)

LEMMA RewritingAll ==
  ASSUME TypeOK, Begun, NEW r \in Request, UpdateWrites(r) \/ ResetWrites(r)
  PROVE  /\ Holds(r) /\ req[r].u \in User /\ req[r].actor \in User
         /\ \E new \in Row, set \in SUBSET Field, next \in RequestRow :
              Rewrites(r, new, set, next) /\ Rewritten(r, new, set, next)
<1>1. Holds(r) /\ req[r].u \in User /\ req[r].actor \in User
  BY Rewriting
<1>2. PICK new \in Row, set \in SUBSET Field, next \in RequestRow : Rewrites(r, new, set, next)
  BY Rewriting
<1>3. ASSUME NEW u \in User, u = req[r].u PROVE Rewritten(r, new, set, next)
  <2>1. UpdateUser(r, u, new, set, next)
    BY <1>2, <1>3 DEF Rewrites
  <2>2. /\ users[u].there /\ users'[u] = new
        /\ \A w \in User \ {u} : users'[w] = users[w] /\ last'[w] = last[w]
        /\ req'[r] = next /\ Concerns(r, u, new, set)
        /\ last'[u].password = IF "password" \in set THEN new.password ELSE last[u].password
        /\ last'[u].role = IF "role" \in set THEN new.role ELSE last[u].role
    BY <2>1, WritingUser
  <2>3. \A w \in User, f \in Field :
          <<w, f>> \in lost' <=> /\ <<w, f>> \in lost \/ (w = u /\ f \in req[r].stale)
                                 /\ ~(w = u /\ f \in set)
    <3>1. lost' = (lost \cup {<<u, f>> : f \in req[r].stale}) \ {<<u, f>> : f \in set}
      BY <2>1 DEF UpdateUser
    <3>. QED
      BY <3>1
  <2>. QED
    BY <1>3, <2>2, <2>3 DEF Rewritten
<1>. QED
  BY <1>1, <1>2, <1>3

\* An account is made.
LEMMA Adding ==
  ASSUME TypeOK, NEW u \in User, NEW role \in Role, Add(u, role)
  PROVE  /\ users' \in [User -> Row] /\ last' \in [User -> LastRow]
         /\ users'[u].there /\ users'[u].password = 1 /\ users'[u].role = role
         /\ last'[u].password = 1 /\ last'[u].role = role
         /\ \A w \in User \ {u} : users'[w] = users[w] /\ last'[w] = last[w]
<1>. DEFINE x == [there |-> TRUE, password |-> 1, role |-> role]
            y == [password |-> 1, role |-> role]
<1>1. x \in Row /\ y \in LastRow
  BY Blanks DEF Row, LastRow, Password
<1>2. users' = [users EXCEPT ![u] = x] /\ last' = [last EXCEPT ![u] = y]
  BY DEF Add
<1>3. users \in [User -> Row] /\ last \in [User -> LastRow]
  BY Typed DEF Tables
<1>. QED
  BY <1>1, <1>2, <1>3

LEMMA Creating ==
  ASSUME TypeOK, Begun, NEW r \in Request, NEW role \in Role, CreateUser(r, role)
  PROVE  /\ At(r, "create") /\ req[r].u \in User /\ req[r].actor \in User
         /\ last[req[r].u].password = 0
         /\ Add(req[r].u, role)
         /\ req' \in [Request -> RequestRow]
         /\ req'[r].pc = "audit" /\ req'[r].actor = req[r].actor
         /\ \A q \in Request \ {r} : req'[q] = req[q]
<1>1. At(r, "create") /\ Pending(r)
  BY DEF CreateUser, At, Pending
<1>. QED
  BY <1>1, Finishing, Moving DEF CreateUser

LEMMA Seeding ==
  ASSUME TypeOK, NEW u \in User, SeedAdminUser(u)
  PROVE  /\ \A w \in User : ~users[w].there
         /\ last[u].password = 0
         /\ Add(u, "admin") /\ "admin" \in Role
         /\ req' \in [Request -> RequestRow]
         /\ \A r \in Request : req'[r].pc = "idle"
  BY Blanks DEF SeedAdminUser, Role, Idle

LEMMA RevokingAll ==
  ASSUME TypeOK, Begun, NEW r \in Request, RevokeAll(r)
  PROVE  /\ At(r, "reset revoke") /\ req[r].u \in User /\ req[r].given \in Nat
         /\ sessions' \in [Session -> SessionRow]
         /\ \A t \in Session : Revokes(t)
         /\ \A t \in Session : sessions[t].u = req[r].u => sessions'[t].state # "live"
         /\ req' \in [Request -> RequestRow]
         /\ req'[r].pc = "audit" /\ req'[r].actor = req[r].actor /\ req[r].actor \in User
         /\ \A q \in Request \ {r} :
              /\ Stays(q) /\ req'[q].demoted = req[q].demoted /\ req'[q].stale = req[q].stale
              /\ req'[q].late <=> req[q].late \/ GivenBefore(q, req[r].u, req[r].given)
         /\ revoked' \in [User -> Password]
         /\ revoked'[req[r].u] = IF revoked[req[r].u] < req[r].given THEN req[r].given ELSE revoked[req[r].u]
         /\ \A w \in User \ {req[r].u} : revoked'[w] = revoked[w]
<1>. DEFINE u == req[r].u
            n == req[r].given
<1>1. At(r, "reset revoke")
  BY DEF RevokeAll
<1>2. u \in User /\ req[r].actor \in User /\ Done(r) \in RequestRow /\ Done(r).pc = "audit"
      /\ Done(r).actor = req[r].actor
  BY <1>1, Finishing
<1>3. n \in Nat /\ n \in Password
  BY RequestOf
<1>4. sessions' = [s \in Session |->
        IF sessions[s].u = u /\ Live(s) THEN [sessions[s] EXCEPT !.state = "revoked"] ELSE sessions[s]]
  BY DEF RevokeAll
<1>5. \A t \in Session :
        /\ sessions'[t] \in SessionRow
        /\ Revokes(t)
        /\ sessions[t].u = u => sessions'[t].state # "live"
  <2>. TAKE t \in Session
  <2>1. sessions[t] \in SessionRow
    BY SessionOf
  <2>2. sessions'[t] = IF sessions[t].u = u /\ Live(t) THEN [sessions[t] EXCEPT !.state = "revoked"]
                       ELSE sessions[t]
    BY <1>4
  <2>. HIDE DEF u
  <2>. QED
    BY <2>1, <2>2 DEF SessionRow, Revokes, Live
<1>6. sessions' \in [Session -> SessionRow]
  BY <1>4, <1>5
<1>7. req' = [q \in Request |-> IF q = r THEN Done(r)
                               ELSE [req[q] EXCEPT !.late = @ \/ GivenBefore(q, u, n)]]
  BY DEF RevokeAll
<1>8. ASSUME NEW q \in Request \ {r}
      PROVE  /\ req'[q] \in RequestRow
             /\ Stays(q) /\ req'[q].demoted = req[q].demoted /\ req'[q].stale = req[q].stale
             /\ req'[q].late <=> req[q].late \/ GivenBefore(q, u, n)
  <2>1. PICK b : b = (req[q].late \/ GivenBefore(q, u, n))
    OBVIOUS
  <2>2. b \in BOOLEAN
    BY <2>1
  <2>3. req'[q] = [req[q] EXCEPT !.late = b]
    BY <1>7, <2>1
  <2>4. req[q] \in RequestRow
    BY RequestOf
  <2>5. req'[q] \in RequestRow /\ Stays(q) /\ req'[q].demoted = req[q].demoted
        /\ req'[q].stale = req[q].stale /\ req'[q].late = b
    BY <2>2, <2>3, <2>4 DEF RequestRow, Stays
  <2>. QED
    BY <2>1, <2>5
<1>9. req'[r] = Done(r) /\ req' \in [Request -> RequestRow]
  BY <1>2, <1>7, <1>8
<1>10. revoked' = [revoked EXCEPT ![u] = IF @ < n THEN n ELSE @] /\ revoked \in [User -> Password]
  BY Typed DEF RevokeAll, Notes
<1>11. /\ revoked' \in [User -> Password]
       /\ revoked'[u] = IF revoked[u] < n THEN n ELSE revoked[u]
       /\ \A w \in User \ {u} : revoked'[w] = revoked[w]
  BY <1>2, <1>3, <1>10
<1>. QED
  BY <1>1, <1>2, <1>3, <1>5, <1>6, <1>8, <1>9, <1>11

LEMMA Deleting ==
  ASSUME TypeOK, Begun, NEW r \in Request, DeleteUser(r)
  PROVE  /\ At(r, "delete") /\ req[r].u \in User /\ req[r].actor \in User /\ req[r].actor # req[r].u
         /\ users[req[r].u].there
         /\ users' \in [User -> Row] /\ users'[req[r].u] = Nobody
         /\ \A w \in User \ {req[r].u} : users'[w] = users[w]
         /\ sessions' \in [Session -> SessionRow]
         /\ \A t \in Session : IF sessions[t].u = req[r].u
              THEN sessions'[t].state = "gone" /\ sessions'[t].parent = NoSession /\ t \notin late'
              ELSE sessions'[t] = sessions[t] /\ (t \in late' <=> t \in late)
                   /\ (t \in raced' <=> t \in raced)
         /\ req' \in [Request -> RequestRow]
         /\ req'[r].pc = "audit" /\ req'[r].actor = req[r].actor
         /\ Concerns(r, req[r].u, Nobody, {})
<1>. DEFINE u == req[r].u
<1>1. At(r, "delete") /\ users[u].there
  BY DEF DeleteUser
<1>2. u \in User /\ req[r].actor \in User /\ Done(r) \in RequestRow /\ Done(r).pc = "audit"
      /\ Done(r).actor = req[r].actor /\ req[r].actor # u
  BY <1>1, Finishing DEF Pending, At, Begun, BegunAt
<1>3. users' = [users EXCEPT ![u] = Nobody] /\ users \in [User -> Row]
  BY Typed DEF DeleteUser, Tables
<1>4. sessions' = [s \in Session |->
        IF sessions[s].u = u THEN [Unused EXCEPT !.state = "gone"] ELSE sessions[s]]
  BY DEF DeleteUser
<1>5. [Unused EXCEPT !.state = "gone"] \in SessionRow
  BY Blanks DEF SessionRow
<1>6. [Unused EXCEPT !.state = "gone"].state = "gone" /\ [Unused EXCEPT !.state = "gone"].parent = NoSession
  BY DEF Unused
<1>7. sessions' \in [Session -> SessionRow]
  BY <1>4, <1>5, SessionOf
<1>8. late' = {s \in late : sessions[s].u # u} /\ raced' = {s \in raced : sessions[s].u # u}
  BY DEF DeleteUser
<1>9. req' \in [Request -> RequestRow] /\ req'[r] = Done(r) /\ Concerns(r, u, Nobody, {})
  BY <1>2, Blanks, Passing DEF DeleteUser
<1>. QED
  BY <1>1, <1>2, <1>3, <1>4, <1>6, <1>7, <1>8, <1>9, Blanks

-----------------------------------------------------------------------------
\* Types.

LEMMA Owning ==
  ASSUME TypeOK,
         \A s \in Session : sessions'[s].state = "live" =>
           sessions[s].state = "live" /\ sessions'[s].u = sessions[s].u,
         \A w \in User : users[w].there => users'[w].there
  PROVE  Owned'
<1>1. Owned
  BY Typed
<1>. QED
  BY <1>1 DEF Owned, Live

LEMMA RevokingOwned ==
  ASSUME TypeOK, \A s \in Session : Revokes(s), users' = users
  PROVE  Owned'
<1>1. ASSUME NEW s \in Session, sessions'[s].state = "live"
      PROVE  sessions[s].state = "live" /\ sessions'[s].u = sessions[s].u
  BY <1>1 DEF Revokes, Live
<1>. QED
  BY <1>1, Owning

LEMMA TypesByRequest ==
  ASSUME TypeOK, Begun, NEW r \in Request,
         \/ \E u \in Watched : Login(r, u)
         \/ \E s \in Session : RefreshTokens(r, s)
         \/ \E a, u \in User, pc \in {"create", "update", "reset", "delete"} : LetIn(r, a, pc, u)
         \/ Audit(r) \/ Abandon(r)
  PROVE  TypeOK'
<1>1. req' \in [Request -> RequestRow]
  BY LoggingIn, Starting, Asking, Ending DEF Audit, Abandon
<1>2. Owned'
  BY Owning DEF Login, RefreshTokens, LetIn, Audit, Abandon, history
<1>3. Tables'
  BY <1>1, Typed DEF Tables, Login, RefreshTokens, LetIn, Audit, Abandon, history
<1>4. ASSUME NEW u \in Watched, Login(r, u) PROVE Notes'
  BY <1>4, Typed DEF Notes, Login, history
<1>5. ASSUME NEW s \in Session, RefreshTokens(r, s) PROVE Notes'
  <2>1. raced' \subseteq Session
    BY <1>5, Typed DEF Notes, RefreshTokens
  <2>. QED
    BY <1>5, <2>1, Typed DEF Notes, RefreshTokens
<1>6. ASSUME NEW a \in User, NEW u \in User, NEW pc \in {"create", "update", "reset", "delete"},
             LetIn(r, a, pc, u)
      PROVE  Notes'
  <2>1. changes' \in 0..MaxChanges
    <3>1. changes \in 0..MaxChanges /\ MaxChanges \in Nat
      BY Typed, PasswordsAssumption DEF Notes
    <3>2. changes < MaxChanges /\ changes' = changes + 1
      BY <1>6 DEF LetIn
    <3>. QED
      BY <3>1, <3>2
  <2>. QED
    BY <1>6, <2>1, Typed DEF Notes, LetIn
<1>7. ASSUME Audit(r) PROVE Notes'
  <2>1. req[r].actor \in User
    BY <1>7 DEF Audit, Begun, BegunAt
  <2>2. audited' \subseteq User
    BY <1>7, <2>1, Typed DEF Notes, Audit
  <2>. QED
    BY <1>7, <2>2, Typed DEF Notes, Audit, history
<1>8. ASSUME Abandon(r) PROVE Notes'
  BY <1>8, Typed DEF Notes, Abandon, history
<1>. QED
  BY <1>2, <1>3, <1>4, <1>5, <1>6, <1>7, <1>8, TypedStep

LEMMA TypesBySession ==
  ASSUME TypeOK, Begun,
         \/ \E r \in Request : RevokeOld(r) \/ RevokeAll(r)
         \/ \E s \in Session : EndSession(s)
  PROVE  TypeOK'
<1>1. ASSUME NEW r \in Request, RevokeOld(r) PROVE TypeOK'
  <2>1. raced' \subseteq Session
    BY <1>1, Rotating, Typed DEF Notes
  <2>2. Owned'
    BY <1>1, Rotating, RevokingOwned DEF RevokeOld
  <2>. QED
    BY <1>1, <2>1, <2>2, Rotating, Typed, TypedStep DEF Tables, Notes, RevokeOld
<1>2. ASSUME NEW r \in Request, RevokeAll(r) PROVE TypeOK'
  <2>2. Owned'
    BY <1>2, RevokingAll, RevokingOwned DEF RevokeAll
  <2>. QED
    BY <1>2, <2>2, RevokingAll, Typed, TypedStep DEF Tables, Notes, RevokeAll
<1>3. ASSUME NEW s \in Session, EndSession(s) PROVE TypeOK'
  <2>1. sessions' \in [Session -> SessionRow] /\ \A t \in Session : Revokes(t)
    BY <1>3, Revoking DEF EndSession
  <2>2. Owned'
    BY <1>3, <2>1, RevokingOwned DEF EndSession
  <2>. QED
    BY <1>3, <2>1, <2>2, Typed, TypedStep DEF Tables, Notes, EndSession, history
<1>. QED
  BY <1>1, <1>2, <1>3

LEMMA TypesByIssue ==
  ASSUME TypeOK, Begun, NEW r \in Request, NEW s \in Session, Issue(r, s)
  PROVE  TypeOK'
<1>1. late' \subseteq Session
  BY Typed DEF Notes, Issue
<1>2. Owned'
  <2>1. Owned
    BY Typed
  <2>. QED
    BY <2>1, Issuing DEF Owned, Live, Issue
<1>. QED
  BY <1>1, <1>2, Issuing, Typed, TypedStep DEF Tables, Notes, Issue

LEMMA TypesByUser ==
  ASSUME TypeOK, Begun,
         \/ \E r \in Request :
              \/ UpdateReads(r) \/ ResetReads(r)
              \/ UpdateWrites(r) \/ ResetWrites(r) \/ DeleteUser(r)
              \/ \E role \in Role : CreateUser(r, role)
         \/ \E u \in User : SeedAdminUser(u)
  PROVE  TypeOK'
<1>1. ASSUME NEW r \in Request, UpdateReads(r) \/ ResetReads(r) PROVE TypeOK'
  <2>1. UNCHANGED <<users, sessions, audited, last, revoked, lost, late, raced, orphaned, changes>>
    BY <1>1 DEF UpdateReads, ResetReads, history
  <2>2. Owned'
    BY <2>1, Owning
  <2>. QED
    BY <1>1, <2>1, <2>2, Copying, Typed, TypedStep DEF Tables, Notes
<1>2. ASSUME NEW r \in Request, UpdateWrites(r) \/ ResetWrites(r) PROVE TypeOK'
  <2>1. PICK new \in Row, set \in SUBSET Field, next \in RequestRow : Rewrites(r, new, set, next)
    BY <1>2, Rewriting
  <2>2. req[r].u \in User /\ UpdateUser(r, req[r].u, new, set, next) /\ new.there
    BY <1>2, <2>1, Rewriting DEF Rewrites
  <2>3. UNCHANGED <<sessions, audited, revoked, late, raced, orphaned, changes>>
    BY <1>2 DEF UpdateWrites, ResetWrites
  <2>4. \A w \in User : users[w].there => users'[w].there
    <3>1. users' = [users EXCEPT ![req[r].u] = new] /\ users \in [User -> Row]
      BY <2>2, Typed DEF UpdateUser, Tables
    <3>. QED
      BY <2>2, <3>1
  <2>5. Owned'
    BY <2>3, <2>4, Owning
  <2>. QED
    BY <2>2, <2>3, <2>5, WritingUser, Typed, TypedStep DEF Tables, Notes
<1>3. ASSUME NEW r \in Request, NEW role \in Role, CreateUser(r, role) PROVE TypeOK'
  <2>1. req[r].u \in User /\ Add(req[r].u, role) /\ req' \in [Request -> RequestRow]
    BY <1>3, Creating
  <2>2. \A w \in User : users[w].there => users'[w].there
    BY <2>1, Adding
  <2>3. UNCHANGED <<sessions, audited, revoked, lost, late, raced, orphaned, changes>>
    BY <1>3 DEF CreateUser
  <2>4. Owned'
    BY <2>2, <2>3, Owning
  <2>. QED
    BY <2>1, <2>3, <2>4, Adding, Typed, TypedStep DEF Tables, Notes
<1>4. ASSUME NEW u \in User, SeedAdminUser(u) PROVE TypeOK'
  <2>1. Add(u, "admin") /\ "admin" \in Role /\ req' \in [Request -> RequestRow]
    BY <1>4, Seeding
  <2>2. \A w \in User : users[w].there => users'[w].there
    BY <2>1, Adding
  <2>3. UNCHANGED <<sessions, audited, revoked, lost, late, raced, changes>> /\ orphaned' = FALSE
    BY <1>4 DEF SeedAdminUser
  <2>4. Owned'
    BY <2>2, <2>3, Owning
  <2>. QED
    BY <2>1, <2>3, <2>4, Adding, Typed, TypedStep DEF Tables, Notes
<1>5. ASSUME NEW r \in Request, DeleteUser(r) PROVE TypeOK'
  <2>1. /\ late' \subseteq Session /\ raced' \subseteq Session /\ orphaned' \in BOOLEAN
        /\ audited' = audited /\ last' = last /\ revoked' = revoked /\ lost' = lost /\ changes' = changes
    BY <1>5, Typed DEF Notes, DeleteUser
  <2>2. Owned'
    <3>1. Owned
      BY Typed
    <3>2. SUFFICES ASSUME NEW t \in Session, sessions'[t].state = "live"
                   PROVE  sessions'[t].u \in User /\ users'[sessions'[t].u].there
      BY DEF Owned, Live
    <3>3. sessions[t].u # req[r].u /\ sessions'[t] = sessions[t]
      BY <1>5, <3>2, Deleting
    <3>. QED
      BY <1>5, <3>1, <3>2, <3>3, Deleting DEF Owned, Live
  <2>. QED
    BY <1>5, <2>1, <2>2, Deleting, Typed, TypedStep DEF Tables, Notes
<1>. QED
  BY <1>1, <1>2, <1>3, <1>4, <1>5

LEMMA TypesKept ==
  ASSUME TypeOK, Begun, [Next]_vars
  PROVE  TypeOK'
<1>1. CASE Next
  BY <1>1, TypesByRequest, TypesBySession, TypesByIssue, TypesByUser DEF Next
<1>2. CASE UNCHANGED vars
  BY <1>2 DEF vars, history, TypeOK, Live
<1>. QED
  BY <1>1, <1>2

-----------------------------------------------------------------------------
\* Accounts, and what requests at work know of them.

\* How the row of an account changes.
RowStep(u) ==
  \/ users'[u] = users[u] /\ last'[u] = last[u]
  \/ /\ users[u].there /\ users'[u].there
     /\ last'[u].password \in {last[u].password, last[u].password + 1}
  \/ ~users[u].there /\ last[u].password = 0 /\ users'[u].there /\ last'[u].password = 1
  \/ users[u].there /\ ~users'[u].there /\ last'[u] = last[u]

\* The steps that leave the rows of users alone.
Elsewhere ==
  \/ \E r \in Request :
       \/ \E u \in Watched : Login(r, u)
       \/ \E s \in Session : RefreshTokens(r, s) \/ Issue(r, s)
       \/ RevokeOld(r) \/ RevokeAll(r)
       \/ \E a, u \in User, pc \in {"create", "update", "reset", "delete"} : LetIn(r, a, pc, u)
       \/ UpdateReads(r) \/ ResetReads(r) \/ Audit(r) \/ Abandon(r)
  \/ \E s \in Session : EndSession(s)
  \/ UNCHANGED vars

Writers ==
  \/ \E r \in Request : UpdateWrites(r) \/ ResetWrites(r) \/ DeleteUser(r)
                        \/ \E role \in Role : CreateUser(r, role)
  \/ \E u \in User : SeedAdminUser(u)

LEMMA Kinds ==
  ASSUME [Next]_vars
  PROVE  Elsewhere \/ Writers
  BY DEF Next, Elsewhere, Writers

LEMMA ElsewhereRows ==
  ASSUME Elsewhere
  PROVE  users' = users /\ last' = last /\ lost' = lost
  BY DEF Elsewhere, Login, RefreshTokens, Issue, RevokeOld, RevokeAll, LetIn, UpdateReads,
         ResetReads, Audit, Abandon, EndSession, vars, history

LEMMA RowSteps ==
  ASSUME TypeOK, Begun, Known, [Next]_vars, NEW u \in User
  PROVE  RowStep(u)
<1>1. CASE Elsewhere
  BY <1>1, ElsewhereRows DEF RowStep
<1>2. ASSUME NEW r \in Request, UpdateWrites(r) \/ ResetWrites(r) PROVE RowStep(u)
  <2>1. PICK new \in Row, set \in SUBSET Field, next \in RequestRow : Rewrites(r, new, set, next)
    BY <1>2, Rewriting
  <2>2. req[r].u \in User /\ UpdateUser(r, req[r].u, new, set, next)
    BY <1>2, <2>1, Rewriting DEF Rewrites
  <2>3. /\ users[req[r].u].there
        /\ users'[req[r].u] = new
        /\ \A w \in User \ {req[r].u} : users'[w] = users[w] /\ last'[w] = last[w]
        /\ last'[req[r].u].password = IF "password" \in set THEN new.password ELSE last[req[r].u].password
    BY <2>2, WritingUser
  <2>. QED
    BY <2>1, <2>2, <2>3 DEF Rewrites, RowStep
<1>3. ASSUME NEW w \in User, NEW role \in Role, Add(w, role), last[w].password = 0 PROVE RowStep(u)
  <2>1. ~users[w].there
    BY <1>3 DEF Known
  <2>. QED
    BY <1>3, <2>1, Adding DEF RowStep
<1>4. ASSUME NEW r \in Request, DeleteUser(r) PROVE RowStep(u)
  <2>1. last' = last
    BY <1>4 DEF DeleteUser
  <2>. QED
    BY <1>4, <2>1, Deleting DEF RowStep, Nobody
<1>5. ASSUME NEW r \in Request, NEW role \in Role, CreateUser(r, role) PROVE RowStep(u)
  BY <1>3, <1>5, Creating
<1>6. ASSUME NEW w \in User, SeedAdminUser(w) PROVE RowStep(u)
  BY <1>3, <1>6, Seeding
<1>. QED
  BY <1>1, <1>2, <1>4, <1>5, <1>6, Kinds DEF Writers

LEMMA Ever ==
  ASSUME TypeOK, Begun, Known, [Next]_vars, NEW u \in User
  PROVE  /\ last'[u].password \in Nat /\ last[u].password <= last'[u].password
         /\ last[u].password # 0 => last'[u].password # 0
         /\ Away(u) => ~users'[u].there /\ last'[u].password # 0
         /\ users'[u].there => last'[u].password # 0
<1>1. RowStep(u)
  BY RowSteps
<1>2. last[u].password \in Nat
  BY RowOf
<1>3. users[u].there => last[u].password # 0
  BY DEF Known
<1>. QED
  BY <1>1, <1>2, <1>3 DEF RowStep, Away

LEMMA KnownKept ==
  ASSUME TypeOK, Begun, Known, [Next]_vars
  PROVE  Known'
  BY Ever DEF Known

\* A request that another's step leaves where it is, or that ends.
LEMMA OthersBegun ==
  ASSUME TypeOK, Begun, Known, [Next]_vars, NEW q \in Request,
         Stays(q) \/ req'[q].pc = "idle"
  PROVE  BegunAt(q)'
<1>1. CASE Stays(q)
  <2>1. BegunAt(q)
    BY DEF Begun
  <2>2. req[q].pc \in Changers => last'[req[q].u].password # 0
    <3>1. req[q].pc \in Changers => Pending(q)
      BY DEF Changers, Pending
    <3>. QED
      BY <2>1, <3>1, Ever DEF BegunAt
  <2>3. BegunAt(q)' <=>
          /\ req[q].pc \in Refreshers => req[q].u \in User
          /\ At(q, "rotate") => req[q].s \in Session
          /\ Pending(q) \/ At(q, "reset revoke") => req[q].actor \in User /\ req[q].u \in User
          /\ At(q, "audit") => req[q].actor \in User
          /\ req[q].pc \in Changers => last'[req[q].u].password # 0
          /\ Holds(q) => req[q].copy.there
          /\ At(q, "delete") => req[q].actor # req[q].u
    BY <1>1 DEF Stays, BegunAt, At, Pending, Holds
  <2>. QED
    BY <2>1, <2>2, <2>3 DEF BegunAt
<1>2. CASE req'[q].pc = "idle"
  BY <1>2 DEF BegunAt, At, Pending, Holds, Refreshers, Changers
<1>. QED
  BY <1>1, <1>2

LEMMA SameStays ==
  ASSUME NEW q \in Request, req'[q] = req[q]
  PROVE  Stays(q)
  BY DEF Stays

\* A step of r's.
Acts(r) ==
  \/ \E u \in Watched : Login(r, u)
  \/ \E s \in Session : RefreshTokens(r, s) \/ Issue(r, s)
  \/ RevokeOld(r)
  \/ \E a, u \in User, pc \in {"create", "update", "reset", "delete"} : LetIn(r, a, pc, u)
  \/ \E role \in Role : CreateUser(r, role)
  \/ UpdateReads(r) \/ UpdateWrites(r) \/ ResetReads(r) \/ ResetWrites(r) \/ RevokeAll(r)
  \/ DeleteUser(r) \/ Audit(r) \/ Abandon(r)

\* What it leaves of the others, and that r has what it needs for the next.
LEMMA ActsBegun ==
  ASSUME TypeOK, Begun, Known, NEW r \in Request, Acts(r)
  PROVE  (\A q \in Request \ {r} : Stays(q)) /\ BegunAt(r)'
<1>. DEFINE Done0 == (\A q \in Request \ {r} : Stays(q)) /\ BegunAt(r)'
<1>1. ASSUME NEW u \in Watched, Login(r, u) PROVE Done0
  BY <1>1, LoggingIn, SameStays DEF BegunAt, At, Pending, Holds, Refreshers, Changers
<1>2. ASSUME NEW s \in Session, RefreshTokens(r, s) PROVE Done0
  BY <1>2, Starting, SameStays DEF BegunAt, At, Pending, Holds, Refreshers, Changers
<1>3. ASSUME req'[r].pc = "idle" PROVE BegunAt(r)'
  BY <1>3 DEF BegunAt, At, Pending, Holds, Refreshers, Changers
<1>4. ASSUME NEW s \in Session, Issue(r, s) PROVE Done0
  BY <1>3, <1>4, Issuing, SameStays
<1>5. ASSUME RevokeOld(r) PROVE Done0
  BY <1>5, Rotating, SameStays DEF BegunAt, At, Pending, Holds, Refreshers, Changers
<1>6. ASSUME NEW a \in User, NEW u \in User, NEW pc \in {"create", "update", "reset", "delete"},
             LetIn(r, a, pc, u)
      PROVE  Done0
  <2>1. last' = last
    BY <1>6 DEF LetIn
  <2>2. (pc = "create") = (last[u].password = 0) /\ (pc = "delete" => a # u)
        /\ req'[r].pc = pc /\ req'[r].actor = a /\ req'[r].u = u
    BY <1>6, Asking
  <2>3. BegunAt(r)'
    BY <2>1, <2>2 DEF BegunAt, At, Pending, Holds, Refreshers, Changers
  <2>. QED
    BY <1>6, <2>3, Asking, SameStays
<1>7. ASSUME req'[r].pc = "audit", req'[r].actor \in User PROVE BegunAt(r)'
  BY <1>7 DEF BegunAt, At, Pending, Holds, Refreshers, Changers
<1>8. ASSUME NEW role \in Role, CreateUser(r, role) PROVE Done0
  BY <1>7, <1>8, Creating, SameStays
<1>9. ASSUME UpdateReads(r) \/ ResetReads(r) PROVE Done0
  <2>1. last' = last
    BY <1>9 DEF UpdateReads, ResetReads, history
  <2>2. req[r].u \in User /\ last[req[r].u].password # 0 /\ users[req[r].u].there
    BY <1>9, Copying DEF Known
  <2>3. BegunAt(r)'
    BY <1>9, <2>1, <2>2, Copying DEF BegunAt, At, Pending, Holds, Refreshers, Changers
  <2>. QED
    BY <1>9, <2>3, Copying, SameStays
<1>10. ASSUME UpdateWrites(r) \/ ResetWrites(r) PROVE Done0
  <2>1. PICK new \in Row, set \in SUBSET Field, next \in RequestRow : Rewrites(r, new, set, next)
    BY <1>10, Rewriting
  <2>2. req[r].u \in User /\ req[r].actor \in User /\ UpdateUser(r, req[r].u, new, set, next)
    BY <1>10, <2>1, Rewriting DEF Rewrites
  <2>3. Concerns(r, req[r].u, new, set) /\ req'[r] = next
    BY <2>1, <2>2, WritingUser
  <2>4. BegunAt(r)'
    BY <2>1, <2>2, <2>3 DEF Rewrites, BegunAt, At, Pending, Holds, Refreshers, Changers
  <2>. QED
    BY <2>3, <2>4 DEF Concerns
<1>11. ASSUME RevokeAll(r) PROVE Done0
  BY <1>7, <1>11, RevokingAll
<1>12. ASSUME DeleteUser(r) PROVE Done0
  BY <1>7, <1>12, Deleting DEF Concerns
<1>13. ASSUME Audit(r) \/ Abandon(r) PROVE Done0
  BY <1>3, <1>13, Ending, SameStays DEF Audit, Abandon
<1>. QED
  BY <1>1, <1>2, <1>4, <1>5, <1>6, <1>8, <1>9, <1>10, <1>11, <1>12, <1>13 DEF Acts

LEMMA BegunKept ==
  ASSUME TypeOK, Begun, Known, [Next]_vars
  PROVE  Begun'
<1>1. ASSUME NEW r \in Request, Acts(r) PROVE Begun'
  <2>1. \A q \in Request : BegunAt(q)'
    BY <1>1, ActsBegun, OthersBegun
  <2>. QED
    BY <2>1 DEF Begun
<1>2. CASE (\E s \in Session : EndSession(s)) \/ UNCHANGED vars
  <2>1. \A q \in Request : Stays(q)
    BY <1>2 DEF EndSession, vars, Stays
  <2>2. \A q \in Request : BegunAt(q)'
    BY <2>1, OthersBegun
  <2>. QED
    BY <2>2 DEF Begun
<1>3. ASSUME NEW u \in User, SeedAdminUser(u) PROVE Begun'
  <2>1. \A q \in Request : BegunAt(q)'
    BY <1>3, Seeding, OthersBegun
  <2>. QED
    BY <2>1 DEF Begun
<1>. QED
  BY <1>1, <1>2, <1>3 DEF Next, Acts

-----------------------------------------------------------------------------
\* Passwords and the sessions they end.

LEMMA RevokedInOrder ==
  ASSUME TypeOK, Begun, Known, Revocations, [Next]_vars, NEW u \in User
  PROVE  revoked'[u] <= last'[u].password
<1>. revoked[u] \in Nat /\ last[u].password \in Nat /\ last'[u].password \in Nat
     /\ revoked[u] <= last[u].password /\ last[u].password <= last'[u].password
  BY RowOf, Ever DEF Revocations
<1>1. ASSUME NEW r \in Request, RevokeAll(r) PROVE revoked'[u] <= last'[u].password
  <2>1. last' = last
    BY <1>1 DEF RevokeAll
  <2>2. At(r, "reset revoke") /\ req[r].given \in Nat
    BY <1>1, RevokingAll
  <2>3. req[r].given <= last[req[r].u].password
    BY <2>2 DEF Revocations, Owed
  <2>. QED
    BY <1>1, <2>1, <2>2, <2>3, RevokingAll
<1>2. CASE revoked' = revoked
  BY <1>2
<1>3. (\E r \in Request : RevokeAll(r)) \/ revoked' = revoked
  BY DEF Next, Login, RefreshTokens, Issue, RevokeOld, LetIn, UpdateReads, ResetReads, Audit,
         Abandon, EndSession, vars, history, CreateUser, UpdateWrites, ResetWrites, DeleteUser, SeedAdminUser
<1>. QED
  BY <1>1, <1>2, <1>3

LEMMA OthersOwed ==
  ASSUME TypeOK, Begun, Known, Revocations, [Next]_vars, NEW q \in Request, Stays(q)
  PROVE  Owed(q)'
<1>1. CASE At(q, "reset revoke")
  <2>1. req[q].u \in User
    BY <1>1 DEF Begun, BegunAt
  <2>2. req[q].given <= last[req[q].u].password
    BY <1>1 DEF Revocations, Owed
  <2>3. last[req[q].u].password \in Nat /\ req[q].given \in Nat /\ last'[req[q].u].password \in Nat
        /\ last[req[q].u].password <= last'[req[q].u].password
    BY <2>1, RowOf, RequestOf, Ever
  <2>4. req[q].given <= last'[req[q].u].password
    BY <2>2, <2>3
  <2>5. req'[q].given <= last'[req'[q].u].password
    BY <2>4 DEF Stays
  <2>. QED
    BY <2>5 DEF Owed
<1>2. CASE ~At(q, "reset revoke")
  BY <1>2 DEF Owed, At, Stays
<1>. QED
  BY <1>1, <1>2

LEMMA OwedKept ==
  ASSUME TypeOK, Begun, Known, Revocations, [Next]_vars, NEW q \in Request
  PROVE  Owed(q)'
<1>. DEFINE Past(r) == req'[r].pc # "reset revoke"
<1>1. ASSUME NEW r \in Request, Acts(r) PROVE Past(r) \/ ResetWrites(r) \/ UpdateWrites(r)
  <2>1. CASE \E u \in Watched : Login(r, u)
    BY <2>1, LoggingIn
  <2>2. CASE \E s \in Session : RefreshTokens(r, s) \/ Issue(r, s)
    BY <2>2, Starting, Issuing
  <2>3. CASE RevokeOld(r) \/ (\E role \in Role : CreateUser(r, role))
    BY <2>3, Rotating, Creating
  <2>4. ASSUME NEW a \in User, NEW u \in User, NEW pc \in {"create", "update", "reset", "delete"},
               LetIn(r, a, pc, u)
        PROVE  Past(r)
    <3>1. req'[r].pc = pc
      BY <2>4, Asking
    <3>. QED
      BY <3>1
  <2>5. CASE UpdateReads(r) \/ ResetReads(r)
    BY <2>5, Copying
  <2>6. CASE RevokeAll(r) \/ DeleteUser(r)
    BY <2>6, RevokingAll, Deleting
  <2>7. CASE Audit(r) \/ Abandon(r)
    BY <2>7, Ending DEF Audit, Abandon
  <2>. QED
    BY <1>1, <2>1, <2>2, <2>3, <2>4, <2>5, <2>6, <2>7 DEF Acts
<1>2. ASSUME Past(q) PROVE Owed(q)'
  BY <1>2 DEF Owed, At
<1>3. ASSUME UpdateWrites(q) \/ ResetWrites(q) PROVE Owed(q)'
  <2>1. PICK new \in Row, set \in SUBSET Field, next \in RequestRow :
          Rewrites(q, new, set, next) /\ Rewritten(q, new, set, next)
    BY <1>3, RewritingAll
  <2>2. CASE next.pc # "reset revoke"
    BY <1>2, <2>1, <2>2 DEF Rewritten
  <2>3. CASE next.pc = "reset revoke"
    <3>1. last'[req[q].u].password = new.password /\ next.given = new.password /\ next.u = req[q].u
      BY <2>1, <2>3 DEF Rewrites, Rewritten
    <3>2. new.password \in Nat
      BY Blanks DEF Row
    <3>3. req'[q].given = new.password /\ last'[req'[q].u].password = new.password
      BY <2>1, <3>1 DEF Rewritten
    <3>4. req'[q].given <= last'[req'[q].u].password
      BY <3>2, <3>3
    <3>. QED
      BY <3>4 DEF Owed
  <2>. QED
    BY <2>2, <2>3
<1>4. ASSUME NEW r \in Request, Acts(r) PROVE Owed(q)'
  <2>1. CASE q = r
    BY <1>1, <1>2, <1>3, <1>4, <2>1
  <2>2. CASE q # r
    BY <1>4, <2>2, ActsBegun, OthersOwed
  <2>. QED
    BY <2>1, <2>2
<1>5. CASE (\E s \in Session : EndSession(s)) \/ UNCHANGED vars
  BY <1>5, OthersOwed DEF EndSession, vars, Stays
<1>6. ASSUME NEW u \in User, SeedAdminUser(u) PROVE Owed(q)'
  BY <1>2, <1>6, Seeding
<1>. QED
  BY <1>4, <1>5, <1>6 DEF Next, Acts

LEMMA OthersTimely ==
  ASSUME TypeOK, Begun, Known, Revocations, NEW q \in Request, Stays(q),
         revoked' = revoked, req'[q].late = req[q].late
  PROVE  Timely(q)'
  BY DEF Revocations, Timely, Stays

LEMMA TimelyKept ==
  ASSUME TypeOK, Begun, Known, Revocations, PasswordEndsSessions, UserKeepsWrites, [Next]_vars,
         NEW q \in Request
  PROVE  Timely(q)'
<1>1. ASSUME req'[q].pc \notin Refreshers PROVE Timely(q)'
  BY <1>1 DEF Timely
<1>2. ASSUME req'[q] = req[q], revoked' = revoked PROVE Timely(q)'
  BY <1>2, SameStays, OthersTimely
<1>3. ASSUME NEW r \in Request, NEW u \in Watched, Login(r, u) PROVE Timely(q)'
  <2>. revoked' = revoked
    BY <1>3 DEF Login, history
  <2>1. CASE q # r
    BY <1>2, <1>3, <2>1, LoggingIn
  <2>2. CASE q = r
    <3>1. u \in User /\ revoked[u] <= last[u].password
      BY <1>3, LoggingIn DEF Revocations
    <3>2. <<u, "password">> \in lost \/ users[u].password = last[u].password
      BY <1>3, LoggingIn DEF UserKeepsWrites
    <3>3. users[u].password \in Nat /\ revoked[u] \in Nat
      BY <3>1, RowOf
    <3>4. users[u].password >= revoked[u] \/ <<u, "password">> \in lost
      BY <3>1, <3>2, <3>3
    <3>. QED
      BY <1>3, <2>2, <3>4, LoggingIn DEF Timely
  <2>. QED
    BY <2>1, <2>2
<1>4. ASSUME NEW r \in Request, NEW s \in Session, RefreshTokens(r, s) PROVE Timely(q)'
  <2>. revoked' = revoked
    BY <1>4 DEF RefreshTokens
  <2>1. CASE q # r
    BY <1>2, <1>4, <2>1, Starting
  <2>2. CASE q = r
    <3>1. s \in late \/ sessions[s].password >= revoked[sessions[s].u]
      BY <1>4, Starting DEF PasswordEndsSessions
    <3>. QED
      BY <1>4, <2>2, <3>1, Starting DEF Timely
  <2>. QED
    BY <2>1, <2>2
<1>5. ASSUME NEW r \in Request, RevokeOld(r) PROVE Timely(q)'
  <2>. revoked' = revoked
    BY <1>5 DEF RevokeOld
  <2>1. CASE q # r
    BY <1>2, <1>5, <2>1, Rotating
  <2>2. CASE q = r
    <3>1. Timely(q) /\ req[q].pc = "rotate"
      BY <1>5, <2>2, Rotating DEF Revocations, At
    <3>. QED
      BY <1>5, <2>2, <3>1, Rotating DEF Timely, Refreshers
  <2>. QED
    BY <2>1, <2>2
<1>6. ASSUME NEW r \in Request,
             \/ \E s \in Session : Issue(r, s)
             \/ \E a, u \in User, pc \in {"create", "update", "reset", "delete"} : LetIn(r, a, pc, u)
             \/ \E role \in Role : CreateUser(r, role)
             \/ UpdateReads(r) \/ ResetReads(r)
             \/ Audit(r) \/ Abandon(r)
      PROVE  Timely(q)'
  <2>1. revoked' = revoked
    BY <1>6 DEF Issue, LetIn, CreateUser, UpdateReads, ResetReads, Audit, Abandon, history
  <2>2. (\A p \in Request \ {r} : req'[p] = req[p]) /\ req'[r].pc \notin Refreshers
    <3>1. CASE \E s \in Session : Issue(r, s)
      BY <3>1, Issuing DEF Refreshers
    <3>2. CASE \E a, u \in User, pc \in {"create", "update", "reset", "delete"} : LetIn(r, a, pc, u)
      BY <3>2, Asking DEF Refreshers
    <3>3. CASE \E role \in Role : CreateUser(r, role)
      BY <3>3, Creating DEF Refreshers
    <3>4. CASE UpdateReads(r) \/ ResetReads(r)
      BY <3>4, Copying DEF Refreshers
    <3>5. CASE Audit(r) \/ Abandon(r)
      BY <3>5, Ending DEF Audit, Abandon, Refreshers
    <3>. QED
      BY <1>6, <3>1, <3>2, <3>3, <3>4, <3>5
  <2>. QED
    BY <1>1, <1>2, <2>1, <2>2
<1>7. ASSUME NEW r \in Request, UpdateWrites(r) \/ ResetWrites(r) PROVE Timely(q)'
  <2>1. PICK new \in Row, set \in SUBSET Field, next \in RequestRow :
          Rewrites(r, new, set, next) /\ Rewritten(r, new, set, next)
    BY <1>7, RewritingAll
  <2>2. revoked' = revoked
    BY <1>7 DEF UpdateWrites, ResetWrites
  <2>3. req'[r].pc \notin Refreshers /\ Concerns(r, req[r].u, new, set)
    BY <2>1 DEF Rewrites, Rewritten, Refreshers
  <2>. QED
    BY <1>1, <2>2, <2>3, OthersTimely DEF Concerns
<1>8. ASSUME NEW r \in Request, DeleteUser(r) PROVE Timely(q)'
  <2>1. revoked' = revoked
    BY <1>8 DEF DeleteUser
  <2>2. Concerns(r, req[r].u, Nobody, {}) /\ req'[r].pc \notin Refreshers
    BY <1>8, Deleting DEF Refreshers
  <2>. QED
    BY <1>1, <2>1, <2>2, OthersTimely DEF Concerns
<1>9. ASSUME NEW r \in Request, RevokeAll(r) PROVE Timely(q)'
  <2>1. CASE q = r
    BY <1>1, <1>9, <2>1, RevokingAll DEF Refreshers
  <2>2. CASE q # r
    <3>1. SUFFICES ASSUME req[q].pc \in Refreshers
                   PROVE  req'[q].late \/ req[q].given >= revoked'[req[q].u]
      BY <1>9, <2>2, RevokingAll DEF Timely, Stays
    <3>2. req[q].u \in User /\ req[q].given \in Nat /\ (req[q].late \/ req[q].given >= revoked[req[q].u])
      BY <3>1, RequestOf DEF Begun, BegunAt, Revocations, Timely
    <3>3. req'[q].late <=> req[q].late \/ GivenBefore(q, req[r].u, req[r].given)
      BY <1>9, <2>2, RevokingAll
    <3>4. CASE req[q].u # req[r].u
      BY <1>9, <3>2, <3>3, <3>4, RevokingAll
    <3>5. CASE req[q].u = req[r].u
      <4>1. revoked'[req[q].u] = IF revoked[req[q].u] < req[r].given THEN req[r].given ELSE revoked[req[q].u]
        BY <1>9, <3>5, RevokingAll
      <4>2. req[q].given < req[r].given => GivenBefore(q, req[r].u, req[r].given)
        BY <3>1, <3>5 DEF GivenBefore, Refreshers
      <4>3. req[r].given \in Nat /\ revoked[req[q].u] \in Nat
        BY <3>2, RequestOf, RowOf
      <4>. QED
        BY <3>2, <3>3, <4>1, <4>2, <4>3
    <3>. QED
      BY <3>4, <3>5
  <2>. QED
    BY <2>1, <2>2
<1>10. CASE (\E s \in Session : EndSession(s)) \/ UNCHANGED vars
  BY <1>2, <1>10 DEF EndSession, vars, history
<1>11. ASSUME NEW u \in User, SeedAdminUser(u) PROVE Timely(q)'
  BY <1>1, <1>11, Seeding DEF Refreshers
<1>. QED
  BY <1>3, <1>4, <1>5, <1>6, <1>7, <1>8, <1>9, <1>10, <1>11 DEF Next

LEMMA EndsSame ==
  ASSUME PasswordEndsSessions, revoked' = revoked, late' = late,
         \A t \in Session : Revokes(t)
  PROVE  PasswordEndsSessions'
<1>1. ASSUME NEW s \in Session, sessions'[s].state = "live"
      PROVE  s \in late' \/ sessions'[s].password >= revoked'[sessions'[s].u]
  BY <1>1 DEF Revokes, PasswordEndsSessions, Live
<1>. QED
  BY <1>1 DEF PasswordEndsSessions, Live

LEMMA SameSessions ==
  ASSUME sessions' = sessions
  PROVE  \A t \in Session : Revokes(t)
  BY DEF Revokes

LEMMA EndsKept ==
  ASSUME TypeOK, Begun, Revocations, PasswordEndsSessions, [Next]_vars
  PROVE  PasswordEndsSessions'
<1>1. CASE UNCHANGED <<sessions, revoked, late>>
  BY <1>1, SameSessions, EndsSame
<1>2. ASSUME NEW r \in Request, RevokeOld(r) PROVE PasswordEndsSessions'
  BY <1>2, Rotating, EndsSame DEF RevokeOld
<1>3. ASSUME NEW s \in Session, EndSession(s) PROVE PasswordEndsSessions'
  BY <1>3, Revoking, EndsSame DEF EndSession, history
<1>4. ASSUME NEW r \in Request, NEW s \in Session, Issue(r, s) PROVE PasswordEndsSessions'
  <2>1. revoked' = revoked /\ late' = IF req[r].late THEN late \cup {s} ELSE late
    BY <1>4 DEF Issue
  <2>2. req[r].late \/ req[r].given >= revoked[req[r].u]
    BY <1>4, Issuing DEF Revocations, Timely, At, Refreshers
  <2>3. SUFFICES ASSUME NEW t \in Session, sessions'[t].state = "live"
                 PROVE  t \in late' \/ sessions'[t].password >= revoked'[sessions'[t].u]
    BY DEF PasswordEndsSessions, Live
  <2>4. CASE t = s
    BY <1>4, <2>1, <2>2, <2>4, Issuing
  <2>5. CASE t # s
    BY <1>4, <2>1, <2>3, <2>5, Issuing DEF PasswordEndsSessions, Live
  <2>. QED
    BY <2>4, <2>5
<1>5. ASSUME NEW r \in Request, RevokeAll(r) PROVE PasswordEndsSessions'
  <2>1. late' = late
    BY <1>5 DEF RevokeAll
  <2>2. SUFFICES ASSUME NEW t \in Session, sessions'[t].state = "live"
                 PROVE  t \in late' \/ sessions'[t].password >= revoked'[sessions'[t].u]
    BY DEF PasswordEndsSessions, Live
  <2>3. Live(t) /\ sessions'[t].u = sessions[t].u /\ sessions'[t].password = sessions[t].password
        /\ sessions[t].u # req[r].u
    BY <1>5, <2>2, RevokingAll DEF Revokes, Live
  <2>4. sessions[t].u \in User
    BY <2>3, Typed DEF Owned
  <2>5. revoked'[sessions[t].u] = revoked[sessions[t].u]
    BY <1>5, <2>3, <2>4, RevokingAll
  <2>. QED
    BY <2>1, <2>3, <2>5 DEF PasswordEndsSessions
<1>6. ASSUME NEW r \in Request, DeleteUser(r) PROVE PasswordEndsSessions'
  <2>1. revoked' = revoked
    BY <1>6 DEF DeleteUser
  <2>2. SUFFICES ASSUME NEW t \in Session, sessions'[t].state = "live"
                 PROVE  t \in late' \/ sessions'[t].password >= revoked'[sessions'[t].u]
    BY DEF PasswordEndsSessions, Live
  <2>3. sessions'[t] = sessions[t] /\ (t \in late' <=> t \in late)
    BY <1>6, <2>2, Deleting
  <2>. QED
    BY <2>1, <2>2, <2>3 DEF PasswordEndsSessions, Live
<1>7. \/ UNCHANGED <<sessions, revoked, late>>
      \/ \E r \in Request : RevokeOld(r) \/ RevokeAll(r) \/ DeleteUser(r)
                            \/ \E s \in Session : Issue(r, s)
      \/ \E s \in Session : EndSession(s)
  BY DEF Next, Login, RefreshTokens, LetIn, UpdateReads, ResetReads, Audit,
         Abandon, vars, history, CreateUser, UpdateWrites, ResetWrites, SeedAdminUser
<1>. QED
  BY <1>1, <1>2, <1>3, <1>4, <1>5, <1>6, <1>7

LEMMA RevocationsKept ==
  ASSUME TypeOK, Begun, Known, Revocations, PasswordEndsSessions, UserKeepsWrites, [Next]_vars
  PROVE  Revocations'
<1>1. \A u \in User : revoked'[u] <= last'[u].password
  BY RevokedInOrder
<1>2. \A r \in Request : Owed(r)' /\ Timely(r)'
  BY OwedKept, TimelyKept
<1>. QED
  BY <1>1, <1>2 DEF Revocations

-----------------------------------------------------------------------------
\* Copies, and what is last set.

LEMMA OthersCopied ==
  ASSUME TypeOK, Copied, NEW q \in Request, Stays(q), req'[q].stale = req[q].stale,
         last' = last, lost' = lost
  PROVE  CopiedAt(q)'
<1>1. CopiedAt(q)
  BY DEF Copied
<1>2. CopiedAt(q)' <=>
        (Holds(q) =>
           /\ "password" \in req[q].stale \/ <<req[q].u, "password">> \in lost
              \/ req[q].copy.password = last[req[q].u].password
           /\ "role" \in req[q].stale \/ <<req[q].u, "role">> \in lost
              \/ req[q].copy.role = last[req[q].u].role)
  BY DEF CopiedAt, Stays, Holds, Misses
<1>. QED
  BY <1>1, <1>2 DEF CopiedAt, Misses

\* The row of u is written while q has a copy.
LEMMA OthersMiss ==
  ASSUME TypeOK, Begun, Copied, NEW r \in Request, NEW q \in Request \ {r},
         NEW new \in Row, NEW set \in SUBSET Field, NEW next \in RequestRow,
         req[r].u \in User, Rewritten(r, new, set, next)
  PROVE  CopiedAt(q)'
<1>. DEFINE u == req[r].u
            w == req[q].u
<1>1. Stays(q) /\ req'[q].stale = IF Holds(q) /\ w = u THEN req[q].stale \cup set ELSE req[q].stale
  BY DEF Rewritten, Concerns
<1>2. SUFFICES ASSUME Holds(q)
               PROVE  /\ "password" \in req'[q].stale \/ <<w, "password">> \in lost'
                         \/ req[q].copy.password = last'[w].password
                      /\ "role" \in req'[q].stale \/ <<w, "role">> \in lost'
                         \/ req[q].copy.role = last'[w].role
  BY <1>1 DEF CopiedAt, Misses, Holds, Stays
<1>3. w \in User
  BY <1>2 DEF Begun, BegunAt, Holds, Pending
<1>4. /\ "password" \in req[q].stale \/ <<w, "password">> \in lost
         \/ req[q].copy.password = last[w].password
      /\ "role" \in req[q].stale \/ <<w, "role">> \in lost
         \/ req[q].copy.role = last[w].role
  BY <1>2 DEF Copied, CopiedAt, Misses
<1>5. "password" \in Field /\ "role" \in Field
  BY DEF Field
<1>6. \A f \in Field : <<w, f>> \in lost /\ (w # u \/ f \notin set) => <<w, f>> \in lost'
  BY <1>3 DEF Rewritten
<1>7. CASE w # u
  <2>1. last'[w] = last[w]
    BY <1>3, <1>7 DEF Rewritten
  <2>. QED
    BY <1>1, <1>4, <1>5, <1>6, <1>7, <2>1
<1>8. CASE w = u
  <2>1. req'[q].stale = req[q].stale \cup set
    BY <1>1, <1>2, <1>8
  <2>2. /\ "password" \notin set => last'[w].password = last[w].password
        /\ "role" \notin set => last'[w].role = last[w].role
    BY <1>8 DEF Rewritten
  <2>. QED
    BY <1>4, <1>5, <1>6, <2>1, <2>2
<1>. QED
  BY <1>7, <1>8

LEMMA CopiedKept ==
  ASSUME TypeOK, Begun, Known, Copied, UserKeepsWrites, [Next]_vars, NEW q \in Request
  PROVE  CopiedAt(q)'
<1>1. ASSUME req'[q].pc \notin {"update write", "reset write"} PROVE CopiedAt(q)'
  BY <1>1 DEF CopiedAt, Holds
<1>2. ASSUME req'[q] = req[q], last' = last, lost' = lost PROVE CopiedAt(q)'
  BY <1>2, SameStays, OthersCopied
<1>3. ASSUME NEW r \in Request,
             \/ \E u \in Watched : Login(r, u)
             \/ \E s \in Session : RefreshTokens(r, s) \/ Issue(r, s)
             \/ RevokeOld(r)
             \/ \E a, u \in User, pc \in {"create", "update", "reset", "delete"} : LetIn(r, a, pc, u)
             \/ Audit(r) \/ Abandon(r)
      PROVE  CopiedAt(q)'
  <2>1. last' = last /\ lost' = lost
    BY <1>3 DEF Login, RefreshTokens, Issue, RevokeOld, LetIn, Audit, Abandon, history
  <2>2. (\A p \in Request \ {r} : req'[p] = req[p]) /\ req'[r].pc \notin {"update write", "reset write"}
    <3>1. CASE \E u \in Watched : Login(r, u)
      BY <3>1, LoggingIn
    <3>2. CASE \E s \in Session : RefreshTokens(r, s) \/ Issue(r, s)
      BY <3>2, Starting, Issuing
    <3>3. CASE RevokeOld(r)
      BY <3>3, Rotating
    <3>4. ASSUME NEW a \in User, NEW u \in User, NEW pc \in {"create", "update", "reset", "delete"},
                 LetIn(r, a, pc, u)
          PROVE  (\A p \in Request \ {r} : req'[p] = req[p])
                 /\ req'[r].pc \notin {"update write", "reset write"}
      <4>1. req'[r].pc = pc /\ \A p \in Request \ {r} : req'[p] = req[p]
        BY <3>4, Asking
      <4>. QED
        BY <4>1
    <3>5. CASE Audit(r) \/ Abandon(r)
      BY <3>5, Ending DEF Audit, Abandon
    <3>. QED
      BY <1>3, <3>1, <3>2, <3>3, <3>4, <3>5
  <2>. QED
    BY <1>1, <1>2, <2>1, <2>2
<1>4. ASSUME NEW r \in Request, UpdateReads(r) \/ ResetReads(r) PROVE CopiedAt(q)'
  <2>1. last' = last /\ lost' = lost
    BY <1>4 DEF UpdateReads, ResetReads, history
  <2>2. CASE q # r
    BY <1>2, <1>4, <2>1, <2>2, Copying
  <2>3. CASE q = r
    <3>. DEFINE u == req[r].u
    <3>1. u \in User /\ users[u].there /\ req'[r].copy = users[u] /\ req'[r].u = u
      BY <1>4, Copying
    <3>2. /\ <<u, "password">> \notin lost => users[u].password = last[u].password
          /\ <<u, "role">> \notin lost => users[u].role = last[u].role
      BY <3>1 DEF UserKeepsWrites
    <3>3. /\ <<req'[r].u, "password">> \in lost' \/ req'[r].copy.password = last'[req'[r].u].password
          /\ <<req'[r].u, "role">> \in lost' \/ req'[r].copy.role = last'[req'[r].u].role
      BY <2>1, <3>1, <3>2
    <3>. QED
      BY <2>3, <3>3 DEF CopiedAt, Misses
  <2>. QED
    BY <2>2, <2>3
<1>5. ASSUME NEW r \in Request, UpdateWrites(r) \/ ResetWrites(r) PROVE CopiedAt(q)'
  <2>1. PICK new \in Row, set \in SUBSET Field, next \in RequestRow :
          Rewrites(r, new, set, next) /\ Rewritten(r, new, set, next)
    BY <1>5, RewritingAll
  <2>2. req[r].u \in User
    BY <1>5, RewritingAll
  <2>3. CASE q = r
    BY <1>1, <2>1, <2>3 DEF Rewrites, Rewritten
  <2>4. CASE q # r
    BY <2>1, <2>2, <2>4, OthersMiss
  <2>. QED
    BY <2>3, <2>4
<1>6. ASSUME NEW r \in Request, RevokeAll(r) PROVE CopiedAt(q)'
  <2>1. last' = last /\ lost' = lost
    BY <1>6 DEF RevokeAll
  <2>. QED
    BY <1>1, <1>6, <2>1, RevokingAll, OthersCopied
<1>7. ASSUME NEW r \in Request, DeleteUser(r) PROVE CopiedAt(q)'
  <2>1. last' = last /\ lost' = lost
    BY <1>7 DEF DeleteUser
  <2>2. CASE q = r
    BY <1>1, <1>7, <2>2, Deleting
  <2>3. CASE q # r
    <3>1. Stays(q) /\ req'[q].stale = req[q].stale
      BY <1>7, <2>3, Deleting DEF Concerns
    <3>. QED
      BY <2>1, <3>1, OthersCopied
  <2>. QED
    BY <2>2, <2>3
<1>8. ASSUME NEW r \in Request, NEW role \in Role, CreateUser(r, role) PROVE CopiedAt(q)'
  <2>1. CASE q = r
    BY <1>1, <1>8, <2>1, Creating
  <2>2. CASE q # r
    <3>1. req'[q] = req[q] /\ lost' = lost
      BY <1>8, <2>2, Creating DEF CreateUser
    <3>2. SUFFICES ASSUME Holds(q) PROVE CopiedAt(q)'
      BY <3>1 DEF CopiedAt, Holds
    <3>3. req[q].u \in User /\ last[req[q].u].password # 0
      BY <3>2 DEF Begun, BegunAt, Holds, Pending, Changers
    <3>4. last'[req[q].u] = last[req[q].u]
      BY <1>8, <3>3, Creating, Adding
    <3>5. CopiedAt(q)
      BY DEF Copied
    <3>. QED
      BY <3>1, <3>2, <3>4, <3>5 DEF CopiedAt, Misses
  <2>. QED
    BY <2>1, <2>2
<1>9. ASSUME NEW u \in User, SeedAdminUser(u) PROVE CopiedAt(q)'
  BY <1>1, <1>9, Seeding
<1>10. CASE (\E s \in Session : EndSession(s)) \/ UNCHANGED vars
  BY <1>2, <1>10 DEF EndSession, vars, history
<1>. QED
  BY <1>3, <1>4, <1>5, <1>6, <1>7, <1>8, <1>9, <1>10 DEF Next

LEMMA WritesKept ==
  ASSUME TypeOK, Begun, Known, Copied, UserKeepsWrites, [Next]_vars
  PROVE  UserKeepsWrites'
<1>1. CASE users' = users /\ last' = last /\ lost' = lost
  BY <1>1 DEF UserKeepsWrites
<1>2. ASSUME NEW r \in Request, UpdateWrites(r) \/ ResetWrites(r) PROVE UserKeepsWrites'
  <2>. DEFINE u == req[r].u
  <2>1. PICK new \in Row, set \in SUBSET Field, next \in RequestRow :
          Rewrites(r, new, set, next) /\ Rewritten(r, new, set, next)
    BY <1>2, RewritingAll
  <2>2. u \in User /\ Holds(r)
    BY <1>2, RewritingAll
  <2>3. SUFFICES ASSUME NEW w \in User, users'[w].there
                 PROVE  /\ <<w, "password">> \notin lost' => users'[w].password = last'[w].password
                        /\ <<w, "role">> \notin lost' => users'[w].role = last'[w].role
    BY DEF UserKeepsWrites
  <2>4. "password" \in Field /\ "role" \in Field
    BY DEF Field
  <2>5. CASE w # u
    <3>1. users'[w] = users[w] /\ last'[w] = last[w]
      BY <2>1, <2>5 DEF Rewritten
    <3>2. \A f \in Field : <<w, f>> \in lost' <=> <<w, f>> \in lost
      BY <2>1, <2>5 DEF Rewritten
    <3>. QED
      BY <2>3, <2>4, <3>1, <3>2 DEF UserKeepsWrites
  <2>6. CASE w = u
    <3>1. \A f \in Field : <<u, f>> \in lost' <=> (<<u, f>> \in lost \/ f \in req[r].stale) /\ f \notin set
      BY <2>1, <2>2 DEF Rewritten
    <3>2. /\ "password" \in req[r].stale \/ <<u, "password">> \in lost
             \/ req[r].copy.password = last[u].password
          /\ "role" \in req[r].stale \/ <<u, "role">> \in lost \/ req[r].copy.role = last[u].role
      BY <2>2 DEF Copied, CopiedAt, Misses
    <3>3. /\ users'[u] = new
          /\ last'[u].password = IF "password" \in set THEN new.password ELSE last[u].password
          /\ last'[u].role = IF "role" \in set THEN new.role ELSE last[u].role
      BY <2>1 DEF Rewritten
    <3>4. /\ "password" \notin set => new.password = req[r].copy.password
          /\ "role" \notin set => new.role = req[r].copy.role
      BY <2>1 DEF Rewrites
    <3>. QED
      BY <2>4, <2>6, <3>1, <3>2, <3>3, <3>4
  <2>. QED
    BY <2>5, <2>6
<1>3. ASSUME NEW u \in User, NEW role \in Role, Add(u, role), lost' = lost PROVE UserKeepsWrites'
  BY <1>3, Adding DEF UserKeepsWrites
<1>4. ASSUME NEW r \in Request, DeleteUser(r) PROVE UserKeepsWrites'
  <2>1. last' = last /\ lost' = lost
    BY <1>4 DEF DeleteUser
  <2>2. \A w \in User : users'[w].there => users'[w] = users[w]
    BY <1>4, Deleting DEF Nobody
  <2>. QED
    BY <2>1, <2>2 DEF UserKeepsWrites
<1>5. ASSUME NEW r \in Request, NEW role \in Role, CreateUser(r, role) PROVE UserKeepsWrites'
  BY <1>3, <1>5, Creating DEF CreateUser
<1>6. ASSUME NEW u \in User, SeedAdminUser(u) PROVE UserKeepsWrites'
  BY <1>3, <1>6, Seeding DEF SeedAdminUser
<1>. QED
  BY <1>1, <1>2, <1>4, <1>5, <1>6, Kinds, ElsewhereRows DEF Writers

-----------------------------------------------------------------------------
\* Administrators.

AllowedAt(q) == Pending(q) => req[q].demoted \/ Admin(users[req[q].actor])

LEMMA OthersAllowed ==
  ASSUME OnlyAdminsChangeUsers, NEW q \in Request, Stays(q), req[q].demoted => req'[q].demoted,
         Pending(q) => req'[q].demoted \/ users'[req[q].actor] = users[req[q].actor]
  PROVE  AllowedAt(q)'
<1>1. AllowedAt(q)
  BY DEF OnlyAdminsChangeUsers, AllowedAt
<1>2. SUFFICES ASSUME Pending(q)
               PROVE  req'[q].demoted \/ Admin(users'[req[q].actor])
  BY DEF AllowedAt, Pending, Stays, Admin
<1>. QED
  BY <1>1, <1>2 DEF AllowedAt, Admin

LEMMA AdminsKept ==
  ASSUME TypeOK, Begun, Known, OnlyAdminsChangeUsers, [Next]_vars, NEW q \in Request
  PROVE  AllowedAt(q)'
<1>1. ASSUME req'[q].pc \in {"idle", "issue", "audit", "reset revoke"} PROVE AllowedAt(q)'
  BY <1>1 DEF AllowedAt, Pending
<1>2. ASSUME req'[q] = req[q], users' = users PROVE AllowedAt(q)'
  BY <1>2, SameStays, OthersAllowed
<1>3. ASSUME NEW r \in Request,
             \/ \E u \in Watched : Login(r, u)
             \/ \E s \in Session : Issue(r, s)
             \/ RevokeOld(r) \/ Audit(r) \/ Abandon(r)
      PROVE  AllowedAt(q)'
  <2>1. users' = users
    BY <1>3 DEF Login, Issue, RevokeOld, Audit, Abandon, history
  <2>2. (\A p \in Request \ {r} : req'[p] = req[p]) /\ req'[r].pc \in {"idle", "issue"}
    <3>1. CASE \E u \in Watched : Login(r, u)
      BY <3>1, LoggingIn
    <3>2. CASE \E s \in Session : Issue(r, s)
      BY <3>2, Issuing
    <3>3. CASE RevokeOld(r)
      BY <3>3, Rotating
    <3>4. CASE Audit(r) \/ Abandon(r)
      BY <3>4, Ending DEF Audit, Abandon
    <3>. QED
      BY <1>3, <3>1, <3>2, <3>3, <3>4
  <2>. QED
    BY <1>1, <1>2, <2>1, <2>2
<1>4. ASSUME NEW r \in Request, NEW s \in Session, RefreshTokens(r, s) PROVE AllowedAt(q)'
  <2>1. CASE q = r
    BY <1>4, <2>1, Starting DEF AllowedAt, Pending
  <2>2. CASE q # r
    BY <1>2, <1>4, <2>2, Starting DEF RefreshTokens
  <2>. QED
    BY <2>1, <2>2
<1>5. ASSUME NEW r \in Request, NEW a \in User, NEW u \in User,
             NEW pc \in {"create", "update", "reset", "delete"}, LetIn(r, a, pc, u)
      PROVE  AllowedAt(q)'
  <2>1. users' = users
    BY <1>5 DEF LetIn
  <2>2. CASE q = r
    <3>1. req'[q].actor = a /\ Admin(users[a])
      BY <1>5, <2>2, Asking
    <3>2. Admin(users'[req'[q].actor])
      BY <2>1, <3>1
    <3>. QED
      BY <3>2 DEF AllowedAt
  <2>3. CASE q # r
    BY <1>2, <1>5, <2>1, <2>3, Asking
  <2>. QED
    BY <2>2, <2>3
<1>6. ASSUME NEW r \in Request, UpdateReads(r) \/ ResetReads(r) PROVE AllowedAt(q)'
  <2>1. users' = users
    BY <1>6 DEF UpdateReads, ResetReads
  <2>2. CASE q = r
    <3>1. Pending(r) /\ req'[r].actor = req[r].actor /\ req'[r].demoted = req[r].demoted
      BY <1>6, Copying DEF Pending
    <3>2. req[r].demoted \/ Admin(users[req[r].actor])
      BY <3>1 DEF OnlyAdminsChangeUsers
    <3>3. req'[r].demoted \/ Admin(users'[req'[r].actor])
      BY <2>1, <3>1, <3>2
    <3>. QED
      BY <2>2, <3>3 DEF AllowedAt
  <2>3. CASE q # r
    BY <1>2, <1>6, <2>1, <2>3, Copying
  <2>. QED
    BY <2>2, <2>3
\* A row that is written, or goes, is the actor's own or not.
<1>7. ASSUME NEW r \in Request, NEW u \in User, NEW new \in Row, NEW set, Concerns(r, u, new, set),
             users'[u] = new, \A w \in User \ {u} : users'[w] = users[w], q # r
      PROVE  AllowedAt(q)'
  <2>1. Stays(q) /\ (req[q].demoted => req'[q].demoted)
        /\ (Pending(q) /\ req[q].actor = u /\ ~Admin(new) => req'[q].demoted)
    BY <1>7 DEF Concerns
  <2>2. CASE req[q].actor # u
    <3>1. Pending(q) => users'[req[q].actor] = users[req[q].actor]
      BY <1>7, <2>2 DEF Begun, BegunAt
    <3>. QED
      BY <2>1, <3>1, OthersAllowed
  <2>3. CASE req[q].actor = u /\ Admin(new)
    <3>1. Admin(users'[req'[q].actor])
      BY <1>7, <2>1, <2>3 DEF Stays
    <3>. QED
      BY <3>1 DEF AllowedAt
  <2>4. CASE req[q].actor = u /\ ~Admin(new)
    <3>1. Pending(q) => req'[q].demoted
      BY <2>1, <2>4
    <3>. QED
      BY <2>1, <3>1, OthersAllowed
  <2>. QED
    BY <2>2, <2>3, <2>4
<1>8. ASSUME NEW r \in Request, UpdateWrites(r) \/ ResetWrites(r) PROVE AllowedAt(q)'
  <2>1. PICK new \in Row, set \in SUBSET Field, next \in RequestRow :
          Rewrites(r, new, set, next) /\ Rewritten(r, new, set, next)
    BY <1>8, RewritingAll
  <2>2. req[r].u \in User
    BY <1>8, RewritingAll
  <2>3. CASE q = r
    BY <1>1, <2>1, <2>3 DEF Rewrites, Rewritten
  <2>4. CASE q # r
    <3>1. Concerns(r, req[r].u, new, set) /\ users'[req[r].u] = new
          /\ \A w \in User \ {req[r].u} : users'[w] = users[w]
      BY <2>1 DEF Rewritten
    <3>. QED
      BY <1>7, <2>2, <2>4, <3>1
  <2>. QED
    BY <2>3, <2>4
<1>9. ASSUME NEW r \in Request, DeleteUser(r) PROVE AllowedAt(q)'
  <2>1. CASE q = r
    BY <1>1, <1>9, <2>1, Deleting
  <2>2. CASE q # r
    <3>1. Concerns(r, req[r].u, Nobody, {}) /\ users'[req[r].u] = Nobody /\ req[r].u \in User
          /\ \A w \in User \ {req[r].u} : users'[w] = users[w]
      BY <1>9, Deleting
    <3>. QED
      BY <1>7, <2>2, <3>1, Blanks
  <2>. QED
    BY <2>1, <2>2
<1>10. ASSUME NEW r \in Request, RevokeAll(r) PROVE AllowedAt(q)'
  <2>1. users' = users
    BY <1>10 DEF RevokeAll
  <2>. QED
    BY <1>1, <1>10, <2>1, RevokingAll, OthersAllowed
<1>11. ASSUME NEW r \in Request, NEW role \in Role, CreateUser(r, role) PROVE AllowedAt(q)'
  <2>1. CASE q = r
    BY <1>1, <1>11, <2>1, Creating
  <2>2. CASE q # r
    <3>1. req'[q] = req[q] /\ Stays(q)
      BY <1>11, <2>2, Creating, SameStays
    <3>2. ASSUME Pending(q) PROVE req[q].demoted \/ users'[req[q].actor] = users[req[q].actor]
      <4>1. req[q].actor \in User /\ (req[q].demoted \/ users[req[q].actor].there)
        BY <3>2 DEF Begun, BegunAt, OnlyAdminsChangeUsers, Admin
      <4>2. ~users[req[r].u].there
        BY <1>11, Creating DEF Known
      <4>. QED
        BY <1>11, <4>1, <4>2, Creating, Adding
    <3>. QED
      BY <3>1, <3>2, OthersAllowed
  <2>. QED
    BY <2>1, <2>2
<1>12. ASSUME NEW u \in User, SeedAdminUser(u) PROVE AllowedAt(q)'
  BY <1>1, <1>12, Seeding
<1>13. CASE (\E s \in Session : EndSession(s)) \/ UNCHANGED vars
  BY <1>2, <1>13 DEF EndSession, vars, history
<1>. QED
  BY <1>3, <1>4, <1>5, <1>6, <1>8, <1>9, <1>10, <1>11, <1>12, <1>13 DEF Next

LEMMA AdminsChange ==
  ASSUME TypeOK, Begun, Known, OnlyAdminsChangeUsers, [Next]_vars
  PROVE  OnlyAdminsChangeUsers'
<1>1. \A q \in Request : AllowedAt(q)'
  BY AdminsKept
<1>. QED
  BY <1>1 DEF AllowedAt, OnlyAdminsChangeUsers

LEMMA SomeoneKept ==
  ASSUME TypeOK, Begun, Known, SomeoneStays, [Next]_vars
  PROVE  SomeoneStays'
<1>1. ASSUME \E u \in User : users'[u].there PROVE SomeoneStays'
  BY <1>1 DEF SomeoneStays
<1>2. CASE Elsewhere
  <2>1. users' = users /\ last' = last
    BY <1>2, ElsewhereRows
  <2>2. orphaned' = orphaned
    BY <1>2 DEF Elsewhere, Login, RefreshTokens, Issue, RevokeOld, RevokeAll, LetIn, UpdateReads,
         ResetReads, Audit, Abandon, EndSession, vars, history
  <2>. QED
    BY <2>1, <2>2 DEF SomeoneStays
<1>3. ASSUME NEW r \in Request, UpdateWrites(r) \/ ResetWrites(r) PROVE SomeoneStays'
  <2>1. PICK new \in Row, set \in SUBSET Field, next \in RequestRow :
          Rewrites(r, new, set, next) /\ Rewritten(r, new, set, next)
    BY <1>3, RewritingAll
  <2>2. req[r].u \in User /\ users'[req[r].u].there
    BY <1>3, <2>1, RewritingAll DEF Rewrites, Rewritten
  <2>. QED
    BY <1>1, <2>2
<1>4. ASSUME NEW r \in Request, DeleteUser(r) PROVE SomeoneStays'
  <2>1. CASE orphaned'
    BY <2>1 DEF SomeoneStays
  <2>2. CASE ~orphaned'
    <3>1. users[req[r].actor].there
      BY <1>4, <2>2 DEF DeleteUser
    <3>2. req[r].actor \in User \ {req[r].u}
      BY <1>4, Deleting
    <3>3. users'[req[r].actor].there
      BY <1>4, <3>1, <3>2, Deleting
    <3>. QED
      BY <1>1, <3>2, <3>3
  <2>. QED
    BY <2>1, <2>2
<1>5. ASSUME NEW u \in User, NEW role \in Role, Add(u, role) PROVE SomeoneStays'
  BY <1>1, <1>5, Adding
<1>6. ASSUME NEW r \in Request, NEW role \in Role, CreateUser(r, role) PROVE SomeoneStays'
  BY <1>5, <1>6, Creating
<1>7. ASSUME NEW u \in User, SeedAdminUser(u) PROVE SomeoneStays'
  BY <1>5, <1>7, Seeding
<1>. QED
  BY <1>2, <1>3, <1>4, <1>6, <1>7, Kinds DEF Writers

-----------------------------------------------------------------------------
\* Rotation.

\* A step that starts no refresh leaves those under way, or ends them.
Calm(q, p) ==
  req'[q].pc \in Refreshers /\ req'[q].s = p =>
    /\ Refreshing(q, p) /\ req'[q].u = req[q].u
    /\ req'[q].pc = "issue" => At(q, "issue") \/ p \in raced' \/ sessions'[p].state # "live"

LEMMA CalmLineage ==
  ASSUME TypeOK, Begun, Known, Lineage, [Next]_vars, raced \subseteq raced',
         \A t \in Session : Revokes(t),
         \A q \in Request, p \in Session : Calm(q, p)
  PROVE  Lineage'
<1>1. \A t \in Session : /\ sessions'[t].parent = sessions[t].parent /\ sessions'[t].u = sessions[t].u
                         /\ Present(t)' <=> Present(t)
                         /\ Live(t)' => Live(t)
                         /\ sessions[t].state = "gone" => sessions'[t].state = "gone"
  BY DEF Revokes, Present, Live
<1>2. \A q \in Request, p \in Session : Refreshing(q, p)' => Refreshing(q, p) /\ req'[q].u = req[q].u
  BY DEF Calm, Refreshing, Refreshers
<1>3. Parents'
  BY <1>1 DEF Lineage, Parents
<1>4. Refreshes'
  <2>1. SUFFICES ASSUME NEW q \in Request, NEW p \in Session, Refreshing(q, p)'
                 PROVE  \/ Present(p)' /\ sessions'[p].u = req'[q].u
                        \/ sessions'[p].state = "gone" /\ ~users'[req'[q].u].there /\ last'[req'[q].u].password # 0
    BY DEF Refreshes, Away
  <2>2. Refreshing(q, p) /\ req'[q].u = req[q].u
    BY <1>2, <2>1
  <2>3. req[q].u \in User
    BY <2>2 DEF Refreshing, Begun, BegunAt, Refreshers
  <2>4. Away(req[q].u) => ~users'[req[q].u].there /\ last'[req[q].u].password # 0
    BY <2>3, Ever
  <2>5. \/ Present(p) /\ sessions[p].u = req[q].u
        \/ sessions[p].state = "gone" /\ Away(req[q].u)
    BY <2>2 DEF Lineage, Refreshes
  <2>6. Away(req[q].u) => ~users'[req'[q].u].there /\ last'[req'[q].u].password # 0
    BY <2>2, <2>4 DEF Away
  <2>. QED
    BY <1>1, <2>2, <2>5, <2>6
<1>5. ASSUME NEW p \in Session, Present(p)', p \notin raced'
      PROVE  Single(p)'
  <2>1. Single(p)
    BY <1>1, <1>5 DEF Lineage
  <2>2. \A q, r \in Request : Refreshing(q, p)' /\ Refreshing(r, p)' => q = r
    BY <1>2, <2>1 DEF Single
  <2>3. \A r \in Request : Refreshing(r, p)' /\ req'[r].pc = "issue" => ~Live(p)'
    BY <1>1, <1>2, <1>5, <2>1 DEF Single, Calm, Refreshing, Refreshers, Live
  <2>4. \A s \in Session : sessions'[s].parent = p => ~Live(p)' /\ \A r \in Request : ~Refreshing(r, p)'
    BY <1>1, <1>2, <2>1 DEF Single
  <2>5. \A s, t \in Session : sessions'[s].parent = p /\ sessions'[t].parent = p => s = t
    BY <1>1, <2>1 DEF Single
  <2>. QED
    BY <2>2, <2>3, <2>4, <2>5 DEF Single, At
<1>. QED
  BY <1>3, <1>4, <1>5 DEF Lineage

LEMMA SameCalm ==
  ASSUME NEW q \in Request, NEW p \in Session,
         \/ req'[q].pc = req[q].pc /\ req'[q].s = req[q].s /\ req'[q].u = req[q].u
         \/ req'[q].pc \notin Refreshers
  PROVE  Calm(q, p)
  BY DEF Calm, Refreshing, Refreshers, At

LEMMA CalmSteps ==
  ASSUME TypeOK, Begun, Known, Lineage, [Next]_vars,
         ~ \E r \in Request : \/ DeleteUser(r)
                              \/ \E s \in Session : RefreshTokens(r, s) \/ Issue(r, s)
  PROVE  Lineage'
<1>. DEFINE AllCalm == \A q \in Request, p \in Session : Calm(q, p)
            Kept == raced' = raced /\ \A t \in Session : Revokes(t)
<1>1. ASSUME NEW r \in Request, NEW u \in Watched, Login(r, u) PROVE Kept /\ AllCalm
  <2>1. Kept
    BY <1>1, SameSessions DEF Login, history
  <2>2. ASSUME NEW p \in Session PROVE Calm(r, p)
    BY <1>1, LoggingIn, NoneAssumption DEF Calm
  <2>3. \A q \in Request \ {r}, p \in Session : Calm(q, p)
    BY <1>1, LoggingIn, SameCalm
  <2>. QED
    BY <2>1, <2>2, <2>3
<1>2. ASSUME NEW r \in Request, RevokeOld(r) PROVE Lineage'
  <2>1. raced \subseteq raced' /\ \A t \in Session : Revokes(t)
    BY <1>2, Rotating
  <2>2. ASSUME NEW p \in Session PROVE Calm(r, p)
    BY <1>2, Rotating DEF Calm, Refreshing, At
  <2>3. \A q \in Request \ {r}, p \in Session : Calm(q, p)
    BY <1>2, Rotating, SameCalm
  <2>4. AllCalm
    BY <2>2, <2>3
  <2>. QED
    BY <2>1, <2>4, CalmLineage
<1>3. ASSUME NEW r \in Request,
             \/ \E a, u \in User, pc \in {"create", "update", "reset", "delete"} : LetIn(r, a, pc, u)
             \/ \E role \in Role : CreateUser(r, role)
             \/ UpdateReads(r) \/ ResetReads(r)
             \/ Audit(r) \/ Abandon(r)
      PROVE  Kept /\ AllCalm
  <2>1. Kept
    BY <1>3, SameSessions DEF LetIn, CreateUser, UpdateReads, ResetReads, Audit, Abandon, history
  <2>2. (\A p \in Request \ {r} : req'[p] = req[p]) /\ req'[r].pc \notin Refreshers
    <3>1. CASE \E role \in Role : CreateUser(r, role)
      BY <3>1, Creating DEF Refreshers
    <3>2. ASSUME NEW a \in User, NEW u \in User, NEW pc \in {"create", "update", "reset", "delete"},
                 LetIn(r, a, pc, u)
          PROVE  (\A p \in Request \ {r} : req'[p] = req[p]) /\ req'[r].pc \notin Refreshers
      <4>1. req'[r].pc = pc /\ \A p \in Request \ {r} : req'[p] = req[p]
        BY <3>2, Asking
      <4>. QED
        BY <4>1 DEF Refreshers
    <3>3. CASE UpdateReads(r) \/ ResetReads(r)
      BY <3>3, Copying DEF Refreshers
    <3>4. CASE Audit(r) \/ Abandon(r)
      BY <3>4, Ending DEF Audit, Abandon, Refreshers
    <3>. QED
      BY <1>3, <3>1, <3>2, <3>3, <3>4
  <2>3. ASSUME NEW q \in Request, NEW p \in Session PROVE Calm(q, p)
    BY <2>2, SameCalm
  <2>. QED
    BY <2>1, <2>3
<1>4. ASSUME NEW r \in Request, UpdateWrites(r) \/ ResetWrites(r) PROVE Kept /\ AllCalm
  <2>1. Kept
    BY <1>4, SameSessions DEF UpdateWrites, ResetWrites
  <2>2. PICK new \in Row, set \in SUBSET Field, next \in RequestRow :
          Rewrites(r, new, set, next) /\ Rewritten(r, new, set, next)
    BY <1>4, RewritingAll
  <2>3. \A q \in Request \ {r} : Stays(q)
    BY <2>2 DEF Rewritten, Concerns
  <2>4. req'[r].pc \notin Refreshers
    BY <2>2 DEF Rewrites, Rewritten, Refreshers
  <2>5. ASSUME NEW q \in Request, NEW p \in Session PROVE Calm(q, p)
    BY <2>3, <2>4, SameCalm DEF Stays
  <2>. QED
    BY <2>1, <2>5
<1>5. ASSUME NEW r \in Request, RevokeAll(r) PROVE Kept /\ AllCalm
  <2>1. Kept
    BY <1>5, RevokingAll DEF RevokeAll
  <2>2. (\A q \in Request \ {r} : Stays(q)) /\ req'[r].pc \notin Refreshers
    BY <1>5, RevokingAll DEF Refreshers
  <2>3. ASSUME NEW q \in Request, NEW p \in Session PROVE Calm(q, p)
    BY <2>2, SameCalm DEF Stays
  <2>. QED
    BY <2>1, <2>3
<1>6. ASSUME NEW s \in Session, EndSession(s) PROVE Kept /\ AllCalm
  <2>1. Kept
    BY <1>6, Revoking DEF EndSession, history
  <2>2. ASSUME NEW q \in Request, NEW p \in Session PROVE Calm(q, p)
    BY <1>6, SameCalm DEF EndSession
  <2>. QED
    BY <2>1, <2>2
<1>7. ASSUME NEW u \in User, SeedAdminUser(u) PROVE Kept /\ AllCalm
  <2>1. Kept
    BY <1>7, SameSessions DEF SeedAdminUser
  <2>2. ASSUME NEW q \in Request, NEW p \in Session PROVE Calm(q, p)
    BY <1>7, Seeding, SameCalm DEF Refreshers
  <2>. QED
    BY <2>1, <2>2
<1>8. CASE UNCHANGED vars
  <2>1. Kept
    BY <1>8, SameSessions DEF vars, history
  <2>2. ASSUME NEW q \in Request, NEW p \in Session PROVE Calm(q, p)
    BY <1>8, SameCalm DEF vars
  <2>3. AllCalm
    BY <2>2
  <2>. QED
    BY <2>1, <2>3, CalmLineage
<1>9. ASSUME Kept /\ AllCalm PROVE Lineage'
  BY <1>9, CalmLineage
<1>. QED
  BY <1>1, <1>2, <1>3, <1>4, <1>5, <1>6, <1>7, <1>8, <1>9 DEF Next

LEMMA StartLineage ==
  ASSUME TypeOK, Begun, Lineage, NEW r \in Request, NEW s \in Session, RefreshTokens(r, s)
  PROVE  Lineage'
<1>1. sessions' = sessions /\ users' = users /\ last' = last
  BY DEF RefreshTokens
<1>2. raced' = IF \E q \in Request : Refreshing(q, s) THEN raced \cup {s} ELSE raced
  BY DEF RefreshTokens
<1>3. Live(s) /\ req'[r].pc = "rotate" /\ req'[r].s = s /\ req'[r].u = sessions[s].u
  BY Starting
<1>4. ASSUME NEW q \in Request \ {r}
      PROVE  req'[q] = req[q] /\ \A p \in Session : Refreshing(q, p)' <=> Refreshing(q, p)
  <2>1. req'[q] = req[q]
    BY Starting
  <2>. QED
    BY <2>1 DEF Refreshing
<1>5. \A p \in Session : Refreshing(r, p)' => p = s
  BY <1>3 DEF Refreshing
<1>6. Parents'
  BY <1>1 DEF Lineage, Parents, Present
<1>7. Refreshes'
  <2>1. SUFFICES ASSUME NEW q \in Request, NEW p \in Session, Refreshing(q, p)'
                 PROVE  \/ Present(p)' /\ sessions'[p].u = req'[q].u
                        \/ sessions'[p].state = "gone" /\ ~users'[req'[q].u].there /\ last'[req'[q].u].password # 0
    BY DEF Refreshes, Away
  <2>2. CASE q = r
    BY <1>1, <1>3, <1>5, <2>1, <2>2 DEF Present, Live
  <2>3. CASE q # r
    BY <1>1, <1>4, <2>1, <2>3 DEF Lineage, Refreshes, Present, Away
  <2>. QED
    BY <2>2, <2>3
<1>8. ASSUME NEW p \in Session, Present(p)', p \notin raced'
      PROVE  Single(p)'
  <2>1. Single(p) /\ p \notin raced
    BY <1>1, <1>2, <1>8 DEF Lineage, Present
  <2>2. CASE p # s
    <3>1. \A q \in Request : Refreshing(q, p)' => Refreshing(q, p) /\ req'[q] = req[q]
      BY <1>4, <1>5, <2>2
    <3>. QED
      BY <1>1, <2>1, <3>1 DEF Single, At, Live
  <2>3. CASE p = s
    <3>1. \A q \in Request : ~Refreshing(q, s)
      BY <1>2, <1>8, <2>3
    <3>2. \A q \in Request : Refreshing(q, s)' => q = r
      BY <1>4, <3>1
    <3>3. \A t \in Session : sessions'[t].parent # s
      BY <1>1, <1>3, <2>1, <2>3 DEF Single
    <3>. QED
      BY <1>3, <2>3, <3>2, <3>3 DEF Single, At
  <2>. QED
    BY <2>2, <2>3
<1>. QED
  BY <1>6, <1>7, <1>8 DEF Lineage

LEMMA IssueLineage ==
  ASSUME TypeOK, Begun, Lineage, NEW r \in Request, NEW s \in Session, Issue(r, s)
  PROVE  Lineage'
<1>. DEFINE o == req[r].s
<1>1. users' = users /\ last' = last /\ raced' = raced
  BY DEF Issue
<1>2. At(r, "issue") /\ sessions[s].state = "none" /\ users[req[r].u].there
      /\ sessions'[s].state = "live" /\ sessions'[s].u = req[r].u /\ sessions'[s].parent = o
      /\ \A t \in Session \ {s} : sessions'[t] = sessions[t]
  BY Issuing
<1>3. \A q \in Request, p \in Session : Refreshing(q, p)' => Refreshing(q, p) /\ q # r /\ req'[q] = req[q]
  <2>1. req'[r].pc = "idle" /\ \A q \in Request \ {r} : req'[q] = req[q]
    BY Issuing
  <2>. QED
    BY <2>1 DEF Refreshing
\* Nothing has to do with s yet.
<1>4. \A q \in Request : ~Refreshing(q, s)
  BY <1>2 DEF Lineage, Refreshes, Present
<1>5. \A t \in Session : sessions[t].parent # s
  BY <1>2 DEF Lineage, Parents, Present
<1>6. o \in Session => Refreshing(r, o) /\ Present(o) /\ sessions[o].u = req[r].u /\ o # s
  <2>1. o \in Session => Refreshing(r, o)
    BY <1>2 DEF Refreshing, At
  <2>2. ~Away(req[r].u)
    BY <1>2 DEF Away
  <2>. QED
    BY <1>2, <2>1, <2>2 DEF Lineage, Refreshes, Present
<1>7. Parents'
  <2>1. SUFFICES ASSUME NEW t \in Session, NEW p \in Session, sessions'[t].parent = p
                 PROVE  Present(p)' /\ sessions'[t].u = sessions'[p].u
    BY DEF Parents
  <2>2. CASE t = s
    BY <1>2, <1>6, <2>1, <2>2 DEF Present
  <2>3. CASE t # s
    <3>1. sessions'[t] = sessions[t] /\ p # s
      BY <1>2, <1>5, <2>1, <2>3
    <3>. QED
      BY <1>2, <2>1, <3>1 DEF Lineage, Parents, Present
  <2>. QED
    BY <2>2, <2>3
<1>8. Refreshes'
  <2>1. SUFFICES ASSUME NEW q \in Request, NEW p \in Session, Refreshing(q, p)'
                 PROVE  \/ Present(p)' /\ sessions'[p].u = req'[q].u
                        \/ sessions'[p].state = "gone" /\ ~users'[req'[q].u].there /\ last'[req'[q].u].password # 0
    BY DEF Refreshes, Away
  <2>2. Refreshing(q, p) /\ req'[q] = req[q] /\ p # s
    BY <1>3, <1>4, <2>1
  <2>3. sessions'[p] = sessions[p]
    BY <1>2, <2>2
  <2>. QED
    BY <1>1, <2>2, <2>3 DEF Lineage, Refreshes, Present, Away
<1>9. ASSUME NEW p \in Session, Present(p)', p \notin raced'
      PROVE  Single(p)'
  <2>1. CASE p = s
    <3>1. \A q \in Request : ~Refreshing(q, s)'
      BY <1>3, <1>4
    <3>2. \A t \in Session : sessions'[t].parent # s
      <4>1. o # s
        BY <1>6
      <4>. QED
        BY <1>2, <1>5, <4>1
    <3>. QED
      BY <2>1, <3>1, <3>2 DEF Single
  <2>2. CASE p # s
    <3>1. sessions'[p] = sessions[p]
      BY <1>2, <2>2
    <3>2. Single(p)
      BY <1>1, <1>9, <3>1 DEF Lineage, Present
    <3>3. \A q \in Request : Refreshing(q, p)' => Refreshing(q, p) /\ q # r /\ req'[q] = req[q]
      BY <1>3
    <3>4. Live(p)' <=> Live(p)
      BY <3>1 DEF Live
    <3>5. CASE p # o
      <4>1. \A t \in Session : sessions'[t].parent = p => sessions[t].parent = p
        BY <1>2, <3>5
      <4>. QED
        BY <3>2, <3>3, <3>4, <4>1 DEF Single, At
    <3>6. CASE p = o
      <4>1. Refreshing(r, p)
        BY <1>6, <3>6
      <4>2. ~Live(p) /\ (\A q \in Request : Refreshing(q, p) => q = r)
            /\ \A t \in Session : sessions[t].parent # p
        BY <1>2, <3>2, <4>1 DEF Single
      <4>3. \A q \in Request : ~Refreshing(q, p)'
        BY <3>3, <4>2
      <4>4. \A t \in Session : sessions'[t].parent = p => t = s
        BY <1>2, <4>2
      <4>. QED
        BY <3>4, <4>2, <4>3, <4>4 DEF Single
    <3>. QED
      BY <3>5, <3>6
  <2>. QED
    BY <2>1, <2>2
<1>. QED
  BY <1>7, <1>8, <1>9 DEF Lineage

LEMMA DeleteLineage ==
  ASSUME TypeOK, Begun, Known, Lineage, NEW r \in Request, DeleteUser(r)
  PROVE  Lineage'
<1>. DEFINE u == req[r].u
<1>1. u \in User /\ users[u].there /\ ~users'[u].there /\ last' = last /\ last[u].password # 0
      /\ \A w \in User \ {u} : users'[w] = users[w]
  BY Deleting DEF DeleteUser, Nobody, Known
<1>2. \A t \in Session : IF sessions[t].u = u
        THEN sessions'[t].state = "gone" /\ sessions'[t].parent = NoSession
        ELSE sessions'[t] = sessions[t] /\ (t \in raced' <=> t \in raced)
  BY Deleting
<1>3. \A q \in Request, p \in Session : Refreshing(q, p)' =>
        Refreshing(q, p) /\ req'[q].u = req[q].u /\ req'[q].pc = req[q].pc
  <2>1. req'[r].pc = "audit" /\ \A q \in Request \ {r} : Stays(q)
    BY Deleting DEF Concerns
  <2>. QED
    BY <2>1 DEF Refreshing, Stays
<1>4. ASSUME NEW t \in Session, NEW p \in Session, sessions'[t].parent = p
      PROVE  sessions[t].parent = p /\ sessions'[t] = sessions[t] /\ sessions'[p] = sessions[p]
             /\ Present(p) /\ sessions[t].u = sessions[p].u
  <2>1. sessions[t].u # u /\ sessions'[t] = sessions[t]
    BY <1>2, <1>4, NoneAssumption
  <2>2. Present(p) /\ sessions[t].u = sessions[p].u
    BY <1>4, <2>1 DEF Lineage, Parents
  <2>. QED
    BY <1>2, <1>4, <2>1, <2>2
<1>5. Parents'
  BY <1>4 DEF Parents, Present
<1>6. Refreshes'
  <2>1. SUFFICES ASSUME NEW q \in Request, NEW p \in Session, Refreshing(q, p)'
                 PROVE  \/ Present(p)' /\ sessions'[p].u = req[q].u
                        \/ sessions'[p].state = "gone" /\ ~users'[req[q].u].there
                           /\ last'[req[q].u].password # 0
    BY <1>3 DEF Refreshes, Away
  <2>2. Refreshing(q, p) /\ req[q].u \in User
    BY <1>3, <2>1 DEF Refreshing, Begun, BegunAt, Refreshers
  <2>3. CASE Present(p) /\ sessions[p].u = req[q].u
    BY <1>1, <1>2, <2>3 DEF Present
  <2>4. CASE sessions[p].state = "gone" /\ Away(req[q].u)
    <3>1. sessions'[p].state = "gone"
      BY <1>2, <2>4
    <3>2. ~users'[req[q].u].there /\ last'[req[q].u].password # 0
      BY <1>1, <2>2, <2>4 DEF Away
    <3>. QED
      BY <3>1, <3>2
  <2>. QED
    BY <2>2, <2>3, <2>4 DEF Lineage, Refreshes
<1>7. ASSUME NEW p \in Session, Present(p)', p \notin raced'
      PROVE  Single(p)'
  <2>1. sessions[p].u # u
    BY <1>2, <1>7 DEF Present
  <2>2. sessions'[p] = sessions[p] /\ p \notin raced
    BY <1>2, <1>7, <2>1
  <2>3. Single(p)
    BY <1>7, <2>2 DEF Lineage, Present
  <2>4. Live(p)' <=> Live(p)
    BY <2>2 DEF Live
  <2>. QED
    BY <1>3, <1>4, <2>3, <2>4 DEF Single, At
<1>. QED
  BY <1>5, <1>6, <1>7 DEF Lineage

LEMMA LineageKept ==
  ASSUME TypeOK, Begun, Known, Lineage, [Next]_vars
  PROVE  Lineage'
  BY CalmSteps, StartLineage, IssueLineage, DeleteLineage

\* One successor each.
LEMMA LineageMeansOne ==
  ASSUME TypeOK, Lineage
  PROVE  OneSuccessor
<1>1. SUFFICES ASSUME NEW s \in Session, NEW t \in Session, s # t,
                      sessions[s].parent = sessions[t].parent,
                      sessions[s].parent \notin raced, sessions[s].parent # NoSession
               PROVE  FALSE
  BY DEF OneSuccessor
<1>2. PICK p \in Session : p = sessions[s].parent
  BY <1>1, SessionOf DEF Session0
<1>3. Present(p)
  BY <1>2 DEF Lineage, Parents
<1>4. Single(p)
  BY <1>1, <1>2, <1>3 DEF Lineage
<1>. QED
  BY <1>1, <1>2, <1>4 DEF Single

-----------------------------------------------------------------------------
\* The invariant holds in every state: the start of the hub, then request by
\* request.
LEMMA Starts ==
  ASSUME Init
  PROVE  IInv
<1>1. PICK admins \in SUBSET User :
        users = [u \in User |-> IF u \in admins THEN [there |-> TRUE, password |-> 1, role |-> "admin"]
                                ELSE Nobody]
  BY DEF Init
<1>2. [there |-> TRUE, password |-> 1, role |-> "admin"] \in Row
  BY Blanks DEF Row, Role, Password
<1>3. users \in [User -> Row]
      /\ \A u \in User : users[u].there => users[u].password = 1
  <2>1. users \in [User -> Row]
    BY <1>1, <1>2, Blanks
  <2>2. \A u \in User : users[u].there => users[u].password = 1
    BY <1>1 DEF Nobody
  <2>. QED
    BY <2>1, <2>2
<1>4. last = [u \in User |-> [password |-> users[u].password, role |-> users[u].role]]
  BY DEF Init
<1>5. \A u \in User : [password |-> users[u].password, role |-> users[u].role] \in LastRow
  BY <1>3 DEF LastRow, Row, Password
<1>6. last \in [User -> LastRow]
      /\ \A u \in User : last[u].password = users[u].password /\ last[u].role = users[u].role
  <2>. DEFINE f(u) == [password |-> users[u].password, role |-> users[u].role]
  <2>1. \A u \in User : f(u).password = users[u].password /\ f(u).role = users[u].role /\ f(u) \in LastRow
    BY <1>5
  <2>2. last = [u \in User |-> f(u)]
    BY <1>4
  <2>. HIDE DEF f
  <2>. QED
    BY <2>1, <2>2
<1>7. \A r \in Request : req[r] = Idle /\ req[r].pc = "idle"
  BY DEF Init, Idle
<1>8. \A s \in Session : sessions[s].state = "none" /\ sessions[s].parent = NoSession
  BY DEF Init, Unused
<1>9. Tables
  <2>1. sessions \in [Session -> SessionRow] /\ req \in [Request -> RequestRow]
    BY Blanks DEF Init
  <2>. QED
    BY <1>3, <1>6, <2>1 DEF Tables
<1>10. Notes
  <2>1. revoked \in [User -> Password]
    BY Blanks DEF Init
  <2>2. changes \in 0..MaxChanges
    BY PasswordsAssumption DEF Init
  <2>. QED
    BY <2>1, <2>2 DEF Init, Notes
<1>11. TypeOK
  BY <1>8, <1>9, <1>10, Typed DEF Owned, Live
<1>12. Begun /\ Copied /\ OnlyAdminsChangeUsers
  BY <1>7 DEF Begun, BegunAt, At, Pending, Holds, Refreshers, Changers, Copied, CopiedAt,
              OnlyAdminsChangeUsers
<1>13. Known /\ UserKeepsWrites
  BY <1>3, <1>6 DEF Known, UserKeepsWrites
<1>14. Revocations
  <2>1. \A u \in User : revoked[u] = 0 /\ last[u].password \in Nat
    BY <1>11, RowOf DEF Init
  <2>2. \A r \in Request : Owed(r) /\ Timely(r)
    BY <1>7 DEF Owed, Timely, At, Refreshers
  <2>. QED
    BY <2>1, <2>2 DEF Revocations
<1>15. PasswordEndsSessions /\ Lineage
  BY <1>7, <1>8, NoneAssumption DEF PasswordEndsSessions, Live, Lineage, Parents, Refreshes,
                                    Refreshing, Present
<1>16. SomeoneStays
  <2>1. ASSUME NEW u \in User, ~users[u].there PROVE last[u].password = 0
    BY <1>1, <1>6, <2>1 DEF Nobody
  <2>. QED
    BY <2>1 DEF SomeoneStays
<1>. QED
  BY <1>11, <1>12, <1>13, <1>14, <1>15, <1>16 DEF IInv

LEMMA Inductive ==
  ASSUME IInv, [Next]_vars
  PROVE  IInv'
<1>1. TypeOK' /\ Begun' /\ Known'
  BY TypesKept, BegunKept, KnownKept DEF IInv
<1>2. Revocations' /\ PasswordEndsSessions'
  BY RevocationsKept, EndsKept DEF IInv
<1>3. Copied' /\ UserKeepsWrites'
  <2>1. \A q \in Request : CopiedAt(q)'
    BY CopiedKept DEF IInv
  <2>2. Copied'
    BY <2>1 DEF Copied
  <2>. QED
    BY <2>2, WritesKept DEF IInv
<1>4. OnlyAdminsChangeUsers' /\ SomeoneStays'
  BY AdminsChange, SomeoneKept DEF IInv
<1>5. Lineage'
  BY LineageKept DEF IInv
<1>. QED
  BY <1>1, <1>2, <1>3, <1>4, <1>5 DEF IInv

\* IInv holds in every state: what Login, RefreshTokens and the handlers of
\* user_handlers.go keep of the tables, whatever requests they meet.
THEOREM Invariance == Spec => []IInv
<1>1. Init => IInv
  BY Starts
<1>2. IInv /\ [Next]_vars => IInv'
  BY Inductive
<1>. QED
  BY <1>1, <1>2, PTL DEF Spec

\* The tables and requests keep their types, and a live session's account is
\* there: user_sessions goes with its users row.
THEOREM TypesHold == Spec => []TypeOK
<1>1. IInv => TypeOK
  BY DEF IInv
<1>. QED
  BY <1>1, Invariance, PTL

\* UpdatePassword: no session given an older password lives once it has revoked
\* them, with the exceptions that are noted.
THEOREM PasswordsEndSessions == Spec => []PasswordEndsSessions
<1>1. IInv => PasswordEndsSessions
  BY DEF IInv
<1>. QED
  BY <1>1, Invariance, PTL

\* UpdateUser and UpdatePassword: the row has what was last set, unless a copy
\* read before was written over it.
THEOREM UsersKeepWrites == Spec => []UserKeepsWrites
<1>1. IInv => UserKeepsWrites
  BY DEF IInv
<1>. QED
  BY <1>1, Invariance, PTL

\* RefreshTokens: a refresh token has one successor, unless two refreshes
\* overlapped or its revocation failed.
THEOREM SuccessorIsOne == Spec => []OneSuccessor
<1>1. IInv => OneSuccessor
  BY LineageMeansOne DEF IInv
<1>. QED
  BY <1>1, Invariance, PTL

\* RequireRole: who administers users is an administrator, or was one when the
\* request was let in.
THEOREM AdminsOnly == Spec => []OnlyAdminsChangeUsers
<1>1. IInv => OnlyAdminsChangeUsers
  BY DEF IInv
<1>. QED
  BY <1>1, Invariance, PTL

\* DeleteUser: an account stays, unless the last went by a request of one that
\* was deleted.
THEOREM OneAccountStays == Spec => []SomeoneStays
<1>1. IInv => SomeoneStays
  BY DEF IInv
<1>. QED
  BY <1>1, Invariance, PTL
=============================================================================
