------------------------------ MODULE Sessions ------------------------------
(***************************************************************************)
(* AuthService (src/auth/auth.service.ts) and UsersService                 *)
(* (src/users/users.service.ts) over the tables users, auth_otps and       *)
(* refresh_tokens: registration by one-time code, login, rotation of       *)
(* refresh tokens, password reset, and what an administrator does to an    *)
(* account.                                                                *)
(*                                                                         *)
(* A request is a process that takes one step per awaited statement, as in *)
(* Reservations; save() is a SELECT and a write.  Whatever a request makes *)
(* (an account, a password, a code, a session) bears the name of the       *)
(* request, since each makes at most one of a kind; what was there before  *)
(* the run bears a name of Old.                                            *)
(***************************************************************************)
EXTENDS Naturals, FiniteSets

CONSTANTS
    RequestIds,      \* the requests of the run, each handled once
    Old,             \* names of what predates the run
    Emails,          \* normalised addresses
    OldEmail,        \* [Old -> Emails]: the addresses of the old accounts
    OldOtps,         \* rows auth_otps may hold at the start
    Bodies,          \* bodies PATCH /users/:id may carry
    Operations,      \* operations the clients of the run use
    Isolation,       \* "none" | "account": see MayStart
    MayFail,         \* may a statement fail, or the process die, at any await
    FixedCode,       \* OTP_FIXED_ENABLED: every code is the same
    NoRow, NoId, Unset

Ids == RequestIds \cup Old
Statuses == {"ACTIF", "SUSPENDU"}
Purposes == {"REGISTER", "RESET_PASSWORD"}
Columns == {"email", "password", "status"}

User == [email : Emails, password : Ids, status : Statuses]
Otp == [email : Emails, purpose : Purposes, user : Ids \cup {NoId},
        at : Nat, used : BOOLEAN, expired : BOOLEAN]
Session == [user : Ids, revoked : BOOLEAN, next : Ids \cup {NoId},
            expired : BOOLEAN]
Body == [email : Emails \cup {Unset}, status : Statuses \cup {Unset},
         password : BOOLEAN]

ASSUME NullAssumption ==
    /\ NoRow \notin User \cup Otp \cup Session
    /\ NoId \notin Ids
    /\ Unset \notin Emails \cup Statuses
    /\ RequestIds \cap Old = {}
ASSUME InputAssumption ==
    /\ OldEmail \in [Old -> Emails]
    /\ \A i, j \in Old : OldEmail[i] = OldEmail[j] => i = j
    /\ OldOtps \subseteq {o \in Otp : o.at = 0 /\ ~o.used}
    /\ Bodies \subseteq Body
    /\ Isolation \in {"none", "account"}
    /\ MayFail \in BOOLEAN
    /\ FixedCode \in BOOLEAN

VARIABLES
    users,      \* [Ids -> User or NoRow]
    otps,       \* [Ids -> Otp or NoRow]: auth_otps
    sessions,   \* [Ids -> Session or NoRow]: refresh_tokens, by jti
    now,        \* the INSERTs of codes so far: the order of their createdAt
    requests    \* [RequestIds -> progress of the handler]

vars == <<users, otps, sessions, now, requests>>

Ended == {"done", "refused", "failed"}
PcValues == {"idle", "clear", "insertOtp", "mail", "discard", "findAccount",
             "createUser", "setPassword", "consume", "consumeOtp",
             "reinsertOtp", "revoke", "checkUser", "openSession", "rotate",
             "rotateSession", "reinsertSession", "select", "saveUser",
             "reinsertUser", "delete"} \cup Ended

Request ==
    [pc : PcValues,                      \* the statement to run next
     op : {"none", "register", "confirm", "login", "refresh", "forgot",
           "reset", "create", "update", "updateStatus", "remove"},
     keys : SUBSET Emails,               \* the addresses it concerns
     email : Emails \cup {NoId},         \* the address of its body
     user : Ids \cup {NoId},             \* the account it found or made
     otp : Ids \cup {NoId},              \* the code it was given
     code : Otp \cup {NoRow},            \* the row of that code, as loaded
     session : Ids \cup {NoId},          \* the session it rotates
     want : User \cup {NoRow},           \* the account in memory
     diff : SUBSET (Columns \cup {"user"}), \* columns save() found different
     after : SUBSET RequestIds]          \* resets answered when it arrived

Idle == [pc |-> "idle", op |-> "none", keys |-> {}, email |-> NoId,
         user |-> NoId, otp |-> NoId, code |-> NoRow, session |-> NoId,
         want |-> NoRow, diff |-> {}, after |-> {}]

InFlight(r) == requests[r].pc \notin Ended \cup {"idle"}

\* The handler goes on at pc; once ended it only remembers what it was.
At(q, pc) ==
    IF pc \in Ended
    THEN [Idle EXCEPT !.pc = pc, !.op = q.op, !.user = q.user, !.otp = q.otp,
                      !.session = q.session, !.after = q.after]
    ELSE [q EXCEPT !.pc = pc]

Goto(r, pc) == requests' = [requests EXCEPT ![r] = At(@, pc)]

\* The accounts of an address; the column is UNIQUE.
Account(e) == {u \in Ids : users[u] # NoRow /\ users[u].email = e}

KeysOf(u) == IF users[u] = NoRow THEN {} ELSE {users[u].email}

Live(s) == sessions[s] # NoRow /\ ~sessions[s].revoked /\ ~sessions[s].expired

\* Mutant: codes that have not expired are left in place.
LiveOtpsExpired(e, p) ==
    {o \in Ids : /\ otps[o] # NoRow /\ ~otps[o].used /\ otps[o].expired
                 /\ otps[o].email = e /\ otps[o].purpose = p}

\* The codes of an address that await their use.
LiveOtps(e, p) ==
    {o \in Ids : /\ otps[o] # NoRow /\ ~otps[o].used
                 /\ otps[o].email = e /\ otps[o].purpose = p}

-----------------------------------------------------------------------------
\* Accounts of earlier requests, each with one session, and codes on their
\* way, at most one for an address and a purpose.
Init ==
    /\ users = [i \in Ids |->
          IF i \in Old THEN [email |-> OldEmail[i], password |-> i,
                             status |-> "ACTIF"]
          ELSE NoRow]
    /\ otps \in [Ids -> OldOtps \cup {NoRow}]
    /\ \A r \in RequestIds : otps[r] = NoRow
    /\ \A e \in Emails, p \in Purposes :
          \A i, j \in LiveOtps(e, p) : i = j
    /\ sessions = [i \in Ids |->
          IF i \in Old THEN [user |-> i, revoked |-> FALSE, next |-> NoId,
                             expired |-> FALSE]
          ELSE NoRow]
    /\ now = 0
    /\ requests = [r \in RequestIds |-> Idle]

\* How far requests overlap is the environment's choice: freely, or one at a
\* time for each address.  The code imposes nothing.
MayStart(r, keys) ==
    /\ requests[r].pc = "idle"
    /\ Isolation = "account" =>
          \A q \in RequestIds : InFlight(q) => requests[q].keys \cap keys = {}

\* Request r arrives and its first statement lets it go on as q.
Begin(r, op, keys, q) ==
    /\ op \in Operations
    /\ MayStart(r, keys)
    /\ requests' = [requests EXCEPT ![r] =
          [q EXCEPT !.op = op, !.keys = keys,
                    !.after = {x \in RequestIds :
                        requests[x].op = "reset" /\ requests[x].pc = "done"}]]
    /\ UNCHANGED <<users, otps, sessions, now>>

-----------------------------------------------------------------------------
(***************************************************************************)
(* The first statements of the handlers.  A request the handler refuses    *)
(* there (400, 401, 404) changes nothing and is left out.                  *)
(***************************************************************************)

\* POST /auth/register/request-otp
RequestRegisterOtp(r, e) ==
    /\ Account(e) = {}
    /\ Begin(r, "register", {e}, [Idle EXCEPT !.pc = "clear", !.email = e])

\* POST /auth/forgot-password, for an account that exists
ForgotPassword(r, u) ==
    /\ users[u] # NoRow
    /\ Begin(r, "forgot", KeysOf(u),
             [Idle EXCEPT !.pc = "clear", !.email = users[u].email, !.user = u])

\* What clients have in their hands: the answers, and the mails, of the
\* requests that went well.
Delivered == Old \cup {r \in RequestIds : requests[r].pc = "done"}

\* validateOtp: the newest unused code of the address, not expired, matches.
Validates(o, e, p) ==
    /\ o \in LiveOtps(e, p)
    /\ \A x \in LiveOtps(e, p) : otps[x].at <= otps[o].at
    /\ ~otps[o].expired
    /\ FixedCode \/ o \in Delivered

\* POST /auth/register/confirm-otp; the payload of the code has the password
\* of the request that sent it
ConfirmRegisterOtp(r, e, o) ==
    /\ Validates(o, e, "REGISTER")
    /\ Begin(r, "confirm", {e},
             [Idle EXCEPT !.pc = "findAccount", !.email = e, !.otp = o,
                          !.code = otps[o],
                          !.want = [email |-> e, status |-> "ACTIF",
                                    password |-> o]])

\* POST /auth/reset-password
ResetPassword(r, e, o) ==
    /\ Validates(o, e, "RESET_PASSWORD")
    /\ Begin(r, "reset", {e},
             [Idle EXCEPT !.pc = "findAccount", !.email = e, !.otp = o,
                          !.code = otps[o]])

\* POST /auth/login, with the password the account has at this moment
Login(r, u) ==
    /\ users[u] # NoRow
    /\ users[u].status = "ACTIF"
    /\ Begin(r, "login", KeysOf(u),
             [Idle EXCEPT !.pc = "openSession", !.user = u])

\* POST /auth/refresh, with the token of a session that was answered
Refresh(r, s) ==
    /\ Live(s)
    /\ s \in Delivered
    /\ Begin(r, "refresh", KeysOf(sessions[s].user),
             [Idle EXCEPT !.pc = "checkUser", !.user = sessions[s].user,
                          !.session = s])

OrElse(value, default) == IF value = Unset THEN default ELSE value

\* POST /users
CreateByAdmin(r, e, status) ==
    Begin(r, "create", {e},
          [Idle EXCEPT !.pc = "createUser", !.email = e,
                       !.want = [email |-> e, status |-> OrElse(status, "ACTIF"),
                                 password |-> r]])

\* PATCH /users/:id: the account in memory with the fields of the body
Update(r, u, body) ==
    /\ users[u] # NoRow
    /\ Begin(r, "update", KeysOf(u) \cup ({body.email} \ {Unset}),
             [Idle EXCEPT !.pc = "select", !.user = u,
                 !.want = [email |-> OrElse(body.email, users[u].email),
                           status |-> OrElse(body.status, users[u].status),
                           password |-> IF body.password THEN r
                                        ELSE users[u].password]])

\* PATCH /users/:id/status
UpdateStatus(r, u, status) ==
    /\ users[u] # NoRow
    /\ Begin(r, "updateStatus", KeysOf(u),
             [Idle EXCEPT !.pc = "select", !.user = u,
                          !.want = [users[u] EXCEPT !.status = status]])

\* DELETE /users/:id
Remove(r, u) ==
    /\ users[u] # NoRow
    /\ Begin(r, "remove", KeysOf(u), [Idle EXCEPT !.pc = "delete", !.user = u])

-----------------------------------------------------------------------------
\* The statement request r runs next violates a constraint of the schema: a
\* foreign key to users, a primary key, or the UNIQUE email.
Violates(r) ==
    LET q == requests[r]
        gone(u) == u # NoId /\ users[u] = NoRow
    IN  \/ q.pc \in {"insertOtp", "openSession"} /\ gone(q.user)
        \/ q.pc = "createUser" /\ Account(q.email) # {}
        \/ q.pc = "consumeOtp" /\ "user" \in q.diff /\ otps[q.otp] # NoRow
              /\ gone(q.code.user)
        \/ q.pc = "reinsertOtp" /\ (otps[q.otp] # NoRow \/ gone(q.code.user))
        \/ q.pc = "reinsertSession" /\ (sessions[q.session] # NoRow \/ gone(q.user))
        \/ q.pc = "saveUser" /\ "email" \in q.diff /\ users[q.user] # NoRow
              /\ ~(Account(q.want.email) \subseteq {q.user})
        \/ q.pc = "reinsertUser" /\ (users[q.user] # NoRow \/ Account(q.want.email) # {})

\* Request r is about to run the statement pc, which the schema allows.
Runs(r, pc) == requests[r].pc = pc /\ ~Violates(r)

Purpose(r) == IF requests[r].op \in {"register", "confirm"}
              THEN "REGISTER" ELSE "RESET_PASSWORD"

(***************************************************************************)
(* createOtp: DELETE, INSERT, mail, and the DELETE after a failed mail.    *)
(***************************************************************************)
ClearOtps(r) ==
    /\ Runs(r, "clear")
    /\ otps' = [o \in Ids |-> IF o \in LiveOtps(requests[r].email, Purpose(r))
                              THEN NoRow ELSE otps[o]]
    /\ Goto(r, "insertOtp")
    /\ UNCHANGED <<users, sessions, now>>

InsertOtp(r) ==
    /\ Runs(r, "insertOtp")
    /\ now' = now + 1
    /\ otps' = [otps EXCEPT ![r] =
          [email |-> requests[r].email, purpose |-> Purpose(r),
           user |-> requests[r].user, at |-> now', used |-> FALSE,
           expired |-> FALSE]]
    /\ Goto(r, "mail")
    /\ UNCHANGED <<users, sessions>>

SendOtpEmail(r) ==
    /\ Runs(r, "mail")
    /\ Goto(r, "done") \/ Goto(r, "discard")
    /\ UNCHANGED <<users, otps, sessions, now>>

\* forgotPassword suppresses the failure, requestRegisterOtp answers 503.
DiscardOtp(r) ==
    /\ Runs(r, "discard")
    /\ otps' = [otps EXCEPT ![r] = NoRow]
    /\ Goto(r, IF requests[r].op = "forgot" THEN "done" ELSE "refused")
    /\ UNCHANGED <<users, sessions, now>>

(***************************************************************************)
(* confirmRegisterOtp and resetPassword.                                   *)
(***************************************************************************)

\* findByEmail: confirm wants no account, reset wants one.
FindAccount(r) ==
    LET found == Account(requests[r].email)
    IN  /\ Runs(r, "findAccount")
        /\ \/ /\ requests[r].op = "confirm"
              /\ Goto(r, IF found = {} THEN "createUser" ELSE "refused")
           \/ /\ requests[r].op = "reset" /\ found = {}
              /\ Goto(r, "refused")
           \/ /\ requests[r].op = "reset"
              /\ \E u \in found : requests' = [requests EXCEPT ![r] =
                    [@ EXCEPT !.pc = "setPassword", !.user = u]]
        /\ UNCHANGED <<users, otps, sessions, now>>

\* save() of the account of createUser or create: an INSERT
CreateUser(r) ==
    LET q == requests[r]
    IN  /\ Runs(r, "createUser")
        /\ users' = [users EXCEPT ![r] = q.want]
        /\ requests' = [requests EXCEPT ![r] =
              At([q EXCEPT !.user = r],
                 IF q.op = "confirm" THEN "consume" ELSE "done")]
        /\ UNCHANGED <<otps, sessions, now>>

\* Mutant: the hash of the code is stored, not the one of the new password.
SetPasswordOtp(r) ==
    LET q == requests[r]
    IN  /\ Runs(r, "setPassword")
        /\ users' = [users EXCEPT ![q.user] =
              IF @ = NoRow THEN NoRow ELSE [@ EXCEPT !.password = q.otp]]
        /\ Goto(r, "consume")
        /\ UNCHANGED <<otps, sessions, now>>

\* updatePasswordHash: an UPDATE of that column alone
SetPassword(r) ==
    /\ Runs(r, "setPassword")
    /\ users' = [users EXCEPT ![requests[r].user] =
          IF @ = NoRow THEN NoRow ELSE [@ EXCEPT !.password = r]]
    /\ Goto(r, "consume")
    /\ UNCHANGED <<otps, sessions, now>>

\* save() of the code, the SELECT: consumedAt differs, and the user when the
\* removal of the account has set it to NULL
ConsumeSelect(r) ==
    LET q   == requests[r]
        row == otps[q.otp]
    IN  /\ Runs(r, "consume")
        /\ requests' = [requests EXCEPT ![r] =
              IF row = NoRow THEN [q EXCEPT !.pc = "reinsertOtp"]
              ELSE [q EXCEPT !.pc = "consumeOtp",
                             !.diff = {c \in {"user"} : q.code[c] # row[c]}]]
        /\ UNCHANGED <<users, otps, sessions, now>>

AfterConsume(r) == IF requests[r].op = "confirm" THEN "openSession" ELSE "revoke"

\* Mutant: consumedAt is not written.
ConsumeOtpLost(r) ==
    /\ Runs(r, "consumeOtp")
    /\ Goto(r, AfterConsume(r))
    /\ UNCHANGED <<users, otps, sessions, now>>

\* save() of the code, the UPDATE of those columns
ConsumeOtp(r) ==
    LET q   == requests[r]
        row == otps[q.otp]
    IN  /\ Runs(r, "consumeOtp")
        /\ otps' = [otps EXCEPT ![q.otp] =
              IF row = NoRow THEN NoRow
              ELSE [row EXCEPT !.used = TRUE,
                       !.user = IF "user" \in q.diff THEN q.code.user ELSE row.user]]
        /\ Goto(r, AfterConsume(r))
        /\ UNCHANGED <<users, sessions, now>>

\* save() of a code whose row is gone: an INSERT
ReinsertOtp(r) ==
    /\ Runs(r, "reinsertOtp")
    /\ otps' = [otps EXCEPT ![requests[r].otp] =
          [requests[r].code EXCEPT !.used = TRUE]]
    /\ Goto(r, AfterConsume(r))
    /\ UNCHANGED <<users, sessions, now>>

\* Mutant: the UPDATE has lost its `userId' condition.
RevokeSessionsAll(r) ==
    /\ Runs(r, "revoke")
    /\ sessions' = [s \in Ids |->
          IF sessions[s] = NoRow THEN NoRow
          ELSE [sessions[s] EXCEPT !.revoked = TRUE]]
    /\ Goto(r, "done")
    /\ UNCHANGED <<users, otps, now>>

\* Mutant: the condition `revokedAt IS NULL' of the UPDATE is inverted.
RevokeSessionsRevoked(r) ==
    /\ Runs(r, "revoke")
    /\ sessions' = [s \in Ids |->
          IF sessions[s] # NoRow /\ sessions[s].revoked
             /\ sessions[s].user = requests[r].user
          THEN [sessions[s] EXCEPT !.revoked = TRUE] ELSE sessions[s]]
    /\ Goto(r, "done")
    /\ UNCHANGED <<users, otps, now>>

\* resetPassword: UPDATE of every unrevoked session of the account
RevokeSessions(r) ==
    /\ Runs(r, "revoke")
    /\ sessions' = [s \in Ids |->
          IF sessions[s] # NoRow /\ sessions[s].user = requests[r].user
          THEN [sessions[s] EXCEPT !.revoked = TRUE] ELSE sessions[s]]
    /\ Goto(r, "done")
    /\ UNCHANGED <<users, otps, now>>

(***************************************************************************)
(* refresh and issueTokens.                                                *)
(***************************************************************************)

\* Mutant: the old session is rotated before the new one is stored.
CheckUserThenRotate(r) ==
    /\ Runs(r, "checkUser")
    /\ Goto(r, IF users[requests[r].user] # NoRow
                  /\ users[requests[r].user].status = "ACTIF"
               THEN "rotate" ELSE "refused")
    /\ UNCHANGED <<users, otps, sessions, now>>

\* Mutant: the refresh of a suspended account waits for its reactivation.
CheckUserWaits(r) ==
    /\ Runs(r, "checkUser")
    /\ Goto(r, IF users[requests[r].user] # NoRow
                  /\ users[requests[r].user].status = "ACTIF"
               THEN "openSession" ELSE "checkUser")
    /\ UNCHANGED <<users, otps, sessions, now>>

\* refresh: findById, and the account must be active
CheckUser(r) ==
    /\ Runs(r, "checkUser")
    /\ Goto(r, IF users[requests[r].user] # NoRow
                  /\ users[requests[r].user].status = "ACTIF"
               THEN "openSession" ELSE "refused")
    /\ UNCHANGED <<users, otps, sessions, now>>

\* Mutant: replacedByJti is left undefined, not null.
NewSessionSelf(r) == [user |-> requests[r].user, revoked |-> FALSE,
                      next |-> Unset, expired |-> FALSE]

NewSession(r) == [user |-> requests[r].user, revoked |-> FALSE,
                  next |-> NoId, expired |-> FALSE]

\* issueTokens: INSERT of the session
OpenSession(r) ==
    /\ Runs(r, "openSession")
    /\ sessions' = [sessions EXCEPT ![r] = NewSession(r)]
    /\ Goto(r, IF requests[r].op = "refresh" THEN "rotate" ELSE "done")
    /\ UNCHANGED <<users, otps, now>>

\* save() of the rotated session, the SELECT
RotateSelect(r) ==
    /\ Runs(r, "rotate")
    /\ Goto(r, IF sessions[requests[r].session] = NoRow
               THEN "reinsertSession" ELSE "rotateSession")
    /\ UNCHANGED <<users, otps, sessions, now>>

\* Mutant: only replacedByJti is written, revokedAt as it was loaded.
RotateSessionStale(r) ==
    LET q == requests[r]
    IN  /\ Runs(r, "rotateSession")
        /\ sessions' = [sessions EXCEPT ![q.session] =
              IF @ = NoRow THEN NoRow
              ELSE [@ EXCEPT !.revoked = FALSE, !.next = r]]
        /\ Goto(r, "done")
        /\ UNCHANGED <<users, otps, now>>

\* save() of the rotated session, the UPDATE of revokedAt and replacedByJti
RotateSession(r) ==
    /\ Runs(r, "rotateSession")
    /\ sessions' = [sessions EXCEPT ![requests[r].session] =
          IF @ = NoRow THEN NoRow ELSE [@ EXCEPT !.revoked = TRUE, !.next = r]]
    /\ Goto(r, "done")
    /\ UNCHANGED <<users, otps, now>>

\* save() of a session whose row is gone: an INSERT
ReinsertSession(r) ==
    /\ Runs(r, "reinsertSession")
    /\ sessions' = [sessions EXCEPT ![requests[r].session] =
          [user |-> requests[r].user, revoked |-> TRUE, next |-> r,
           expired |-> FALSE]]
    /\ Goto(r, "done")
    /\ UNCHANGED <<users, otps, now>>

(***************************************************************************)
(* update, updateStatus and remove of UsersService.                        *)
(***************************************************************************)

\* save() of the account, the SELECT: which columns differ
SaveSelect(r) ==
    LET q   == requests[r]
        row == users[q.user]
    IN  /\ Runs(r, "select")
        /\ requests' = [requests EXCEPT ![r] =
              IF row = NoRow THEN [q EXCEPT !.pc = "reinsertUser"]
              ELSE [q EXCEPT !.pc = "saveUser",
                             !.diff = {c \in Columns : q.want[c] # row[c]}]]
        /\ UNCHANGED <<users, otps, sessions, now>>

\* The row with the columns in cols taken from want.
Merge(row, want, cols) ==
    [email    |-> IF "email"    \in cols THEN want.email    ELSE row.email,
     password |-> IF "password" \in cols THEN want.password ELSE row.password,
     status   |-> IF "status"   \in cols THEN want.status   ELSE row.status]

\* save() of the account, the UPDATE of those columns
SaveUser(r) ==
    LET q == requests[r]
    IN  /\ Runs(r, "saveUser")
        /\ users' = [users EXCEPT ![q.user] =
              IF @ = NoRow THEN NoRow ELSE Merge(@, q.want, q.diff)]
        /\ Goto(r, "done")
        /\ UNCHANGED <<otps, sessions, now>>

\* save() of an account whose row is gone: an INSERT
ReinsertUser(r) ==
    /\ Runs(r, "reinsertUser")
    /\ users' = [users EXCEPT ![requests[r].user] = requests[r].want]
    /\ Goto(r, "done")
    /\ UNCHANGED <<otps, sessions, now>>

\* remove: the DELETE; sessions CASCADE, codes SET NULL
DeleteUser(r) ==
    LET u == requests[r].user
    IN  /\ Runs(r, "delete")
        /\ users' = [users EXCEPT ![u] = NoRow]
        /\ sessions' = [s \in Ids |->
              IF sessions[s] # NoRow /\ sessions[s].user = u
              THEN NoRow ELSE sessions[s]]
        /\ otps' = [o \in Ids |->
              IF otps[o] # NoRow /\ otps[o].user = u
              THEN [otps[o] EXCEPT !.user = NoId] ELSE otps[o]]
        /\ Goto(r, "done")
        /\ UNCHANGED now

\* save() of an account loaded with its roles finds one that was added since
\* (by IamService, in a module of its own): the link is orphaned, and its
\* user_id refuses the NULL.
MayOrphanRole(r) ==
    requests[r].pc = "saveUser" /\ users[requests[r].user] # NoRow

\* A statement fails and the handler ends with a 500 (a 401 in refresh,
\* before issueTokens) or, under MayFail, with the process.  What it wrote
\* before stays.
Fail(r) ==
    /\ InFlight(r)
    /\ Violates(r) \/ MayOrphanRole(r) \/ MayFail
    /\ Goto(r, "failed")
    /\ UNCHANGED <<users, otps, sessions, now>>

-----------------------------------------------------------------------------
\* expiresAt passes.
ExpireOtp(o) ==
    /\ "expiry" \in Operations
    /\ otps[o] # NoRow /\ ~otps[o].expired
    /\ otps' = [otps EXCEPT ![o].expired = TRUE]
    /\ UNCHANGED <<users, sessions, now, requests>>

ExpireSession(s) ==
    /\ "expiry" \in Operations
    /\ sessions[s] # NoRow /\ ~sessions[s].expired
    /\ sessions' = [sessions EXCEPT ![s].expired = TRUE]
    /\ UNCHANGED <<users, otps, now, requests>>

\* No request in flight and none coming.
Quiet == (\A r \in RequestIds : ~InFlight(r)) /\ UNCHANGED vars

Start(r) ==
    \/ \E e \in Emails : RequestRegisterOtp(r, e)
    \/ \E e \in Emails, status \in Statuses \cup {Unset} :
          CreateByAdmin(r, e, status)
    \/ \E e \in Emails, o \in Ids :
          ConfirmRegisterOtp(r, e, o) \/ ResetPassword(r, e, o)
    \/ \E u \in Ids : ForgotPassword(r, u) \/ Login(r, u) \/ Remove(r, u)
    \/ \E s \in Ids : Refresh(r, s)
    \/ \E u \in Ids, body \in Bodies : Update(r, u, body)
    \/ \E u \in Ids, status \in Statuses : UpdateStatus(r, u, status)

\* The statement of request r that comes next.
Step(r) ==
    \/ ClearOtps(r) \/ InsertOtp(r) \/ SendOtpEmail(r) \/ DiscardOtp(r)
    \/ FindAccount(r) \/ CreateUser(r) \/ SetPassword(r)
    \/ ConsumeSelect(r) \/ ConsumeOtp(r) \/ ReinsertOtp(r) \/ RevokeSessions(r)
    \/ CheckUser(r) \/ OpenSession(r)
    \/ RotateSelect(r) \/ RotateSession(r) \/ ReinsertSession(r)
    \/ SaveSelect(r) \/ SaveUser(r) \/ ReinsertUser(r) \/ DeleteUser(r)
    \/ Fail(r)

Expiry == \E i \in Ids : ExpireOtp(i) \/ ExpireSession(i)

Next == (\E r \in RequestIds : Start(r) \/ Step(r)) \/ Expiry \/ Quiet

Spec == Init /\ [][Next]_vars

\* Node's event loop, PostgreSQL and nodemailer bring every await to an end.
FairSpec == Spec /\ \A r \in RequestIds : WF_vars(Step(r))

-----------------------------------------------------------------------------
TypeOK ==
    /\ users \in [Ids -> User \cup {NoRow}]
    /\ otps \in [Ids -> Otp \cup {NoRow}]
    /\ sessions \in [Ids -> Session \cup {NoRow}]
    /\ now \in Nat
    /\ requests \in [RequestIds -> Request]

(***************************************************************************)
(* A refresh token is good for one refresh (test/app.e2e-spec.ts:215,      *)
(* "/auth/refresh (POST) should rotate refresh token"): no two refreshes   *)
(* of one session are both answered with tokens.                           *)
(***************************************************************************)
RefreshedOnce ==
    \A q, r \in RequestIds :
        /\ requests[q].op = "refresh" /\ requests[q].pc = "done"
        /\ requests[r].op = "refresh" /\ requests[r].pc = "done"
        /\ requests[q].session = requests[r].session
        => q = r

(***************************************************************************)
(* A password reset ends the sessions of its account: once it is answered  *)
(* (auth.service.ts:290, "Password updated successfully"), the sessions    *)
(* of the account that are still good were opened by requests that arrived *)
(* after that answer.                                                      *)
(***************************************************************************)
ResetEndsSessions ==
    \A r \in RequestIds :
        requests[r].op = "reset" /\ requests[r].pc = "done" =>
            \A s \in Ids :
                Live(s) /\ sessions[s].user = requests[r].user =>
                    s \in RequestIds /\ r \in requests[s].after

(***************************************************************************)
(* A code opens one door: no two confirmations or resets succeed with the  *)
(* same code, although it is checked first and marked used later.          *)
(***************************************************************************)
OtpUsedOnce ==
    \A q, r \in RequestIds :
        /\ requests[q].pc = "done" /\ requests[q].otp # NoId
        /\ requests[r].pc = "done" /\ requests[r].otp = requests[q].otp
        => q = r

(***************************************************************************)
(* An address never has two codes of one purpose to use: createOtp clears  *)
(* the earlier ones before it inserts, and takes its own back when the     *)
(* mail fails.                                                             *)
(***************************************************************************)
OneLiveOtp ==
    \A e \in Emails, p \in Purposes : \A i, j \in LiveOtps(e, p) : i = j

(***************************************************************************)
(* A password is only replaced by the one a request still in progress has  *)
(* chosen: no save() of an account loaded earlier puts an old one back.    *)
(***************************************************************************)
PasswordKept ==
    [][\A u \in Ids :
          LET old == users[u]
              new == users'[u]
          IN  old # NoRow /\ new # NoRow /\ new.password # old.password =>
                 new.password \in RequestIds /\ InFlight(new.password)]_vars

(***************************************************************************)
(* A client that rotates its token is not stranded: the session that       *)
(* replaces another one is stored, for the same account, as long as the    *)
(* replaced one is (issueTokens inserts before it revokes).  Accounts that *)
(* were removed are left out: a save() of one brings it back, and then the *)
(* rotated session, without the new one.                                   *)
(***************************************************************************)
RotationChain ==
    \A s \in Ids :
        /\ sessions[s] # NoRow /\ sessions[s].next # NoId
        /\ \A r \in RequestIds :
              ~(requests[r].op = "remove" /\ requests[r].user = sessions[s].user)
        =>
            LET t == sessions[s].next
            IN  sessions[t] # NoRow /\ sessions[t].user = sessions[s].user

(***************************************************************************)
(* Nobody is logged out without cause: a revoked session was rotated by a  *)
(* refresh of it, or its account's password was reset.                     *)
(***************************************************************************)
RevokedForCause ==
    \A s \in Ids :
        sessions[s] # NoRow /\ sessions[s].revoked /\ sessions[s].next = NoId =>
            \E r \in RequestIds :
                /\ requests[r].op = "reset" /\ requests[r].pc = "done"
                /\ requests[r].user = sessions[s].user

(***************************************************************************)
(* Revocation is final: no save() of a session loaded earlier, and no      *)
(* rotation racing a reset, makes a revoked session good again.            *)
(***************************************************************************)
RevocationFinal ==
    [][\A s \in Ids :
          sessions[s] # NoRow /\ sessions[s].revoked /\ sessions'[s] # NoRow =>
              sessions'[s].revoked]_vars

(***************************************************************************)
(* Every request gets an answer: no handler waits for another one.         *)
(***************************************************************************)
EveryRequestEnds ==
    \A r \in RequestIds : InFlight(r) ~> requests[r].pc \in Ended

=============================================================================
