------------------------ MODULE SessionsAccountProofs ------------------------
(***************************************************************************)
(* Proofs about Sessions when the requests of one account, and of the      *)
(* addresses it has or gets, come one at a time (Isolation = "account").   *)
(* Requests of different accounts still overlap, and any statement may     *)
(* fail.                                                                   *)
(***************************************************************************)
EXTENDS SessionsProofs

(***************************************************************************)
(* What a statement of request r does to accounts and to codes.            *)
(***************************************************************************)
MakesUser(r, u) ==
    /\ requests[r].pc = "createUser" /\ u = r
    /\ users'[u] # NoRow /\ users'[u].email = requests[r].email
SetsPassword(r, u) ==
    /\ requests[r].pc = "setPassword" /\ u = requests[r].user /\ users[u] # NoRow
    /\ users'[u] = [users[u] EXCEPT !.password = r]
SavesUser(r, u) ==
    /\ requests[r].pc = "saveUser" /\ u = requests[r].user /\ users[u] # NoRow
    /\ users'[u] = Merge(users[u], requests[r].want, requests[r].diff)
ReinsertsUser(r, u) ==
    /\ requests[r].pc = "reinsertUser" /\ u = requests[r].user /\ users[u] = NoRow
DeletesUser(r, u) ==
    /\ requests[r].pc = "delete" /\ u = requests[r].user /\ users'[u] = NoRow

LEMMA UserWrites ==
    ASSUME TypeInv, NEW r \in RequestIds, Step(r), NEW u \in Ids
    PROVE  \/ users'[u] = users[u]
           \/ MakesUser(r, u) \/ SetsPassword(r, u) \/ SavesUser(r, u)
           \/ ReinsertsUser(r, u) \/ DeletesUser(r, u)
<1> DEFINE q == requests[r]
           Good == \/ users'[u] = users[u]
                   \/ MakesUser(r, u) \/ SetsPassword(r, u) \/ SavesUser(r, u)
                   \/ ReinsertsUser(r, u) \/ DeletesUser(r, u)
<1> SUFFICES Good
  OBVIOUS
<1>0. r \in Ids /\ users \in [Ids -> User \cup {NoRow}] /\ Shape(q)
  BY DEF TypeInv, TypeOK, Ids
<1> USE DEF Runs
<1>1. CASE UNCHANGED users
  BY <1>1
<1>2. CASE CreateUser(r)
  <2>1. users' = [users EXCEPT ![r] = q.want] /\ q.pc = "createUser"
    BY <1>2 DEF CreateUser
  <2>2. q.want \in User /\ q.want.email = q.email
    BY <1>0, <2>1 DEF Shape, Creating
  <2> QED BY <1>0, <2>1, <2>2, NullAssumption DEF MakesUser
<1>3. CASE SetPassword(r)
  <2>1. q.pc = "setPassword" /\ users' = [users EXCEPT ![q.user] =
          IF @ = NoRow THEN NoRow ELSE [@ EXCEPT !.password = r]]
    BY <1>3 DEF SetPassword
  <2> QED BY <1>0, <2>1 DEF SetsPassword
<1>4. CASE SaveUser(r)
  <2>1. q.pc = "saveUser" /\ users' = [users EXCEPT ![q.user] =
              IF @ = NoRow THEN NoRow ELSE Merge(@, q.want, q.diff)]
    BY <1>4 DEF SaveUser
  <2> QED BY <1>0, <2>1 DEF SavesUser
<1>5. CASE ReinsertUser(r)
  <2>1. q.pc = "reinsertUser" /\ users' = [users EXCEPT ![q.user] = q.want]
    BY <1>5 DEF ReinsertUser
  <2>2. users[q.user] = NoRow
    BY <1>5, <2>1 DEF ReinsertUser, Violates
  <2> QED BY <1>0, <2>1, <2>2 DEF ReinsertsUser
<1>6. CASE DeleteUser(r)
  <2>1. q.pc = "delete" /\ users' = [users EXCEPT ![q.user] = NoRow]
    BY <1>6 DEF DeleteUser
  <2> QED BY <1>0, <2>1 DEF DeletesUser
<1> HIDE DEF Good
<1> QED
  BY <1>1, <1>2, <1>3, <1>4, <1>5, <1>6
     DEF Step, ClearOtps, InsertOtp, SendOtpEmail, DiscardOtp, FindAccount, OpenSession,
         ConsumeSelect, ConsumeOtp, ReinsertOtp, CheckUser, RotateSelect, RotateSession,
         ReinsertSession, RevokeSessions, SaveSelect, Fail

KeepsOtp(o) ==
    /\ otps[o] # NoRow
    /\ otps'[o].email = otps[o].email /\ otps'[o].purpose = otps[o].purpose
    /\ otps[o].used => otps'[o].used
InsertsOtp(r, o) ==
    /\ requests[r].pc = "insertOtp" /\ requests'[r].pc = "mail" /\ o = r
    /\ otps'[o].email = requests[r].email /\ otps'[o].purpose = Purpose(r)
ReinsertsOtp(r, o) ==
    /\ requests[r].pc = "reinsertOtp" /\ o = requests[r].otp
    /\ otps'[o].email = requests[r].code.email /\ otps'[o].used

LEMMA OtpWrites ==
    ASSUME TypeInv, NEW r \in RequestIds, Step(r), NEW o \in Ids, otps'[o] # NoRow
    PROVE  KeepsOtp(o) \/ InsertsOtp(r, o) \/ ReinsertsOtp(r, o)
<1> DEFINE q == requests[r]
           Good == KeepsOtp(o) \/ InsertsOtp(r, o) \/ ReinsertsOtp(r, o)
<1> SUFFICES Good
  OBVIOUS
<1>0. r \in Ids /\ otps \in [Ids -> Otp \cup {NoRow}] /\ Shape(q)
  BY DEF TypeInv, TypeOK, Ids
<1> USE DEF Runs
<1>1. CASE UNCHANGED otps
  BY <1>1 DEF KeepsOtp
<1>2. CASE ClearOtps(r)
  BY <1>2 DEF ClearOtps, KeepsOtp
<1>3. CASE InsertOtp(r)
  <2> DEFINE row == [email |-> q.email, purpose |-> Purpose(r), user |-> q.user,
                     at |-> now', used |-> FALSE, expired |-> FALSE]
  <2>1. q.pc = "insertOtp" /\ otps' = [otps EXCEPT ![r] = row]
    BY <1>3 DEF InsertOtp
  <2>2. requests'[r].pc = "mail"
    BY <1>3, GotoEffect DEF InsertOtp
  <2>3. row.email = q.email /\ row.purpose = Purpose(r)
    OBVIOUS
  <2> HIDE DEF row
  <2> QED BY <1>0, <2>1, <2>2, <2>3 DEF InsertsOtp, KeepsOtp
<1>4. CASE DiscardOtp(r)
  BY <1>0, <1>4 DEF DiscardOtp, KeepsOtp
<1>5. CASE ConsumeOtp(r)
  <2> DEFINE u == IF "user" \in q.diff THEN q.code.user ELSE otps[q.otp].user
  <2>1. otps' = [otps EXCEPT ![q.otp] =
          IF otps[q.otp] = NoRow THEN NoRow
          ELSE [otps[q.otp] EXCEPT !.used = TRUE, !.user = u]]
    BY <1>5 DEF ConsumeOtp
  <2> HIDE DEF u
  <2>2. CASE o = q.otp
    <3>1. otps[o] \in Otp /\ otps[o] # NoRow
          /\ otps'[o] = [otps[o] EXCEPT !.used = TRUE, !.user = u]
      BY <1>0, <2>1, <2>2
    <3> QED BY <3>1 DEF KeepsOtp, Otp
  <2>3. CASE o # q.otp
    BY <1>0, <2>1, <2>3 DEF KeepsOtp
  <2> QED BY <2>2, <2>3
<1>6. CASE ReinsertOtp(r)
  <2>1. q.pc = "reinsertOtp"
        /\ otps' = [otps EXCEPT ![q.otp] = [q.code EXCEPT !.used = TRUE]]
    BY <1>6 DEF ReinsertOtp
  <2>2. q.code \in Otp
    BY <1>0, <2>1 DEF Shape, Phase, Consuming, Ended
  <2>3. CASE o = q.otp
    <3>1. otps'[o] = [q.code EXCEPT !.used = TRUE]
      BY <1>0, <2>1, <2>3
    <3>2. otps'[o].email = q.code.email /\ otps'[o].used
      BY <2>2, <3>1 DEF Otp
    <3> QED BY <2>1, <2>3, <3>2 DEF ReinsertsOtp
  <2>4. CASE o # q.otp
    BY <1>0, <2>1, <2>4 DEF KeepsOtp
  <2> QED BY <2>3, <2>4
<1>7. CASE DeleteUser(r)
  <2>1. otps'[o] = IF otps[o] # NoRow /\ otps[o].user = q.user
                   THEN [otps[o] EXCEPT !.user = NoId] ELSE otps[o]
    BY <1>7 DEF DeleteUser
  <2>2. otps[o] # NoRow /\ otps[o] \in Otp
    BY <1>0, <2>1
  <2>3. /\ otps'[o].email = otps[o].email /\ otps'[o].purpose = otps[o].purpose
        /\ otps'[o].used = otps[o].used
    BY <2>1, <2>2 DEF Otp
  <2> QED BY <2>2, <2>3 DEF KeepsOtp
<1> HIDE DEF Good
<1> QED
  BY <1>1, <1>2, <1>3, <1>4, <1>5, <1>6, <1>7
     DEF Step, SendOtpEmail, FindAccount, CreateUser, SetPassword, OpenSession,
         ConsumeSelect, CheckUser, RotateSelect, RotateSession, ReinsertSession,
         RevokeSessions, SaveSelect, SaveUser, ReinsertUser, Fail

Spent(o) == otps[o] = NoRow \/ otps[o].used
SpentNext(o) == otps'[o] = NoRow \/ otps'[o].used

\* The code is spent once the request goes on.
LEMMA ConsumesOtp ==
    ASSUME TypeInv, NEW r \in RequestIds, Step(r), requests[r].pc \in Consuming,
           requests'[r].pc \in {"openSession", "revoke"}
    PROVE  SpentNext(requests[r].otp)
<1> DEFINE q == requests[r]
<1>0. otps \in [Ids -> Otp \cup {NoRow}] /\ Shape(q) /\ q.otp \in Ids
      /\ requests'[r].otp = q.otp
  BY StepEffect DEF TypeInv, TypeOK, Shape, Phase, Stepped
<1>1. ConsumeOtp(r) \/ ReinsertOtp(r)
  <2>1. ~ConsumeSelect(r) /\ ~Fail(r)
    BY GotoEffect, SelectsCode DEF Fail
  <2> QED BY <2>1
          DEF Step, Runs, Consuming, ClearOtps, InsertOtp, SendOtpEmail, DiscardOtp,
              FindAccount, CreateUser, SetPassword, OpenSession, CheckUser,
              RotateSelect, RotateSession, ReinsertSession, RevokeSessions, SaveSelect,
              SaveUser, ReinsertUser, DeleteUser
<1>2. CASE ConsumeOtp(r)
  <2> DEFINE u == IF "user" \in q.diff THEN q.code.user ELSE otps[q.otp].user
  <2>1. otps'[q.otp] = IF otps[q.otp] = NoRow THEN NoRow
                       ELSE [otps[q.otp] EXCEPT !.used = TRUE, !.user = u]
    BY <1>0, <1>2 DEF ConsumeOtp
  <2> HIDE DEF u
  <2>2. otps'[q.otp] = NoRow \/ otps'[q.otp].used
    BY <1>0, <2>1 DEF Otp
  <2> QED BY <2>2 DEF SpentNext
<1>3. CASE ReinsertOtp(r)
  <2>1. q.code \in Otp
    BY <1>0, <1>3 DEF ReinsertOtp, Runs, Shape, Phase, Consuming, Ended
  <2>2. otps'[q.otp] = [q.code EXCEPT !.used = TRUE]
    BY <1>0, <1>3 DEF ReinsertOtp
  <2>3. otps'[q.otp].used
    BY <2>1, <2>2 DEF Otp
  <2> QED BY <2>3 DEF SpentNext
<1> QED BY <1>1, <1>2, <1>3

LEMMA ClearsOtps ==
    ASSUME TypeInv, NEW r \in RequestIds, Step(r), requests'[r].pc = "insertOtp"
    PROVE  \A o \in Ids :
              ~(/\ otps'[o] # NoRow /\ ~otps'[o].used
                /\ otps'[o].email = requests[r].email /\ otps'[o].purpose = Purpose(r))
<1>1. requests[r].pc = "clear"
  BY StepEffect DEF Stepped, Follows, Moves, Ended
<1>2. ~Fail(r)
  BY GotoEffect DEF Fail
<1>3. ClearOtps(r)
  BY <1>1, <1>2
     DEF Step, Runs, InsertOtp, SendOtpEmail, DiscardOtp, FindAccount, CreateUser,
         SetPassword, OpenSession, ConsumeSelect, ConsumeOtp, ReinsertOtp, CheckUser,
         RotateSelect, RotateSession, ReinsertSession, RevokeSessions, SaveSelect,
         SaveUser, ReinsertUser, DeleteUser
<1> QED BY <1>3 DEF ClearOtps, LiveOtps

(***************************************************************************)
(* How the requests that use a code or rotate a session come to an end.    *)
(***************************************************************************)
LEMMA CodeDone ==
    ASSUME TypeInv, NEW r \in RequestIds, Step(r), requests'[r].pc = "done",
           requests[r].op \in {"confirm", "reset"}
    PROVE  \/ requests[r].pc = "openSession" /\ requests[r].op = "confirm"
           \/ RevokeSessions(r)
<1> DEFINE q == requests[r]
           Good == \/ q.pc = "openSession" /\ q.op = "confirm"
                   \/ RevokeSessions(r)
<1> SUFFICES Good
  OBVIOUS
<1> USE DEF Runs
<1>0. Phase(q)
  BY DEF TypeInv, Shape
<1>1. CASE OpenSession(r)
  BY <1>0, <1>1 DEF OpenSession, Phase
<1>2. ~ClearOtps(r) /\ ~InsertOtp(r) /\ ~FindAccount(r) /\ ~SetPassword(r)
      /\ ~ConsumeSelect(r) /\ ~ConsumeOtp(r) /\ ~ReinsertOtp(r) /\ ~Fail(r)
  <2>1. \A pc : pc # "done" => ~Goto(r, pc)
    BY GotoEffect
  <2>2. ~FindAccount(r)
    <3>1. FindAccount(r) => q.pc = "findAccount"
      BY DEF FindAccount
    <3>2. FindAccount(r) /\ ~(\E u \in Ids : requests' = [requests EXCEPT ![r] =
                    [@ EXCEPT !.pc = "setPassword", !.user = u]])
             => \E pc \in {"createUser", "refused"} : Goto(r, pc)
      BY DEF FindAccount, Account
    <3>3. ASSUME NEW u \in Ids, requests' = [requests EXCEPT ![r] =
                    [@ EXCEPT !.pc = "setPassword", !.user = u]]
          PROVE  FALSE
      <4>1. q \in Request
        BY DEF TypeInv, TypeOK
      <4>2. requests'[r] = [q EXCEPT !.pc = "setPassword", !.user = u]
        BY <3>3, SetEffect DEF TypeInv, TypeOK
      <4> QED BY <4>1, <4>2 DEF Request
    <3> QED BY <2>1, <3>2, <3>3
  <2>3. ~ClearOtps(r) /\ ~InsertOtp(r) /\ ~SetPassword(r) /\ ~ConsumeSelect(r) /\ ~Fail(r)
    BY <2>1, SelectsCode DEF ClearOtps, InsertOtp, SetPassword, Fail
  <2>4. ~ConsumeOtp(r) /\ ~ReinsertOtp(r)
    BY <2>1 DEF ConsumeOtp, ReinsertOtp, AfterConsume
  <2> QED BY <2>2, <2>3, <2>4
<1>3. ~CreateUser(r)
  <2>1. ASSUME CreateUser(r) PROVE FALSE
    <3>1. q.op = "confirm"
      BY <1>0, <2>1 DEF CreateUser, Phase
    <3>2. requests'[r] = [[q EXCEPT !.user = r] EXCEPT !.pc = "consume"]
      BY <2>1, <3>1, SetEffect DEF CreateUser, At, Ended
    <3>3. q \in Request
      BY DEF TypeInv, TypeOK
    <3> QED BY <3>2, <3>3 DEF Request
  <2> QED BY <2>1
<1>4. ~SaveSelect(r) /\ ~SaveUser(r) /\ ~ReinsertUser(r)
  BY <1>0 DEF SaveSelect, SaveUser, ReinsertUser, Phase, Saving
<1>5. ~SendOtpEmail(r) /\ ~DiscardOtp(r)
  BY <1>0 DEF SendOtpEmail, DiscardOtp, Phase, Sending
<1>6. ~CheckUser(r) /\ ~RotateSelect(r) /\ ~RotateSession(r) /\ ~ReinsertSession(r)
      /\ ~DeleteUser(r)
  BY <1>0 DEF CheckUser, RotateSelect, RotateSession, ReinsertSession, DeleteUser, Phase,
         Rotating
<1> HIDE DEF Good
<1>7. CASE RevokeSessions(r)
  BY <1>7 DEF Good
<1> QED BY <1>1, <1>2, <1>3, <1>4, <1>5, <1>6, <1>7 DEF Step

LEMMA ResetDone ==
    ASSUME TypeInv, NEW r \in RequestIds, Step(r), requests'[r].pc = "done",
           requests[r].op = "reset"
    PROVE  /\ requests[r].pc = "revoke" /\ requests'[r].user = requests[r].user
           /\ \A s \in Ids : sessions[s] # NoRow /\ sessions[s].user = requests[r].user =>
                 sessions'[s].revoked
           /\ \A s \in Ids : sessions'[s] # NoRow =>
                 sessions[s] # NoRow /\ sessions'[s].user = sessions[s].user
<1>1. RevokeSessions(r)
  BY CodeDone
<1>2. requests[r].pc = "revoke"
  BY <1>1 DEF RevokeSessions, Runs
<1>3. ASSUME NEW s \in Ids, sessions[s] # NoRow, sessions[s].user = requests[r].user
      PROVE  sessions'[s].revoked /\ sessions'[s].user = sessions[s].user
  <2>1. sessions[s] \in Session
    BY <1>3 DEF TypeInv, TypeOK
  <2>2. sessions'[s] = [sessions[s] EXCEPT !.revoked = TRUE]
    BY <1>1, <1>3 DEF RevokeSessions
  <2> QED BY <2>1, <2>2 DEF Session
<1>4. \A s \in Ids : ~(sessions[s] # NoRow /\ sessions[s].user = requests[r].user) =>
          sessions'[s] = sessions[s]
  BY <1>1 DEF RevokeSessions
<1> QED BY <1>2, <1>3, <1>4, UserKept

LEMMA RefreshDone ==
    ASSUME TypeInv, NEW r \in RequestIds, Step(r), requests'[r].pc = "done",
           requests[r].op = "refresh"
    PROVE  LET s == requests[r].session IN sessions'[s] = NoRow \/ sessions'[s].revoked
<1> DEFINE q == requests[r]
           s == requests[r].session
           Good == sessions'[s] = NoRow \/ sessions'[s].revoked
<1> SUFFICES Good
  OBVIOUS
<1> USE DEF Runs
<1>0. /\ Phase(q) /\ s \in Ids /\ r \in Ids
      /\ sessions \in [Ids -> Session \cup {NoRow}]
  BY PhaseOp, Names DEF TypeInv, TypeOK, Shape
<1>g. \A pc : pc # "done" => ~Goto(r, pc)
  BY GotoEffect
<1>1. CASE RotateSession(r)
  <2>1. sessions'[s] = IF sessions[s] = NoRow THEN NoRow
                       ELSE [sessions[s] EXCEPT !.revoked = TRUE, !.next = r]
    BY <1>0, <1>1 DEF RotateSession
  <2> QED BY <1>0, <2>1 DEF Session
<1>2. CASE ReinsertSession(r)
  BY <1>0, <1>2 DEF ReinsertSession
<1>3. ~OpenSession(r) /\ ~CheckUser(r) /\ ~RotateSelect(r) /\ ~Fail(r)
  BY <1>g DEF OpenSession, CheckUser, RotateSelect, Fail
<1>4. ~ClearOtps(r) /\ ~InsertOtp(r) /\ ~SendOtpEmail(r) /\ ~DiscardOtp(r)
  BY <1>0 DEF ClearOtps, InsertOtp, SendOtpEmail, DiscardOtp, Phase, Sending
<1>5. ~FindAccount(r) /\ ~CreateUser(r) /\ ~SetPassword(r)
      /\ ~ConsumeSelect(r) /\ ~ConsumeOtp(r) /\ ~ReinsertOtp(r)
  BY <1>0 DEF FindAccount, CreateUser, SetPassword, ConsumeSelect, ConsumeOtp,
              ReinsertOtp, Phase, Consuming
<1>6. ~SaveSelect(r) /\ ~SaveUser(r) /\ ~ReinsertUser(r) /\ ~DeleteUser(r)
      /\ ~RevokeSessions(r)
  BY <1>0 DEF SaveSelect, SaveUser, ReinsertUser, DeleteUser, RevokeSessions, Phase,
              Saving
<1> HIDE DEF Good
<1> QED BY <1>1, <1>2, <1>3, <1>4, <1>5, <1>6 DEF Step

-----------------------------------------------------------------------------
(***************************************************************************)
(* The invariant of the requests of one account.                           *)
(***************************************************************************)
Unmade == {"idle", "findAccount", "createUser"}

\* An account bears the name of the request that made it.
Unregistered == \A r \in RequestIds : requests[r].pc \in Unmade => users[r] = NoRow

Known ==
    \A q \in RequestIds : requests[q].user \in RequestIds =>
        requests[requests[q].user].pc \notin Unmade

\* Isolation: no address in two hands.
Apart ==
    \A p, q \in RequestIds :
        InFlight(p) /\ InFlight(q) /\ requests[p].keys \cap requests[q].keys # {} => p = q

\* What a request has in hand is about its addresses.
Concerns(q) ==
    /\ q.user # NoId => users[q.user] # NoRow /\ users[q.user].email \in q.keys
    /\ q.pc \in Sending \cup {"findAccount", "createUser"} => q.email \in q.keys
    /\ q.pc \in Saving => q.want.email \in q.keys
    /\ q.otp # NoId => /\ q.code.email \in q.keys
                       /\ otps[q.otp] # NoRow => otps[q.otp].email \in q.keys

\* A code bears the name of the request that sends it.
Stored == {"mail", "discard"} \cup Ended

Issued ==
    /\ \A r \in RequestIds : requests[r].pc \notin Stored => otps[r] = NoRow
    /\ \A q \in RequestIds : requests[q].otp \in RequestIds =>
          requests[requests[q].otp].pc \in Stored

\* A code is in one hand, and is spent before the account's door opens.
Consumed ==
    /\ \A q \in RequestIds :
          requests[q].pc \in {"openSession", "revoke", "done"} /\ requests[q].otp # NoId
             => Spent(requests[q].otp)
    /\ \A q, r \in RequestIds :
          /\ InFlight(q) /\ (InFlight(r) \/ requests[r].pc = "done")
          /\ requests[q].otp # NoId /\ requests[r].otp = requests[q].otp
          => q = r

\* Nothing is left to use when a code is inserted.
Cleared ==
    \A r \in RequestIds : requests[r].pc = "insertOtp" =>
        LiveOtps(requests[r].email, Purpose(r)) = {}

\* The password in memory is the stored one, or the one the request chose;
\* save() writes the latter only.
Chosen ==
    \A r \in RequestIds :
        LET q == requests[r]
        IN  q.pc \in Saving =>
              /\ q.want.password \in {r, users[q.user].password}
              /\ q.pc = "saveUser" /\ "password" \in q.diff => q.want.password = r

\* A session stays good until its refresh is done, and no longer.
Rotates ==
    \A q \in RequestIds : requests[q].op = "refresh" =>
        LET row == sessions[requests[q].session]
        IN  /\ InFlight(q) => row # NoRow /\ ~row.revoked
            /\ requests[q].pc = "done" => row = NoRow \/ row.revoked

\* Whoever is about to open a session arrived after the resets answered.
Before ==
    \A q, r \in RequestIds :
        /\ InFlight(q) /\ requests[q].op \in {"confirm", "login", "refresh"}
        /\ requests[r].op = "reset" /\ requests[r].pc = "done"
        /\ requests[q].user # NoId /\ requests[r].user = requests[q].user
        => r \in requests[q].after

IsolationInv ==
    /\ SessionInv /\ Unregistered /\ Known /\ Apart
    /\ \A r \in RequestIds : InFlight(r) => Concerns(requests[r])

CodeInv == Issued /\ Consumed /\ Cleared /\ OtpUsedOnce /\ OneLiveOtp

AccountInv ==
    /\ IsolationInv /\ CodeInv
    /\ Chosen /\ Rotates /\ RefreshedOnce /\ Before /\ ResetEndsSessions

LEMMA UnmadeBefore ==
    ASSUME TypeInv, NEW r \in RequestIds, Step(r), NEW x \in RequestIds,
           requests'[x].pc \in Unmade
    PROVE  requests[x].pc \in Unmade /\ (x = r => requests[x].pc = "findAccount")
<1>1. CASE x # r
  BY <1>1, StepEffect
<1>2. CASE x = r
  BY <1>2, StepEffect DEF Stepped, Follows, Moves, Unmade, Ended, InFlight, Consuming
<1> QED BY <1>1, <1>2

LEMMA StoredStays ==
    ASSUME TypeInv, NEW r \in RequestIds, Step(r), NEW x \in RequestIds,
           requests[x].pc \in Stored
    PROVE  requests'[x].pc \in Stored
<1>1. CASE x # r
  BY <1>1, StepEffect
<1>2. CASE x = r
  BY <1>2, StepEffect
     DEF Stepped, Follows, Moves, Stored, Ended, InFlight, Consuming
<1> QED BY <1>1, <1>2

\* Ids that requests hold.
LEMMA HeldIds ==
    ASSUME TypeInv, NEW r \in RequestIds
    PROVE  LET q == requests[r] IN
           /\ q.user # NoId => q.user \in Ids
           /\ q.otp # NoId => q.otp \in Ids /\ q.op \in {"confirm", "reset"}
           /\ q.otp # NoId /\ q.pc \notin Ended => q.code \in Otp
           /\ q.pc = "idle" => q.user = NoId /\ q.otp = NoId
  BY DEF TypeInv, TypeOK, Shape, Phase, Request

\* Two requests in flight hold different accounts.
LEMMA OwnUser ==
    ASSUME IsolationInv, NEW p \in RequestIds, NEW q \in RequestIds, InFlight(p),
           InFlight(q), requests[p].user # NoId, requests[p].user = requests[q].user
    PROVE  p = q
<1>1. Concerns(requests[p]) /\ Concerns(requests[q])
  BY DEF IsolationInv
<1>2. users[requests[p].user].email \in requests[p].keys \cap requests[q].keys
  BY <1>1 DEF Concerns
<1> QED BY <1>2 DEF IsolationInv, Apart

\* Nobody else touches the account a request holds.
LEMMA UserAlone ==
    ASSUME IsolationInv, NEW r \in RequestIds, Step(r), NEW p \in RequestIds,
           InFlight(p), p # r, requests[p].user # NoId
    PROVE  users'[requests[p].user] = users[requests[p].user]
<1> DEFINE u == requests[p].user
<1>0. TypeInv /\ InFlight(r)
  BY StepEffect DEF IsolationInv, SessionInv
<1>1. u \in Ids
  BY <1>0, HeldIds
<1>2. ~MakesUser(r, u)
  BY DEF MakesUser, IsolationInv, Known, Unmade
<1>3. u # requests[r].user
  BY <1>0, OwnUser
<1> HIDE DEF u
<1>4. users'[u] = users[u]
  BY <1>0, <1>1, <1>2, <1>3, UserWrites
     DEF SetsPassword, SavesUser, ReinsertsUser, DeletesUser
<1> QED BY <1>4 DEF u

LEMMA StepUnregistered ==
    ASSUME IsolationInv, NEW r \in RequestIds, Step(r)
    PROVE  Unregistered' /\ Known'
<1>0. TypeInv /\ Unregistered /\ Known
  BY DEF IsolationInv, SessionInv
<1>1. ASSUME NEW x \in RequestIds, requests'[x].pc \in Unmade PROVE users'[x] = NoRow
  <2>1. requests[x].pc \in Unmade /\ (x = r => requests[x].pc = "findAccount")
    BY <1>0, <1>1, UnmadeBefore
  <2>2. users[x] = NoRow /\ x \in Ids
    BY <1>0, <2>1, Names DEF Unregistered
  <2>3. ~MakesUser(r, x)
    BY <2>1 DEF MakesUser
  <2>4. ~ReinsertsUser(r, x)
    BY <1>0, <2>1 DEF ReinsertsUser, Known
  <2> QED BY <1>0, <2>2, <2>3, <2>4, UserWrites
          DEF SetsPassword, SavesUser, DeletesUser
<1>2. ASSUME NEW q \in RequestIds, requests'[q].user \in RequestIds,
             requests'[requests'[q].user].pc \in Unmade
      PROVE  FALSE
  <2> DEFINE u == requests'[q].user
  <2>1. requests[u].pc \in Unmade /\ (u = r => requests[u].pc = "findAccount")
    BY <1>0, <1>2, UnmadeBefore
  <2>2. requests[q].user # u
    BY <1>0, <1>2, <2>1 DEF Known
  <2>3. q = r
    BY <1>0, <2>2, StepEffect
  <2>4. \/ u \in Ids /\ users[u] # NoRow
        \/ requests[r].pc = "createUser" /\ u = r
    BY <1>0, <2>2, <2>3, StepEffect DEF Stepped
  <2>5. users[u] = NoRow
    BY <1>0, <1>2, <2>1 DEF Unregistered
  <2> QED BY <2>1, <2>4, <2>5
<1> QED BY <1>1, <1>2 DEF Unregistered, Known

LEMMA StepApart ==
    ASSUME IsolationInv, NEW r \in RequestIds, Step(r)
    PROVE  Apart'
<1>0. TypeInv /\ Apart
  BY DEF IsolationInv, SessionInv
<1>1. \A q \in RequestIds : InFlight(q)' =>
          InFlight(q) /\ requests'[q].keys = requests[q].keys
  BY <1>0, StepEffect DEF Stepped, InFlight
<1> QED BY <1>0, <1>1 DEF Apart

LEMMA Creates ==
    ASSUME TypeInv, NEW r \in RequestIds, Step(r), requests[r].pc = "createUser",
           requests'[r].pc \notin Ended
    PROVE  MakesUser(r, r)
<1> DEFINE q == requests[r]
<1>1. ~Fail(r)
  BY GotoEffect DEF Fail, Ended
<1>2. CreateUser(r)
  BY <1>1 DEF Step, Runs, ClearOtps, InsertOtp, SendOtpEmail, DiscardOtp, FindAccount,
         SetPassword, OpenSession, ConsumeSelect, ConsumeOtp, ReinsertOtp, CheckUser,
         RotateSelect, RotateSession, ReinsertSession, RevokeSessions, SaveSelect,
         SaveUser, ReinsertUser, DeleteUser
<1>3. users' = [users EXCEPT ![r] = q.want]
  BY <1>2 DEF CreateUser
<1>5. q.want \in User /\ q.want.email = q.email
  BY DEF TypeInv, Shape, Creating
<1>6. users'[r] = q.want
  BY <1>3, Names DEF TypeInv, TypeOK
<1> QED BY <1>5, <1>6, NullAssumption DEF MakesUser

LEMMA StepConcerns ==
    ASSUME IsolationInv, Issued, Consumed, NEW r \in RequestIds, Step(r),
           NEW p \in RequestIds, InFlight(p)'
    PROVE  Concerns(requests[p])'
<1> DEFINE q == requests[p]
           n == requests'[p]
<1>0. TypeInv /\ Known
  BY DEF IsolationInv, SessionInv
<1>1. InFlight(p) /\ InFlight(r)
  BY <1>0, StepEffect DEF InFlight
<1>2. Concerns(q)
  BY <1>1 DEF IsolationInv
<1>3. /\ n.keys = q.keys /\ n.email = q.email /\ n.code = q.code /\ n.want = q.want
      /\ n.otp = q.otp
      /\ n.pc \in Saving => q.pc \in Saving
      /\ n.pc \in Sending \cup {"findAccount", "createUser"} =>
            q.pc \in Sending \cup {"findAccount", "createUser"}
  <2>1. CASE p # r
    BY <1>0, <2>1, StepEffect
  <2>2. CASE p = r
    BY <1>0, <2>2, StepEffect
       DEF Stepped, Follows, InFlight, Moves, Saving, Sending, Consuming
  <2> QED BY <2>1, <2>2
<1>4. ASSUME n.user # NoId
      PROVE  users'[n.user] # NoRow /\ users'[n.user].email \in q.keys
  <2>1. CASE p # r
    <3>1. n.user = q.user
      BY <1>0, <2>1, StepEffect
    <3>2. users'[q.user] = users[q.user]
      BY <1>1, <1>4, <2>1, <3>1, UserAlone
    <3> QED BY <1>2, <1>4, <3>1, <3>2 DEF Concerns
  <2>2. CASE p = r /\ n.user = q.user
    <3> DEFINE u == q.user
    <3>1. u \in Ids /\ users[u] # NoRow /\ users[u].email \in q.keys /\ users[u] \in User
      BY <1>0, <1>2, <1>4, <2>2, HeldIds DEF Concerns, TypeInv, TypeOK
    <3>2. requests[r].pc \notin {"saveUser", "delete"}
      BY <1>0, <2>2, StepEffect DEF Stepped, Follows, InFlight, Moves, Consuming
    <3>3. ~MakesUser(r, u)
      BY <1>0, <2>2 DEF MakesUser, Known, Unmade
    <3>4. CASE SetsPassword(r, u)
      <4>1. [users[u] EXCEPT !.password = r] \in User
            /\ [users[u] EXCEPT !.password = r].email = users[u].email
        BY <3>1, Names DEF User
      <4> QED BY <2>2, <3>1, <3>4, <4>1, NullAssumption DEF SetsPassword
    <3>5. CASE users'[u] = users[u]
      BY <2>2, <3>1, <3>5
    <3> QED BY <1>0, <3>1, <3>2, <3>3, <3>4, <3>5, UserWrites
            DEF SavesUser, ReinsertsUser, DeletesUser
  <2>3. CASE p = r /\ n.user # q.user /\ q.pc = "findAccount"
    <3>1. n.user \in Ids /\ users[n.user] # NoRow /\ users[n.user].email = q.email
      BY <1>0, <2>3, StepEffect DEF Stepped
    <3>2. q.email \in q.keys
      BY <1>2, <2>3 DEF Concerns
    <3>3. users'[n.user] = users[n.user]
      BY <1>0, <2>3, <3>1, UserWrites
         DEF MakesUser, SetsPassword, SavesUser, ReinsertsUser, DeletesUser
    <3> QED BY <3>1, <3>2, <3>3
  <2>4. CASE p = r /\ n.user # q.user /\ q.pc = "createUser" /\ n.user = r
    <3>1. MakesUser(r, r)
      BY <1>0, <2>4, Creates DEF InFlight
    <3>2. q.email \in q.keys
      BY <1>2, <2>4 DEF Concerns
    <3> QED BY <2>4, <3>1, <3>2 DEF MakesUser
  <2> QED BY <1>0, <2>1, <2>2, <2>3, <2>4, StepEffect DEF Stepped
<1>5. ASSUME q.otp # NoId, otps'[q.otp] # NoRow
      PROVE  otps'[q.otp].email \in q.keys
  <2>1. q.otp \in Ids
    BY <1>0, <1>5, HeldIds
  <2>2. CASE KeepsOtp(q.otp)
    BY <1>2, <1>5, <2>2 DEF KeepsOtp, Concerns
  <2>3. ~InsertsOtp(r, q.otp)
    BY DEF InsertsOtp, Issued, Stored, Ended
  <2>4. CASE ReinsertsOtp(r, q.otp)
    <3>1. r = p
      BY <1>1, <1>5, <2>4 DEF ReinsertsOtp, Consumed
    <3> QED BY <1>2, <1>5, <2>4, <3>1 DEF ReinsertsOtp, Concerns
  <2> QED BY <1>0, <1>5, <2>1, <2>2, <2>3, <2>4, OtpWrites
<1> QED BY <1>2, <1>3, <1>4, <1>5 DEF Concerns

-----------------------------------------------------------------------------
(***************************************************************************)
(* Codes.                                                                  *)
(***************************************************************************)
LEMMA StepIssued ==
    ASSUME TypeInv, Issued, NEW r \in RequestIds, Step(r)
    PROVE  Issued'
<1>1. ASSUME NEW x \in RequestIds, requests'[x].pc \notin Stored PROVE otps'[x] = NoRow
  <2>1. requests[x].pc \notin Stored
    BY <1>1, StoredStays
  <2>2. otps[x] = NoRow /\ x \in Ids
    BY <2>1, Names DEF Issued
  <2>3. ~KeepsOtp(x)
    BY <2>2 DEF KeepsOtp
  <2>4. ~InsertsOtp(r, x)
    BY <1>1 DEF InsertsOtp, Stored
  <2>5. ~ReinsertsOtp(r, x)
    BY <2>1 DEF ReinsertsOtp, Issued
  <2> QED BY <2>2, <2>3, <2>4, <2>5, OtpWrites
<1>2. ASSUME NEW q \in RequestIds, requests'[q].otp \in RequestIds
      PROVE  requests'[requests'[q].otp].pc \in Stored
  <2>1. requests'[q].otp = requests[q].otp
    BY StepEffect DEF Stepped
  <2>2. requests[requests[q].otp].pc \in Stored
    BY <1>2, <2>1 DEF Issued
  <2> QED BY <1>2, <2>1, <2>2, StoredStays
<1> QED BY <1>1, <1>2 DEF Issued

LEMMA SpentStays ==
    ASSUME TypeInv, NEW r \in RequestIds, Step(r), NEW o \in Ids, Spent(o),
           ~InsertsOtp(r, o)
    PROVE  SpentNext(o)
<1>1. ASSUME otps'[o] # NoRow PROVE otps'[o].used
  BY <1>1, OtpWrites DEF KeepsOtp, ReinsertsOtp, Spent
<1> QED BY <1>1 DEF SpentNext

LEMMA StepConsumed ==
    ASSUME TypeInv, Issued, Consumed, NEW r \in RequestIds, Step(r)
    PROVE  Consumed'
<1>0. \A q \in RequestIds : requests'[q].otp = requests[q].otp
  BY StepEffect DEF Stepped
<1>1. ASSUME NEW q \in RequestIds, requests'[q].pc \in {"openSession", "revoke", "done"},
             requests[q].otp # NoId
      PROVE  SpentNext(requests[q].otp)
  <2> DEFINE o == requests[q].otp
  <2>1. o \in Ids /\ requests[q].op \in {"confirm", "reset"}
    BY <1>1, HeldIds
  <2>2. ~InsertsOtp(r, o)
    BY DEF InsertsOtp, Issued, Stored, Ended
  <2>3. CASE requests[q].pc \in {"openSession", "revoke", "done"}
    <3>1. Spent(o)
      BY <1>1, <2>3 DEF Consumed
    <3> HIDE DEF o
    <3>2. SpentNext(o)
      BY <2>1, <2>2, <3>1, SpentStays
    <3> QED BY <3>2 DEF o
  <2>4. CASE requests[q].pc \notin {"openSession", "revoke", "done"}
    <3>1. q = r
      BY <1>1, <2>4, StepEffect
    <3>2. requests'[r].pc # "done"
      <4>1. ~RevokeSessions(r)
        BY <2>4, <3>1 DEF RevokeSessions, Runs
      <4> QED BY <2>1, <2>4, <3>1, <4>1, CodeDone
    <3>3. requests[r].pc \in Consuming
      BY <1>1, <2>1, <2>4, <3>1, <3>2, StepEffect, PhaseOp
         DEF Stepped, Follows, Moves, Ended, TypeInv, Shape, Phase
    <3> QED BY <1>1, <3>1, <3>2, <3>3, ConsumesOtp
  <2> QED BY <2>3, <2>4
<1>2. ASSUME NEW q \in RequestIds, NEW p \in RequestIds, InFlight(q)',
             InFlight(p)' \/ requests'[p].pc = "done",
             requests[q].otp # NoId, requests[p].otp = requests[q].otp
      PROVE  p = q
  <2>1. InFlight(q)
    BY <1>2, StepEffect DEF InFlight
  <2>2. InFlight(p) \/ requests[p].pc = "done"
    BY <1>2, StepEffect DEF InFlight
  <2> QED BY <1>2, <2>1, <2>2 DEF Consumed
<1> QED BY <1>0, <1>1, <1>2 DEF Consumed, Spent, SpentNext

LEMMA StepUsedOnce ==
    ASSUME TypeInv, Consumed, OtpUsedOnce, NEW r \in RequestIds, Step(r)
    PROVE  OtpUsedOnce'
<1>0. InFlight(r) /\ \A q \in RequestIds : requests'[q].otp = requests[q].otp
  BY StepEffect DEF Stepped
<1>1. \A q \in RequestIds \ {r} : requests'[q] = requests[q]
  BY StepEffect
<1>2. ASSUME NEW q \in RequestIds, requests'[q].pc = "done", requests[q].otp # NoId,
             NEW p \in RequestIds, requests'[p].pc = "done",
             requests[p].otp = requests[q].otp
      PROVE  q = p
  <2>1. CASE q # r /\ p # r
    BY <1>1, <1>2, <2>1 DEF OtpUsedOnce
  <2>2. CASE q = r /\ p # r
    BY <1>0, <1>1, <1>2, <2>2 DEF Consumed
  <2>3. CASE q # r /\ p = r
    BY <1>0, <1>1, <1>2, <2>3 DEF Consumed
  <2> QED BY <2>1, <2>2, <2>3
<1> QED BY <1>0, <1>2 DEF OtpUsedOnce

LiveNext(e, p) ==
    {o \in Ids : /\ otps'[o] # NoRow /\ ~otps'[o].used
                 /\ otps'[o].email = e /\ otps'[o].purpose = p}

\* The codes to use are those there were, and the one just inserted.
LEMMA LiveBefore ==
    ASSUME TypeInv, NEW r \in RequestIds, Step(r), NEW e, NEW p, NEW o \in LiveNext(e, p)
    PROVE  \/ o \in LiveOtps(e, p)
           \/ /\ o = r /\ requests[r].pc = "insertOtp" /\ requests'[r].pc = "mail"
              /\ e = requests[r].email /\ p = Purpose(r)
<1>1. o \in Ids /\ otps'[o] # NoRow /\ ~otps'[o].used /\ otps'[o].email = e
      /\ otps'[o].purpose = p
  BY DEF LiveNext
<1> QED BY <1>1, OtpWrites DEF KeepsOtp, InsertsOtp, ReinsertsOtp, LiveOtps

LEMMA StepCleared ==
    ASSUME IsolationInv, Cleared, NEW r \in RequestIds, Step(r)
    PROVE  Cleared'
<1>0. TypeInv
  BY DEF IsolationInv, SessionInv
<1> SUFFICES ASSUME NEW x \in RequestIds, requests'[x].pc = "insertOtp"
             PROVE  LiveNext(requests'[x].email, Purpose(x)') = {}
  BY DEF Cleared, LiveOtps, LiveNext
<1>1. requests'[x].op = requests[x].op
  BY <1>0, StepEffect DEF Stepped
<1>2. CASE x = r
  <2>1. requests'[r].email = requests[r].email
    BY <1>0, <1>2, StepEffect DEF Stepped, Ended
  <2>2. \A o \in Ids :
              ~(/\ otps'[o] # NoRow /\ ~otps'[o].used
                /\ otps'[o].email = requests[r].email /\ otps'[o].purpose = Purpose(r))
    BY <1>0, <1>2, ClearsOtps
  <2>3. Purpose(r)' = Purpose(r)
    BY <1>1, <1>2 DEF Purpose
  <2> QED BY <1>2, <2>1, <2>2, <2>3 DEF LiveNext
<1>3. CASE x # r
  <2>1. requests'[x] = requests[x]
    BY <1>0, <1>3, StepEffect
  <2> DEFINE e == requests[x].email
             p == Purpose(x)
  <2>2. LiveOtps(e, p) = {}
    BY <1>3, <2>1 DEF Cleared
  <2>3. ~(requests[r].pc = "insertOtp" /\ e = requests[r].email)
    <3>1. ASSUME requests[r].pc = "insertOtp", e = requests[r].email PROVE FALSE
      <4>1. InFlight(r) /\ InFlight(x)
        BY <2>1, <3>1 DEF InFlight, Ended
      <4>2. e \in requests[r].keys /\ e \in requests[x].keys
        BY <2>1, <3>1, <4>1 DEF IsolationInv, Concerns, Sending
      <4> QED BY <1>3, <4>1, <4>2 DEF IsolationInv, Apart
    <3> QED BY <3>1
  <2>4. Purpose(x)' = p /\ requests'[x].email = e
    BY <2>1 DEF Purpose
  <2> HIDE DEF e, p
  <2>5. LiveNext(e, p) = {}
    <3>1. \A o \in LiveNext(e, p) : FALSE
      BY <1>0, <2>2, <2>3, LiveBefore
    <3> QED BY <3>1
  <2> QED BY <2>4, <2>5
<1> QED BY <1>2, <1>3

LEMMA StepOneLive ==
    ASSUME TypeInv, Cleared, OneLiveOtp, NEW r \in RequestIds, Step(r)
    PROVE  OneLiveOtp'
<1> SUFFICES ASSUME NEW e \in Emails, NEW p \in Purposes,
                    NEW i \in LiveNext(e, p), NEW j \in LiveNext(e, p)
             PROVE  i = j
  BY DEF OneLiveOtp, LiveOtps, LiveNext
<1>1. CASE i \in LiveOtps(e, p) /\ j \in LiveOtps(e, p)
  BY <1>1 DEF OneLiveOtp
<1>2. requests[r].pc = "insertOtp" => LiveOtps(requests[r].email, Purpose(r)) = {}
  BY DEF Cleared
<1> QED BY <1>1, <1>2, LiveBefore

-----------------------------------------------------------------------------
(***************************************************************************)
(* Passwords.                                                              *)
(***************************************************************************)
LEMMA Selects ==
    ASSUME TypeInv, NEW r \in RequestIds, Step(r), requests[r].pc = "select",
           requests'[r].pc = "saveUser"
    PROVE  requests'[r].diff = {c \in Columns : requests[r].want[c] # users[requests[r].user][c]}
           /\ users' = users
<1> DEFINE q == requests[r]
           d == {c \in Columns : q.want[c] # users[q.user][c]}
<1>1. ~Fail(r)
  BY GotoEffect DEF Fail
<1>2. SaveSelect(r)
  BY <1>1 DEF Step, Runs, ClearOtps, InsertOtp, SendOtpEmail, DiscardOtp, FindAccount,
         CreateUser, SetPassword, OpenSession, ConsumeSelect, ConsumeOtp, ReinsertOtp,
         CheckUser, RotateSelect, RotateSession, ReinsertSession, RevokeSessions,
         SaveUser, ReinsertUser, DeleteUser
<1>3. \/ requests' = [requests EXCEPT ![r] = [q EXCEPT !.pc = "reinsertUser"]]
      \/ requests' = [requests EXCEPT ![r] = [q EXCEPT !.pc = "saveUser", !.diff = d]]
  BY <1>2 DEF SaveSelect
<1> HIDE DEF d
<1>4. requests'[r] \in {[q EXCEPT !.pc = "reinsertUser"],
                        [q EXCEPT !.pc = "saveUser", !.diff = d]}
  BY <1>3 DEF TypeInv, TypeOK
<1>5. q \in Request
  BY DEF TypeInv, TypeOK
<1>6. requests'[r].diff = d
  BY <1>4, <1>5 DEF Request
<1> QED BY <1>2, <1>6 DEF SaveSelect, d

LEMMA StepChosen ==
    ASSUME IsolationInv, Chosen, NEW r \in RequestIds, Step(r)
    PROVE  Chosen'
<1>0. TypeInv
  BY DEF IsolationInv, SessionInv
<1> SUFFICES ASSUME NEW x \in RequestIds, requests'[x].pc \in Saving
             PROVE  /\ requests'[x].want.password \in {x, users'[requests'[x].user].password}
                    /\ requests'[x].pc = "saveUser" /\ "password" \in requests'[x].diff =>
                          requests'[x].want.password = x
  BY DEF Chosen
<1> DEFINE q == requests[x]
           n == requests'[x]
<1>1. CASE x # r
  <2>1. n = q
    BY <1>0, <1>1, StepEffect
  <2>2. InFlight(x) /\ q.user # NoId
    BY <1>0, <2>1, NullAssumption DEF InFlight, Saving, Ended, TypeInv, Shape
  <2>3. users'[q.user] = users[q.user]
    BY <1>1, <2>2, UserAlone
  <2> QED BY <2>1, <2>3 DEF Chosen
<1>2. CASE x = r
  <2>1. /\ q.pc = "select" /\ n.pc \in {"saveUser", "reinsertUser"}
        /\ n.user = q.user /\ n.want = q.want
    BY <1>0, <1>2, StepEffect
       DEF Stepped, Follows, InFlight, Moves, Saving, Consuming, Ended
  <2>2. q.want.password \in {x, users[q.user].password}
    BY <2>1 DEF Chosen, Saving
  <2>3. q.user \in Ids
    BY <1>0, <2>1 DEF TypeInv, Shape, Saving
  <2>4. users'[q.user] = users[q.user]
    BY <1>0, <1>2, <2>1, <2>3, UserWrites
       DEF MakesUser, SetsPassword, SavesUser, ReinsertsUser, DeletesUser
  <2>5. ASSUME n.pc = "saveUser", "password" \in n.diff PROVE n.want.password = x
    <3>1. n.diff = {c \in Columns : q.want[c] # users[q.user][c]}
      BY <1>0, <1>2, <2>1, <2>5, Selects
    <3>2. q.want["password"] # users[q.user]["password"]
      BY <2>5, <3>1
    <3> QED BY <2>1, <2>2, <3>2
  <2> QED BY <2>1, <2>2, <2>4, <2>5
<1> QED BY <1>1, <1>2

LEMMA StepPassword ==
    ASSUME IsolationInv, Chosen, NEW r \in RequestIds, Step(r), NEW u \in Ids,
           users[u] # NoRow, users'[u] # NoRow, users'[u].password # users[u].password
    PROVE  users'[u].password = r /\ InFlight(r)
<1> DEFINE q == requests[r]
<1>0. TypeInv /\ InFlight(r) /\ users[u] \in User
  BY StepEffect DEF IsolationInv, SessionInv, TypeInv, TypeOK
<1>1. ~MakesUser(r, u)
  BY DEF MakesUser, IsolationInv, Unregistered, Unmade
<1>2. CASE SetsPassword(r, u)
  BY <1>0, <1>2 DEF SetsPassword, User
<1>3. CASE SavesUser(r, u)
  <2>1. users'[u] = Merge(users[u], q.want, q.diff) /\ q.pc = "saveUser"
    BY <1>3 DEF SavesUser
  <2>2. "password" \in q.diff /\ users'[u].password = q.want.password
    BY <2>1 DEF Merge
  <2> QED BY <1>0, <2>1, <2>2 DEF Chosen, Saving
<1>4. ~ReinsertsUser(r, u) /\ ~DeletesUser(r, u)
  BY DEF ReinsertsUser, DeletesUser
<1> QED BY <1>0, <1>1, <1>2, <1>3, <1>4, UserWrites

-----------------------------------------------------------------------------
(***************************************************************************)
(* Sessions.                                                               *)
(***************************************************************************)
LEMMA StepRotates ==
    ASSUME IsolationInv, Rotates, NEW r \in RequestIds, Step(r)
    PROVE  Rotates'
<1>0. TypeInv /\ InFlight(r) /\ SessionInv /\ Owned
  BY StepEffect DEF IsolationInv, SessionInv
<1> SUFFICES ASSUME NEW x \in RequestIds, requests'[x].op = "refresh"
             PROVE  LET row == sessions'[requests'[x].session]
                    IN  /\ InFlight(x)' => row # NoRow /\ ~row.revoked
                        /\ requests'[x].pc = "done" => row = NoRow \/ row.revoked
  BY DEF Rotates
<1> DEFINE q == requests[x]
           n == requests'[x]
           s == requests[x].session
<1>1. n.session = s /\ q.op = "refresh"
  BY <1>0, StepEffect DEF Stepped
<1>2. s \in Ids /\ q.user \in Ids /\ q.user # NoId
  BY <1>0, <1>1, PhaseOp, NullAssumption
<1>3. ~OpensSession(r, s)
  BY <1>0, NotMine DEF OpensSession
<1>4. ASSUME InFlight(x)' PROVE sessions'[s] # NoRow /\ ~sessions'[s].revoked
  <2>1. InFlight(x)
    BY <1>0, <1>4, StepEffect DEF InFlight
  <2>2. sessions[s] # NoRow /\ ~sessions[s].revoked /\ sessions[s].user = q.user
    BY <1>0, <1>1, <2>1 DEF Rotates, Owned
  <2>3. ASSUME requests[r].user = q.user PROVE x = r
    BY <1>0, <1>2, <2>1, <2>3, OwnUser
  <2>4. x = r => q.pc \notin {"revoke", "rotateSession", "delete"}
    BY <1>0, <1>1, <1>4, StepEffect, PhaseOp
       DEF Stepped, Follows, InFlight, Moves, Consuming
  <2>5. ~RevokesSession(r, s) /\ ~DeletesSession(r, s)
    BY <2>2, <2>3, <2>4 DEF RevokesSession, DeletesSession
  <2>6. ~RotatesSession(r, s)
    <3>1. ASSUME RotatesSession(r, s) PROVE requests[r].user = q.user
      <4>1. requests[r].op = "refresh" /\ requests[r].session = s
        BY <1>0, <3>1, PhaseOp DEF RotatesSession, Rotating
      <4> QED BY <1>0, <1>1, <4>1 DEF Owned
    <3> QED BY <2>3, <2>4, <3>1 DEF RotatesSession
  <2>7. ~ReinsertsSession(r, s)
    BY <2>2 DEF ReinsertsSession
  <2> QED BY <1>0, <1>2, <1>3, <2>2, <2>5, <2>6, <2>7, SessionWrites
<1>5. ASSUME n.pc = "done" PROVE sessions'[s] = NoRow \/ sessions'[s].revoked
  <2>1. CASE q.pc # "done"
    <3>1. x = r
      BY <1>0, <1>5, <2>1, StepEffect
    <3> QED BY <1>0, <1>1, <1>5, <3>1, RefreshDone
  <2>2. CASE q.pc = "done"
    <3>1. sessions[s] = NoRow \/ sessions[s].revoked
      BY <1>1, <2>2 DEF Rotates
    <3>2. CASE RevokesSession(r, s) \/ RotatesSession(r, s)
      <4>1. sessions[s] \in Session
        BY <1>0, <1>2, <3>2 DEF RevokesSession, RotatesSession, TypeInv, TypeOK
      <4> QED BY <3>2, <4>1 DEF RevokesSession, RotatesSession, Session
    <3>3. CASE ReinsertsSession(r, s) \/ DeletesSession(r, s)
      BY <3>3 DEF ReinsertsSession, DeletesSession
    <3> QED BY <1>0, <1>2, <1>3, <3>1, <3>2, <3>3, SessionWrites
  <2> QED BY <2>1, <2>2
<1> QED BY <1>1, <1>4, <1>5

LEMMA StepRefreshedOnce ==
    ASSUME IsolationInv, Rotates, RefreshedOnce, NEW r \in RequestIds, Step(r)
    PROVE  RefreshedOnce'
<1>0. TypeInv /\ InFlight(r)
  BY StepEffect DEF IsolationInv, SessionInv
<1>1. \A q \in RequestIds : requests'[q].op = requests[q].op
                            /\ requests'[q].session = requests[q].session
  BY <1>0, StepEffect DEF Stepped
<1>2. \A q \in RequestIds \ {r} : requests'[q] = requests[q]
  BY <1>0, StepEffect
<1>3. ASSUME NEW q \in RequestIds \ {r}, requests[q].op = "refresh",
             requests[q].pc = "done", requests[r].op = "refresh",
             requests[r].session = requests[q].session
      PROVE  FALSE
  BY <1>0, <1>3 DEF Rotates
<1> QED BY <1>1, <1>2, <1>3 DEF RefreshedOnce

LEMMA StepBefore ==
    ASSUME IsolationInv, Before, NEW r \in RequestIds, Step(r)
    PROVE  Before'
<1>0. TypeInv /\ InFlight(r) /\ Known
  BY StepEffect DEF IsolationInv, SessionInv
<1> SUFFICES ASSUME NEW p \in RequestIds, NEW x \in RequestIds, InFlight(p)',
                    requests'[p].op \in {"confirm", "login", "refresh"},
                    requests'[x].op = "reset", requests'[x].pc = "done",
                    requests'[p].user # NoId, requests'[x].user = requests'[p].user
             PROVE  x \in requests'[p].after
  BY DEF Before
<1>1. InFlight(p) /\ requests[p].op \in {"confirm", "login", "refresh"}
      /\ requests[x].op = "reset" /\ requests'[p].after = requests[p].after
  BY <1>0, StepEffect DEF Stepped, InFlight
<1>2. requests'[x].user = requests[x].user
  <2>1. CASE x # r
    BY <1>0, <2>1, StepEffect
  <2>2. CASE x = r
    BY <1>0, <1>1, <2>2, ResetDone
  <2> QED BY <2>1, <2>2
<1>3. requests'[p].user = requests[p].user
  <2>1. CASE p # r
    BY <1>0, <2>1, StepEffect
  <2>2. CASE p = r /\ requests[r].pc = "createUser" /\ requests'[r].user = r
    BY <1>0, <1>2, <2>2 DEF Known, Unmade
  <2>3. requests[r].pc = "findAccount" /\ requests'[r].pc = "setPassword"
           => requests'[r].op = "reset"
    BY <1>0, StepTypeInv DEF TypeInv, Shape, Phase
  <2> QED BY <1>0, <2>1, <2>2, <2>3, StepEffect DEF Stepped
<1>4. CASE requests[x].pc = "done"
  BY <1>1, <1>2, <1>3, <1>4 DEF Before
<1>5. CASE requests[x].pc # "done"
  <2>1. x = r
    BY <1>0, <1>5, StepEffect
  <2>2. p = r
    BY <1>0, <1>1, <1>2, <1>3, <2>1, OwnUser
  <2> QED BY <1>1, <2>1, <2>2
<1> QED BY <1>4, <1>5

LEMMA StepResetEnds ==
    ASSUME IsolationInv, Before, ResetEndsSessions, NEW r \in RequestIds, Step(r)
    PROVE  ResetEndsSessions'
<1>0. TypeInv /\ InFlight(r) /\ SessionInv
  BY StepEffect DEF IsolationInv, SessionInv
<1> SUFFICES ASSUME NEW x \in RequestIds, requests'[x].op = "reset",
                    requests'[x].pc = "done", NEW s \in Ids, Live(s)',
                    sessions'[s].user = requests'[x].user
             PROVE  s \in RequestIds /\ x \in requests'[s].after
  BY DEF ResetEndsSessions
<1>1. sessions'[s] # NoRow /\ ~sessions'[s].revoked /\ ~sessions'[s].expired
  BY DEF Live
<1>2. requests[x].op = "reset"
  BY <1>0, StepEffect DEF Stepped
<1>3. \A p \in RequestIds : requests'[p].after = requests[p].after
  BY <1>0, StepEffect DEF Stepped
<1>4. CASE requests[x].pc # "done"
  <2>1. x = r
    BY <1>0, <1>4, StepEffect
  <2> QED BY <1>0, <1>1, <1>2, <2>1, ResetDone
<1>5. CASE requests[x].pc = "done"
  <2>1. requests'[x] = requests[x]
    BY <1>0, <1>5, EndStays DEF Ended
  <2>2. CASE sessions'[s] = sessions[s]
    <3>1. Live(s) /\ sessions[s].user = requests[x].user
      BY <1>1, <2>1, <2>2 DEF Live
    <3> QED BY <1>2, <1>3, <1>5, <3>1 DEF ResetEndsSessions
  <2>3. CASE OpensSession(r, s)
    <3>1. s = r /\ requests[r].user = requests[x].user
          /\ requests[r].pc = "openSession"
      BY <2>1, <2>3 DEF OpensSession, NewSession
    <3>2. requests[r].op \in {"confirm", "login", "refresh"} /\ requests[r].user # NoId
      BY <1>0, <3>1, PhaseOp, NullAssumption
    <3> QED BY <1>0, <1>2, <1>3, <1>5, <3>1, <3>2 DEF Before
  <2>4. ~RevokesSession(r, s) /\ ~RotatesSession(r, s)
    <3>1. ASSUME RevokesSession(r, s) \/ RotatesSession(r, s) PROVE sessions'[s].revoked
      <4>1. sessions[s] \in Session
        BY <1>0, <3>1 DEF RevokesSession, RotatesSession, TypeInv, TypeOK
      <4> QED BY <3>1, <4>1 DEF RevokesSession, RotatesSession, Session
    <3> QED BY <1>1, <3>1
  <2>5. ~ReinsertsSession(r, s) /\ ~DeletesSession(r, s)
    BY <1>1 DEF ReinsertsSession, DeletesSession
  <2> QED BY <1>0, <2>2, <2>3, <2>4, <2>5, SessionWrites
<1> QED BY <1>4, <1>5

LEMMA StepAccountInv ==
    ASSUME AccountInv, NEW r \in RequestIds, Step(r)
    PROVE  AccountInv'
<1>0. /\ IsolationInv /\ CodeInv /\ Chosen /\ Rotates /\ RefreshedOnce /\ Before
      /\ ResetEndsSessions
  BY DEF AccountInv
<1>1. TypeInv /\ SessionInv /\ Issued /\ Consumed /\ Cleared /\ OtpUsedOnce /\ OneLiveOtp
  BY <1>0 DEF IsolationInv, CodeInv, SessionInv
<1>2. \A p \in RequestIds : InFlight(p)' => Concerns(requests[p])'
  BY <1>0, <1>1, StepConcerns
<1>3. IsolationInv'
  BY <1>0, <1>1, <1>2, StepSessionInv, StepUnregistered, StepApart DEF IsolationInv
<1>4. CodeInv'
  BY <1>0, <1>1, StepIssued, StepConsumed, StepCleared, StepUsedOnce, StepOneLive
     DEF CodeInv
<1> QED BY <1>0, <1>3, <1>4, StepChosen, StepRotates, StepRefreshedOnce, StepBefore,
           StepResetEnds DEF AccountInv

-----------------------------------------------------------------------------
(***************************************************************************)
(* Arrivals, the passing of time, and the initial state.                   *)
(***************************************************************************)
LEMMA ArrivedIsolation ==
    ASSUME Isolation = "account", AccountInv, NEW r \in RequestIds, Arrived(r)
    PROVE  IsolationInv'
<1> DEFINE n == requests'[r]
<1>0. IsolationInv /\ TypeInv /\ SessionInv /\ Issued
  BY DEF AccountInv, IsolationInv, CodeInv, SessionInv
<1>1. /\ requests[r].pc = "idle" /\ Arrival(r, n) /\ MayStart(r, n.keys)
      /\ \A o \in RequestIds \ {r} : requests'[o] = requests[o]
      /\ users' = users /\ sessions' = sessions /\ otps' = otps
  BY DEF Arrived
<1>2. SessionInv'
  BY <1>0, ArrivedSessionInv
<1>u. n.user # NoId => n.user \in Ids /\ users[n.user] # NoRow /\ KeysOf(n.user) \subseteq n.keys
  <2>1. CASE n.op = "refresh"
    <3>1. n.session \in Ids /\ Live(n.session) /\ n.user = sessions[n.session].user
          /\ n.keys = KeysOf(n.user)
      BY <1>1, <2>1 DEF Arrival
    <3>2. users[n.user] # NoRow /\ sessions[n.session] \in Session
      BY <1>0, <3>1 DEF Live, SessionInv, References, TypeInv, TypeOK
    <3> QED BY <3>1, <3>2 DEF Session
  <2>2. CASE n.op = "forgot"
    <3>1. n.user \in Ids /\ users[n.user] # NoRow /\ n.keys = {users[n.user].email}
      BY <1>1, <2>2 DEF Arrival
    <3> QED BY <3>1 DEF KeysOf
  <2>3. CASE n.op \notin {"refresh", "forgot"}
    BY <1>1, <2>3 DEF Arrival
  <2> QED BY <2>1, <2>2, <2>3
<1>3. Unregistered' /\ Known'
  <2>1. users[r] = NoRow
    BY <1>0, <1>1 DEF IsolationInv, Unregistered, Unmade
  <2>2. ASSUME NEW x \in RequestIds, n.user = x PROVE requests[x].pc \notin Unmade
    BY <1>0, <1>u, <2>2, Names DEF IsolationInv, Unregistered
  <2>3. \A q \in RequestIds : requests[q].user # r
    BY <1>0, <1>1 DEF IsolationInv, Known, Unmade
  <2>4. n.user # r
    BY <1>u, <2>1, Names
  <2>5. Unregistered'
    BY <1>0, <1>1, <2>1 DEF IsolationInv, Unregistered
  <2>6. ASSUME NEW q \in RequestIds, requests'[q].user \in RequestIds
        PROVE  requests'[requests'[q].user].pc \notin Unmade
    <3>1. CASE q = r
      BY <1>1, <2>2, <2>4, <2>6, <3>1
    <3>2. CASE q # r
      BY <1>0, <1>1, <2>3, <2>6, <3>2 DEF IsolationInv, Known
    <3> QED BY <3>1, <3>2
  <2> QED BY <2>5, <2>6 DEF Known
<1>4. Apart'
  <2>1. \A q \in RequestIds \ {r} : InFlight(q)' => requests[q].keys \cap n.keys = {}
    BY <1>1 DEF MayStart, InFlight
  <2>2. \A p, q \in RequestIds \ {r} :
          InFlight(p)' /\ InFlight(q)' /\ requests[p].keys \cap requests[q].keys # {} => p = q
    BY <1>0, <1>1 DEF IsolationInv, Apart, InFlight
  <2>3. ASSUME NEW p \in RequestIds, NEW q \in RequestIds, InFlight(p)', InFlight(q)',
               requests'[p].keys \cap requests'[q].keys # {}
        PROVE  p = q
    <3>1. CASE p # r /\ q # r
      BY <1>1, <2>2, <2>3, <3>1
    <3>2. CASE p = r /\ q # r
      BY <1>1, <2>1, <2>3, <3>2
    <3>3. CASE p # r /\ q = r
      BY <1>1, <2>1, <2>3, <3>3
    <3> QED BY <3>1, <3>2, <3>3
  <2> QED BY <2>3 DEF Apart
<1>5. Concerns(requests[r])'
  <2>1. n.user # NoId => users'[n.user] # NoRow /\ users'[n.user].email \in n.keys
    BY <1>1, <1>u DEF KeysOf
  <2>2. n.pc \in Sending \cup {"findAccount", "createUser"} => n.email \in n.keys
    <3>1. n.pc \in Sending => n.op \in {"register", "forgot"}
      BY <1>2 DEF SessionInv, TypeInv, Shape, Phase
    <3>2. n.op \in {"register", "forgot"} \/ n.pc \in {"findAccount", "createUser"}
             => n.email \in n.keys
      BY <1>1 DEF Arrival
    <3> QED BY <3>1, <3>2
  <2>3. n.pc \in Saving => n.want.email \in n.keys
    <3>1. n.pc \in Saving => n.op \in {"update", "updateStatus"}
      BY <1>2 DEF SessionInv, TypeInv, Shape, Phase
    <3> QED BY <1>1, <3>1 DEF Arrival
  <2>4. n.otp # NoId => n.code.email \in n.keys /\ otps'[n.otp].email \in n.keys
    <3>1. n.otp # NoId => n.op \in {"confirm", "reset"}
      BY <1>1 DEF Arrival
    <3> QED BY <1>1, <3>1 DEF Arrival, Validates, LiveOtps
  <2> QED BY <2>1, <2>2, <2>3, <2>4 DEF Concerns
<1>6. ASSUME NEW p \in RequestIds \ {r}, InFlight(p)' PROVE Concerns(requests[p])'
  <2>1. requests'[p] = requests[p] /\ InFlight(p)
    BY <1>1, <1>6 DEF InFlight
  <2>2. Concerns(requests[p])
    BY <1>0, <2>1 DEF IsolationInv
  <2> QED BY <1>1, <2>1, <2>2 DEF Concerns
<1> QED BY <1>2, <1>3, <1>4, <1>5, <1>6 DEF IsolationInv

LEMMA ArrivedCode ==
    ASSUME Isolation = "account", AccountInv, NEW r \in RequestIds, Arrived(r)
    PROVE  CodeInv'
<1> DEFINE n == requests'[r]
<1>0. /\ IsolationInv /\ TypeInv /\ Issued /\ Consumed /\ Cleared /\ OtpUsedOnce
      /\ OneLiveOtp
  BY DEF AccountInv, IsolationInv, CodeInv, SessionInv
<1>1. /\ requests[r].pc = "idle" /\ Arrival(r, n) /\ MayStart(r, n.keys)
      /\ \A o \in RequestIds \ {r} : requests'[o] = requests[o]
      /\ otps' = otps
  BY DEF Arrived
<1>2. n.pc \notin {"insertOtp", "revoke", "done", "mail", "discard"} \cup Ended
  BY <1>1 DEF Arrival, Ended
<1>3. n.otp # NoId => /\ n.otp \in Ids /\ n.pc = "findAccount"
                      /\ otps[n.otp] # NoRow /\ ~otps[n.otp].used
                      /\ otps[n.otp].email \in n.keys
  <2>1. n.otp # NoId => n.op \in {"confirm", "reset"}
    BY <1>1 DEF Arrival
  <2> QED BY <1>1, <2>1 DEF Arrival, Validates, LiveOtps
<1>4. Issued'
  <2>1. otps[r] = NoRow
    BY <1>0, <1>1 DEF Issued, Stored, Ended
  <2>2. ASSUME NEW q \in RequestIds, requests'[q].otp \in RequestIds
        PROVE  requests[requests'[q].otp].pc \in Stored
    <3>1. CASE q = r
      BY <1>0, <1>3, <2>2, <3>1, Names DEF Issued
    <3>2. CASE q # r
      BY <1>0, <1>1, <2>2, <3>2 DEF Issued
    <3> QED BY <3>1, <3>2
  <2>3. requests[r].pc \notin Stored
    BY <1>1 DEF Stored, Ended
  <2>4. ASSUME NEW q \in RequestIds, requests'[q].otp \in RequestIds
        PROVE  requests'[requests'[q].otp].pc \in Stored
    BY <1>1, <2>2, <2>3, <2>4
  <2>5. \A x \in RequestIds : requests'[x].pc \notin Stored => otps'[x] = NoRow
    BY <1>0, <1>1, <2>1 DEF Issued
  <2> QED BY <2>4, <2>5 DEF Issued
<1>5. Consumed'
  <2>1. ASSUME NEW q \in RequestIds, requests'[q].otp # NoId,
               requests'[q].pc \in {"openSession", "revoke", "done"}
        PROVE  SpentNext(requests'[q].otp)
    <3>1. q # r
      BY <1>2, <1>3, <2>1
    <3> QED BY <1>0, <1>1, <2>1, <3>1 DEF Consumed, Spent, SpentNext
  <2>2. ASSUME NEW p \in RequestIds \ {r}, n.otp # NoId, requests[p].otp = n.otp,
               InFlight(p)' \/ requests[p].pc = "done"
        PROVE  FALSE
    <3>1. CASE requests[p].pc = "done"
      BY <1>0, <1>3, <2>2, <3>1 DEF Consumed, Spent
    <3>2. CASE InFlight(p)'
      <4>1. InFlight(p)
        BY <1>1, <3>2 DEF InFlight
      <4>2. otps[n.otp].email \in requests[p].keys
        BY <1>0, <1>3, <2>2, <4>1 DEF IsolationInv, Concerns
      <4>3. requests[p].keys \cap n.keys = {}
        BY <1>1, <4>1 DEF MayStart
      <4> QED BY <1>3, <2>2, <4>2, <4>3
    <3> QED BY <2>2, <3>1, <3>2
  <2>3. ASSUME NEW q \in RequestIds, NEW p \in RequestIds, InFlight(q)',
               InFlight(p)' \/ requests'[p].pc = "done",
               requests'[q].otp # NoId, requests'[p].otp = requests'[q].otp
        PROVE  q = p
    <3>1. CASE q = r /\ p # r
      BY <1>1, <2>2, <2>3, <3>1
    <3>2. CASE q # r /\ p = r
      BY <1>1, <2>2, <2>3, <3>2
    <3>3. CASE q # r /\ p # r
      <4>1. requests'[q] = requests[q] /\ requests'[p] = requests[p]
        BY <1>1, <3>3
      <4>2. InFlight(q) /\ (InFlight(p) \/ requests[p].pc = "done")
        BY <2>3, <4>1 DEF InFlight
      <4> QED BY <1>0, <2>3, <4>1, <4>2 DEF Consumed
    <3> QED BY <3>1, <3>2, <3>3
  <2> QED BY <2>1, <2>3 DEF Consumed, Spent, SpentNext
<1>6. Cleared'
  BY <1>0, <1>1, <1>2 DEF Cleared, LiveOtps, Purpose
<1>7. OtpUsedOnce' /\ OneLiveOtp'
  BY <1>0, <1>1, <1>2 DEF OtpUsedOnce, OneLiveOtp, LiveOtps
<1> QED BY <1>4, <1>5, <1>6, <1>7 DEF CodeInv

LEMMA ArrivedAccountInv ==
    ASSUME Isolation = "account", AccountInv, NEW r \in RequestIds, Arrived(r)
    PROVE  AccountInv'
<1> DEFINE n == requests'[r]
<1>0. /\ IsolationInv /\ TypeInv /\ SessionInv /\ Chosen /\ Rotates /\ RefreshedOnce
      /\ Before /\ ResetEndsSessions
  BY DEF AccountInv, IsolationInv, SessionInv
<1>1. /\ requests[r].pc = "idle" /\ Arrival(r, n)
      /\ \A o \in RequestIds \ {r} : requests'[o] = requests[o]
      /\ users' = users /\ sessions' = sessions
  BY DEF Arrived
<1>2. n.pc \notin Ended \cup {"saveUser"}
  BY <1>1 DEF Arrival, Ended
<1>3. Chosen'
  <2>1. n.pc \in Saving => n.op \in {"update", "updateStatus"}
    BY <1>0, ArrivedTypeInv DEF TypeInv, Shape, Phase
  <2>2. n.pc \in Saving => n.want.password \in {r, users[n.user].password}
    BY <1>1, <2>1 DEF Arrival
  <2> QED BY <1>0, <1>1, <1>2, <2>2 DEF Chosen
<1>4. Rotates'
  <2>1. n.op = "refresh" => sessions[n.session] # NoRow /\ ~sessions[n.session].revoked
    BY <1>1 DEF Arrival, Live
  <2> QED BY <1>0, <1>1, <1>2, <2>1 DEF Rotates, InFlight, Ended
<1>5. RefreshedOnce'
  BY <1>0, <1>1, <1>2 DEF RefreshedOnce, Ended
<1>6. Before'
  <2> SUFFICES ASSUME NEW p \in RequestIds, NEW x \in RequestIds, InFlight(p)',
                      requests'[p].op \in {"confirm", "login", "refresh"},
                      requests'[x].op = "reset", requests'[x].pc = "done",
                      requests'[p].user # NoId, requests'[x].user = requests'[p].user
               PROVE  x \in requests'[p].after
    BY DEF Before
  <2>1. x # r /\ requests'[x] = requests[x]
    BY <1>1, <1>2 DEF Ended
  <2>2. CASE p = r
    BY <1>1, <2>1, <2>2 DEF Arrival
  <2>3. CASE p # r
    BY <1>0, <1>1, <2>1, <2>3 DEF Before, InFlight
  <2> QED BY <2>2, <2>3
<1>7. ResetEndsSessions'
  <2> SUFFICES ASSUME NEW x \in RequestIds, requests'[x].op = "reset",
                      requests'[x].pc = "done", NEW s \in Ids, Live(s),
                      sessions[s].user = requests'[x].user
               PROVE  s \in RequestIds /\ x \in requests'[s].after
    BY <1>1 DEF ResetEndsSessions, Live
  <2>1. x # r /\ requests'[x] = requests[x]
    BY <1>1, <1>2 DEF Ended
  <2>2. s \in RequestIds /\ x \in requests[s].after
    BY <1>0, <2>1 DEF ResetEndsSessions
  <2>3. s # r
    BY <1>0, <1>1 DEF Live, SessionInv, Unopened, Ended, Rotating
  <2> QED BY <1>1, <2>2, <2>3
<1> QED BY <1>3, <1>4, <1>5, <1>6, <1>7, ArrivedIsolation, ArrivedCode DEF AccountInv

LEMMA ExpiryCodes ==
    ASSUME TypeInv, Expiry, NEW o \in Ids
    PROVE  /\ otps'[o] = NoRow <=> otps[o] = NoRow
           /\ otps[o] # NoRow =>
                 /\ otps'[o].email = otps[o].email /\ otps'[o].purpose = otps[o].purpose
                 /\ otps'[o].used = otps[o].used
<1>1. ASSUME NEW i \in Ids, ExpireSession(i) PROVE otps' = otps
  BY <1>1 DEF ExpireSession
<1>2. ASSUME NEW i \in Ids, ExpireOtp(i)
      PROVE  \/ otps'[o] = otps[o]
             \/ otps[o] \in Otp /\ otps'[o] = [otps[o] EXCEPT !.expired = TRUE]
  <2>1. otps \in [Ids -> Otp \cup {NoRow}] /\ otps[i] # NoRow
    BY <1>2 DEF ExpireOtp, TypeInv, TypeOK
  <2>2. otps' = [otps EXCEPT ![i].expired = TRUE]
    BY <1>2 DEF ExpireOtp
  <2> QED BY <2>1, <2>2
<1>3. ASSUME otps[o] \in Otp
      PROVE  LET row == [otps[o] EXCEPT !.expired = TRUE] IN
             /\ row \in Otp /\ row # NoRow /\ otps[o] # NoRow
             /\ row.email = otps[o].email /\ row.purpose = otps[o].purpose
             /\ row.used = otps[o].used
  <2>1. [otps[o] EXCEPT !.expired = TRUE] \in Otp
    BY <1>3 DEF Otp
  <2> QED BY <1>3, <2>1, NullAssumption DEF Otp
<1> QED BY <1>1, <1>2, <1>3 DEF Expiry

LEMMA ExpiryAccountInv ==
    ASSUME AccountInv, Expiry
    PROVE  AccountInv'
<1>0. /\ IsolationInv /\ TypeInv /\ SessionInv /\ Issued /\ Consumed /\ Cleared
      /\ OtpUsedOnce /\ OneLiveOtp /\ Chosen /\ Rotates /\ RefreshedOnce /\ Before
      /\ ResetEndsSessions
  BY DEF AccountInv, IsolationInv, CodeInv, SessionInv
<1>1. /\ users' = users /\ requests' = requests
      /\ \A s \in Ids :
            /\ sessions'[s] = NoRow <=> sessions[s] = NoRow
            /\ sessions[s] # NoRow =>
                  /\ sessions'[s].user = sessions[s].user
                  /\ sessions'[s].revoked = sessions[s].revoked
                  /\ sessions[s].expired => sessions'[s].expired
  BY <1>0, ExpiryEffect
<1>2. \A o \in Ids :
         /\ otps'[o] = NoRow <=> otps[o] = NoRow
         /\ otps[o] # NoRow =>
               /\ otps'[o].email = otps[o].email /\ otps'[o].purpose = otps[o].purpose
               /\ otps'[o].used = otps[o].used
  BY <1>0, ExpiryCodes
<1>3. \A r \in RequestIds : (requests[r].otp # NoId => requests[r].otp \in Ids)
                            /\ (requests[r].op = "refresh" => requests[r].session \in Ids)
  BY <1>0, HeldIds, PhaseOp
<1>4. SessionInv'
  BY <1>0, ExpirySessionInv
<1>5. IsolationInv'
  <2>1. Unregistered' /\ Known' /\ Apart'
    BY <1>0, <1>1 DEF IsolationInv, Unregistered, Known, Apart, InFlight
  <2>2. ASSUME NEW r \in RequestIds, InFlight(r)' PROVE Concerns(requests[r])'
    <3>1. Concerns(requests[r])
      BY <1>0, <1>1, <2>2 DEF IsolationInv, InFlight
    <3> QED BY <1>1, <1>2, <1>3, <3>1 DEF Concerns
  <2> QED BY <1>4, <2>1, <2>2 DEF IsolationInv
<1>6. Issued'
  BY <1>0, <1>1, <1>2, Names DEF Issued
<1>7. Consumed'
  <2>1. \A o \in Ids : Spent(o) => SpentNext(o)
    BY <1>2 DEF Spent, SpentNext
  <2>2. \A q \in RequestIds :
          requests[q].pc \in {"openSession", "revoke", "done"} /\ requests[q].otp # NoId
             => SpentNext(requests[q].otp)
    BY <1>0, <1>3, <2>1 DEF Consumed
  <2>3. \A q, r \in RequestIds :
          /\ InFlight(q)' /\ (InFlight(r)' \/ requests'[r].pc = "done")
          /\ requests'[q].otp # NoId /\ requests'[r].otp = requests'[q].otp
          => q = r
    BY <1>0, <1>1 DEF Consumed, InFlight
  <2> QED BY <1>1, <2>2, <2>3 DEF Consumed, Spent, SpentNext
<1>8. \A e, p : LiveNext(e, p) = LiveOtps(e, p)
  BY <1>2 DEF LiveNext, LiveOtps
<1>9. Cleared'
  <2>1. \A r \in RequestIds : requests[r].pc = "insertOtp" =>
            LiveNext(requests[r].email, Purpose(r)) = {}
    BY <1>0, <1>8 DEF Cleared
  <2>2. \A r \in RequestIds : Purpose(r)' = Purpose(r)
    BY <1>1 DEF Purpose
  <2> QED BY <1>1, <2>1, <2>2 DEF Cleared, LiveNext, LiveOtps
<1>10. OneLiveOtp'
  <2>1. \A e \in Emails, p \in Purposes : \A i, j \in LiveNext(e, p) : i = j
    BY <1>0, <1>8 DEF OneLiveOtp
  <2> QED BY <2>1 DEF OneLiveOtp, LiveNext, LiveOtps
<1>11. OtpUsedOnce' /\ Chosen' /\ RefreshedOnce' /\ Before'
  BY <1>0, <1>1 DEF OtpUsedOnce, Chosen, RefreshedOnce, Before, InFlight
<1>12. Rotates'
  BY <1>0, <1>1, <1>3 DEF Rotates, InFlight
<1>13. ResetEndsSessions'
  <2>1. \A s \in Ids : Live(s)' => Live(s) /\ sessions'[s].user = sessions[s].user
    <3>1. \A s \in Ids : sessions[s] # NoRow => sessions[s].expired \in BOOLEAN
      BY <1>0 DEF TypeInv, TypeOK, Session
    <3> QED BY <1>1, <3>1 DEF Live
  <2> QED BY <1>0, <1>1, <2>1 DEF ResetEndsSessions
<1> QED BY <1>5, <1>6, <1>7, <1>9, <1>10, <1>11, <1>12, <1>13 DEF AccountInv, CodeInv

LEMMA InitAccountInv == Init => AccountInv
<1> SUFFICES ASSUME Init PROVE AccountInv
  OBVIOUS
<1>0. SessionInv
  BY InitSessionInv
<1>1. \A r \in RequestIds : requests[r] = Idle
  BY DEF Init
<1>2. \A r \in RequestIds :
         /\ requests[r].pc = "idle" /\ requests[r].op = "none"
         /\ requests[r].user = NoId /\ requests[r].otp = NoId
  BY <1>1 DEF Idle
<1>3. \A r \in RequestIds : r \in Ids /\ r \notin Old /\ users[r] = NoRow /\ otps[r] = NoRow
  BY NullAssumption DEF Init, Ids
<1>4. \A r \in RequestIds : ~InFlight(r)
  BY <1>2 DEF InFlight
<1>5. IsolationInv
  BY <1>0, <1>2, <1>3, <1>4, Names DEF IsolationInv, Unregistered, Known, Apart
<1>6. Issued /\ Consumed /\ Cleared /\ OtpUsedOnce
  BY <1>2, <1>3, <1>4, Names DEF Issued, Consumed, Cleared, OtpUsedOnce
<1>7. OneLiveOtp
  BY DEF Init, OneLiveOtp
<1>8. Chosen /\ Rotates /\ RefreshedOnce /\ Before /\ ResetEndsSessions
  BY <1>2, <1>4 DEF Chosen, Rotates, RefreshedOnce, Before, ResetEndsSessions, Saving
<1> QED BY <1>5, <1>6, <1>7, <1>8 DEF AccountInv, CodeInv

LEMMA NextAccountInv ==
    ASSUME Isolation = "account", AccountInv, [Next]_vars
    PROVE  AccountInv'
<1>0. TypeInv
  BY DEF AccountInv, IsolationInv, SessionInv
<1>1. CASE UNCHANGED vars
  <2>1. TypeInv' /\ SessionInv'
    BY <1>0, <1>1, NextSessionInv, NextTypeInv DEF AccountInv, IsolationInv
  <2>2. users' = users /\ otps' = otps /\ sessions' = sessions /\ requests' = requests
    BY <1>1 DEF vars
  <2>3. IsolationInv'
    BY <2>1, <2>2 DEF AccountInv, IsolationInv, Unregistered, Known, Apart, Concerns,
                      InFlight
  <2>4. CodeInv'
    BY <2>2 DEF AccountInv, CodeInv, Issued, Consumed, Cleared, OtpUsedOnce, OneLiveOtp,
                LiveOtps, Spent, InFlight, Purpose
  <2>5. Chosen' /\ Rotates' /\ RefreshedOnce' /\ Before' /\ ResetEndsSessions'
    BY <2>2 DEF AccountInv, Chosen, Rotates, RefreshedOnce, Before, ResetEndsSessions,
                InFlight, Live
  <2> QED BY <2>3, <2>4, <2>5 DEF AccountInv
<1>2. ASSUME NEW r \in RequestIds, Start(r) PROVE AccountInv'
  BY <1>0, <1>2, StartEffect, ArrivedAccountInv
<1>3. ASSUME NEW r \in RequestIds, Step(r) PROVE AccountInv'
  BY <1>3, StepAccountInv
<1> QED BY <1>1, <1>2, <1>3, ExpiryAccountInv DEF Next, Quiet

-----------------------------------------------------------------------------
LEMMA AccountHolds == Isolation = "account" => (Spec => []AccountInv)
<1> SUFFICES ASSUME Isolation = "account" PROVE Spec => []AccountInv
  OBVIOUS
<1>1. AccountInv /\ [Next]_vars => AccountInv'
  BY NextAccountInv
<1> QED BY <1>1, InitAccountInv, PTL DEF Spec

(***************************************************************************)
(* No two refreshes of one session are both answered with tokens (refresh  *)
(* of AuthService), when the requests of an account come one at a time.    *)
(* Without that hypothesis the run race_refresh refutes it.                *)
(***************************************************************************)
THEOREM RefreshesOnce == Isolation = "account" => (Spec => []RefreshedOnce)
<1> SUFFICES ASSUME Isolation = "account" PROVE Spec => []RefreshedOnce
  OBVIOUS
<1>1. AccountInv => RefreshedOnce
  BY DEF AccountInv
<1> QED BY <1>1, AccountHolds, PTL

(***************************************************************************)
(* Once a password reset is answered, the good sessions of its account     *)
(* were opened by requests that arrived after the answer (resetPassword    *)
(* and issueTokens of AuthService).                                        *)
(***************************************************************************)
THEOREM ResetsEndSessions == Isolation = "account" => (Spec => []ResetEndsSessions)
<1> SUFFICES ASSUME Isolation = "account" PROVE Spec => []ResetEndsSessions
  OBVIOUS
<1>1. AccountInv => ResetEndsSessions
  BY DEF AccountInv
<1> QED BY <1>1, AccountHolds, PTL

(***************************************************************************)
(* No two confirmations or resets succeed with the same code (validateOtp, *)
(* confirmRegisterOtp and resetPassword of AuthService).                   *)
(***************************************************************************)
THEOREM CodesUsedOnce == Isolation = "account" => (Spec => []OtpUsedOnce)
<1> SUFFICES ASSUME Isolation = "account" PROVE Spec => []OtpUsedOnce
  OBVIOUS
<1>1. AccountInv => OtpUsedOnce
  BY DEF AccountInv, CodeInv
<1> QED BY <1>1, AccountHolds, PTL

(***************************************************************************)
(* An address never has two codes of one purpose to use (createOtp of      *)
(* AuthService), although the DELETE, the INSERT and the mail are separate *)
(* statements any of which may fail.                                       *)
(***************************************************************************)
THEOREM OneLiveCode == Isolation = "account" => (Spec => []OneLiveOtp)
<1> SUFFICES ASSUME Isolation = "account" PROVE Spec => []OneLiveOtp
  OBVIOUS
<1>1. AccountInv => OneLiveOtp
  BY DEF AccountInv, CodeInv
<1> QED BY <1>1, AccountHolds, PTL

LEMMA NextPassword ==
    ASSUME AccountInv, [Next]_vars, NEW u \in Ids, users[u] # NoRow, users'[u] # NoRow,
           users'[u].password # users[u].password
    PROVE  users'[u].password \in RequestIds /\ InFlight(users'[u].password)
<1>0. IsolationInv /\ Chosen /\ TypeInv
  BY DEF AccountInv, IsolationInv, SessionInv
<1>1. users' # users
  OBVIOUS
<1>2. ASSUME NEW r \in RequestIds, Start(r) PROVE FALSE
  BY <1>0, <1>1, <1>2, StartEffect DEF Arrived
<1>3. ~Expiry
  BY <1>0, <1>1, ExpiryEffect
<1>4. PICK r \in RequestIds : Step(r)
  BY <1>1, <1>2, <1>3 DEF Next, Quiet, vars
<1> QED BY <1>0, <1>4, StepPassword

(***************************************************************************)
(* A password is only replaced by the one a request in progress has        *)
(* chosen: the save() of an account loaded earlier never puts an old one   *)
(* back (update and updatePasswordHash of UsersService).                   *)
(***************************************************************************)
THEOREM PasswordsKept == Isolation = "account" => (Spec => PasswordKept)
<1> SUFFICES ASSUME Isolation = "account" PROVE Spec => PasswordKept
  OBVIOUS
<1>1. AccountInv /\ [Next]_vars =>
         [\A u \in Ids :
             LET old == users[u]
                 new == users'[u]
             IN  old # NoRow /\ new # NoRow /\ new.password # old.password =>
                    new.password \in RequestIds /\ InFlight(new.password)]_vars
  BY NextPassword
<1> QED BY <1>1, AccountHolds, PTL DEF Spec, PasswordKept

=============================================================================
