--------------------------- MODULE SessionsProofs ---------------------------
(***************************************************************************)
(* Proofs about Sessions, for every number of requests, accounts and       *)
(* addresses, whatever fails and however requests overlap.                 *)
(***************************************************************************)
EXTENDS Sessions, TLAPS

(***************************************************************************)
(* Which operation a handler in each phase is about, and what it has at    *)
(* hand there.                                                             *)
(***************************************************************************)
Sending   == {"clear", "insertOtp", "mail", "discard"}
Consuming == {"consume", "consumeOtp", "reinsertOtp"}
Rotating  == {"rotate", "rotateSession", "reinsertSession"}
Saving    == {"select", "saveUser", "reinsertUser"}

Phase(q) ==
    /\ q.pc = "idle" <=> q.op = "none"
    /\ q.pc \in Sending => q.op \in {"register", "forgot"}
    /\ q.pc \in {"findAccount"} \cup Consuming => q.op \in {"confirm", "reset"}
    /\ q.pc = "createUser" => q.op \in {"confirm", "create"}
    /\ q.pc \in {"setPassword", "revoke"} => q.op = "reset"
    /\ q.pc \in {"checkUser"} \cup Rotating => q.op = "refresh"
    /\ q.pc = "openSession" => q.op \in {"confirm", "login", "refresh"}
    /\ q.pc \in Saving => q.op \in {"update", "updateStatus"}
    /\ q.pc = "delete" => q.op = "remove"

\* A request that makes an account, or is about to.
Creating(q) == q.pc = "createUser" \/ (q.pc = "findAccount" /\ q.op = "confirm")

Shape(q) ==
    /\ q \in Request
    /\ Phase(q)
    /\ q.pc \in Sending \cup {"findAccount", "createUser"} => q.email \in Emails
    /\ q.op \in {"confirm", "reset"} => q.otp \in Ids
    /\ q.op \in {"confirm", "reset"} /\ q.pc \notin Ended => q.code \in Otp
    /\ q.pc \in Consuming \cup Rotating \cup Saving
                \cup {"setPassword", "revoke", "checkUser", "openSession", "delete"}
          => q.user \in Ids
    /\ q.pc \in Saving => q.want \in User
    /\ Creating(q) => q.want \in User /\ q.want.email = q.email
    /\ q.otp # NoId => q.op \in {"confirm", "reset"}
    /\ q.session # NoId => q.op = "refresh"
    /\ q.op = "refresh" => q.session \in Ids /\ q.user \in Ids
    /\ q.pc = "idle" => q.user = NoId

TypeInv ==
    /\ TypeOK
    /\ \A r \in RequestIds : Shape(requests[r])

-----------------------------------------------------------------------------
LEMMA IdleShape == Shape(Idle)
  BY NullAssumption
     DEF Shape, Creating, Phase, Idle, Request, PcValues, Ended, Sending, Consuming, Rotating,
         Saving, Ids

\* The phase that follows another one without leaving the handler.
Moves == {<<"clear", "insertOtp">>, <<"insertOtp", "mail">>, <<"mail", "discard">>,
          <<"findAccount", "createUser">>, <<"setPassword", "consume">>,
          <<"consume", "consumeOtp">>, <<"consume", "reinsertOtp">>,
          <<"checkUser", "openSession">>, <<"openSession", "rotate">>,
          <<"rotate", "rotateSession">>, <<"rotate", "reinsertSession">>}

LEMMA EndShape ==
    ASSUME NEW q, Shape(q), q.pc # "idle", NEW pc \in Ended
    PROVE  Shape(At(q, pc))
<1> DEFINE n == At(q, pc)
<1>1. n = [Idle EXCEPT !.pc = pc, !.op = q.op, !.user = q.user, !.otp = q.otp,
                       !.session = q.session, !.after = q.after]
  BY DEF At
<1>2. /\ n.pc = pc /\ n.op = q.op /\ n.user = q.user /\ n.otp = q.otp
      /\ n.session = q.session
  BY <1>1 DEF Idle
<1>3. n \in Request
  BY <1>1 DEF Idle, Request, Shape, PcValues
<1>4. q.op # "none" /\ pc \notin {"idle", "findAccount", "createUser", "setPassword",
        "revoke", "checkUser", "openSession", "delete"}
        \cup Sending \cup Consuming \cup Rotating \cup Saving
  BY DEF Shape, Phase, Ended, Sending, Consuming, Rotating, Saving
<1> HIDE DEF n
<1>5. Phase(n)
  BY <1>2, <1>4 DEF Phase
<1>6. Shape(n)
  BY <1>2, <1>3, <1>4, <1>5 DEF Shape, Creating
<1> QED BY <1>6 DEF n

LEMMA MoveShape ==
    ASSUME NEW q, Shape(q), NEW pc, 
           \/ <<q.pc, pc>> \in Moves /\ (pc = "createUser" => q.op = "confirm")
                                     /\ (pc = "rotate" => q.op = "refresh")
           \/ q.pc \in Consuming /\ pc = "openSession" /\ q.op = "confirm"
           \/ q.pc \in Consuming /\ pc = "revoke" /\ q.op = "reset"
    PROVE  Shape([q EXCEPT !.pc = pc])
<1> DEFINE n == [q EXCEPT !.pc = pc]
<1> USE DEF Sending, Consuming, Rotating, Saving, Ended
<1>1. pc \in PcValues \ Ended /\ pc # "idle"
  BY DEF Moves, PcValues
<1>2. /\ n.pc = pc /\ n.op = q.op /\ n.user = q.user /\ n.otp = q.otp
      /\ n.session = q.session /\ n.email = q.email /\ n.code = q.code
      /\ n.want = q.want /\ n \in Request
  BY <1>1 DEF Shape, Request
<1> HIDE DEF n
<1>3. Phase(n)
  BY <1>2 DEF Shape, Phase, Moves
<1>4. /\ n.pc \in Sending \cup {"findAccount", "createUser"} => n.email \in Emails
      /\ n.op \in {"confirm", "reset"} => n.otp \in Ids
      /\ n.op \in {"confirm", "reset"} /\ n.pc \notin Ended => n.code \in Otp
  <2>1. pc \in Sending \cup {"findAccount", "createUser"}
          => q.pc \in Sending \cup {"findAccount", "createUser"}
    BY DEF Moves
  <2>2. q.pc \notin Ended
    BY DEF Moves
  <2> QED BY <1>2, <2>1, <2>2 DEF Shape
<1>5. n.pc \in Consuming \cup Rotating \cup Saving
                \cup {"setPassword", "revoke", "checkUser", "openSession", "delete"}
          => n.user \in Ids
  <2>1. n.pc \in Consuming \cup Rotating \cup Saving
                \cup {"setPassword", "revoke", "checkUser", "openSession", "delete"}
          => q.pc \in Consuming \cup Rotating \cup Saving
                \cup {"setPassword", "revoke", "checkUser", "openSession", "delete"}
    BY <1>2 DEF Moves
  <2> QED BY <1>2, <2>1 DEF Shape
<1>6. n.pc \notin Saving
  BY <1>2 DEF Moves
<1>7. Creating(n) => n.want \in User /\ n.want.email = n.email
  <2>1. Creating(n) => Creating(q)
    BY <1>2 DEF Creating, Moves
  <2> QED BY <1>2, <2>1 DEF Shape
<1>8. Shape(n)
  BY <1>1, <1>2, <1>3, <1>4, <1>5, <1>6, <1>7 DEF Shape
<1> QED BY <1>8 DEF n

\* One request goes on as q.
LEMMA SetEffect ==
    ASSUME TypeInv, NEW r \in RequestIds, NEW q,
           requests' = [requests EXCEPT ![r] = q]
    PROVE  requests'[r] = q /\ \A o \in RequestIds \ {r} : requests'[o] = requests[o]
  BY DEF TypeInv, TypeOK

LEMMA GotoEffect ==
    ASSUME TypeInv, NEW r \in RequestIds, NEW pc, Goto(r, pc)
    PROVE  /\ \A o \in RequestIds \ {r} : requests'[o] = requests[o]
           /\ requests'[r].pc = pc
           /\ requests'[r].op = requests[r].op
           /\ requests'[r].user = requests[r].user
           /\ requests'[r].otp = requests[r].otp
           /\ requests'[r].session = requests[r].session
           /\ requests'[r].after = requests[r].after
           /\ pc \notin Ended =>
                 /\ requests'[r].keys = requests[r].keys
                 /\ requests'[r].email = requests[r].email
                 /\ requests'[r].code = requests[r].code
                 /\ requests'[r].want = requests[r].want
                 /\ requests'[r].diff = requests[r].diff
<1>1. requests'[r] = At(requests[r], pc) /\ requests[r] \in Request
      /\ \A o \in RequestIds \ {r} : requests'[o] = requests[o]
  BY DEF TypeInv, TypeOK, Goto
<1>2. CASE pc \in Ended
  BY <1>1, <1>2 DEF At, Idle
<1>3. CASE pc \notin Ended
  BY <1>1, <1>3 DEF At, Request
<1> QED BY <1>2, <1>3

TablesOK ==
    /\ users' \in [Ids -> User \cup {NoRow}]
    /\ otps' \in [Ids -> Otp \cup {NoRow}]
    /\ sessions' \in [Ids -> Session \cup {NoRow}]
    /\ now' \in Nat

LEMMA OneRequest ==
    ASSUME TypeInv, TablesOK, NEW r \in RequestIds, NEW q, Shape(q),
           requests' = [requests EXCEPT ![r] = q]
    PROVE  TypeInv'
<1>1. requests' \in [RequestIds -> Request]
  BY DEF TypeInv, TypeOK, Shape
<1>2. \A o \in RequestIds : Shape(requests'[o])
  BY SetEffect DEF TypeInv
<1> QED BY <1>1, <1>2 DEF TypeInv, TypeOK, TablesOK

LEMMA GotoTypeInv ==
    ASSUME TypeInv, TablesOK, NEW r \in RequestIds, InFlight(r), NEW pc, Goto(r, pc),
           \/ pc \in Ended
           \/ <<requests[r].pc, pc>> \in Moves
                 /\ (pc = "createUser" => requests[r].op = "confirm")
                 /\ (pc = "rotate" => requests[r].op = "refresh")
           \/ requests[r].pc \in Consuming /\ pc = AfterConsume(r)
    PROVE  TypeInv'
<1> DEFINE q == requests[r]
<1>1. Shape(q) /\ q.pc # "idle"
  BY DEF TypeInv, InFlight
<1>2. Shape(At(q, pc))
  <2>1. CASE pc \in Ended
    BY <1>1, <2>1, EndShape
  <2>2. CASE pc \notin Ended
    <3>1. q.pc \in Consuming => q.op \in {"confirm", "reset"}
      BY <1>1 DEF Shape, Phase
    <3>2. Shape([q EXCEPT !.pc = pc])
      BY <1>1, <2>2, <3>1, MoveShape DEF AfterConsume
    <3> QED BY <2>2, <3>2 DEF At
  <2> QED BY <2>1, <2>2
<1> QED BY <1>2, OneRequest DEF Goto

LEMMA InitTypeInv == Init => TypeInv
<1> SUFFICES ASSUME Init PROVE TypeInv
  OBVIOUS
<1>1. requests \in [RequestIds -> Request] /\ \A r \in RequestIds : requests[r] = Idle
  BY IdleShape DEF Init, Shape
<1>2. users \in [Ids -> User \cup {NoRow}]
  BY InputAssumption DEF Init, Ids, User, Statuses
<1>3. otps \in [Ids -> Otp \cup {NoRow}] /\ now \in Nat
  BY InputAssumption DEF Init
<1>4. sessions \in [Ids -> Session \cup {NoRow}]
  BY DEF Init, Ids, Session
<1> QED BY <1>1, <1>2, <1>3, <1>4, IdleShape DEF TypeInv, TypeOK

-----------------------------------------------------------------------------
(***************************************************************************)
(* What the arrival of a request does.                                     *)
(***************************************************************************)
LEMMA KeysType == ASSUME TypeInv, NEW u \in Ids PROVE KeysOf(u) \subseteq Emails
  BY DEF TypeInv, TypeOK, KeysOf, User

LEMMA BeginEffect ==
    ASSUME TypeInv, NEW r \in RequestIds, NEW op, NEW keys, NEW q \in Request,
           Begin(r, op, keys, q)
    PROVE  /\ requests[r].pc = "idle"
           /\ \A o \in RequestIds \ {r} : requests'[o] = requests[o]
           /\ UNCHANGED <<users, otps, sessions, now>>
           /\ requests' = [requests EXCEPT ![r] = requests'[r]]
           /\ requests'[r].pc = q.pc /\ requests'[r].op = op
           /\ requests'[r].keys = keys /\ requests'[r].email = q.email
           /\ requests'[r].user = q.user /\ requests'[r].otp = q.otp
           /\ requests'[r].code = q.code /\ requests'[r].session = q.session
           /\ requests'[r].want = q.want /\ requests'[r].diff = q.diff
           /\ requests'[r].after = {x \in RequestIds :
                 requests[x].op = "reset" /\ requests[x].pc = "done"}
<1> DEFINE n == [q EXCEPT !.op = op, !.keys = keys,
                          !.after = {x \in RequestIds :
                              requests[x].op = "reset" /\ requests[x].pc = "done"}]
<1>1. requests' = [requests EXCEPT ![r] = n]
  BY DEF Begin
<1>2. requests'[r] = n /\ \A o \in RequestIds \ {r} : requests'[o] = requests[o]
  BY <1>1, SetEffect
<1>3. /\ n.pc = q.pc /\ n.op = op /\ n.keys = keys /\ n.email = q.email
      /\ n.user = q.user /\ n.otp = q.otp /\ n.code = q.code
      /\ n.session = q.session /\ n.want = q.want /\ n.diff = q.diff
      /\ n.after = {x \in RequestIds :
                 requests[x].op = "reset" /\ requests[x].pc = "done"}
  BY DEF Request
<1> HIDE DEF n
<1> QED BY <1>1, <1>2, <1>3 DEF Begin, MayStart

OpValues == {"register", "confirm", "login", "refresh", "forgot", "reset",
             "create", "update", "updateStatus", "remove"}

LEMMA BeginTypeInv ==
    ASSUME TypeInv, NEW r \in RequestIds, NEW op \in OpValues,
           NEW keys \in SUBSET Emails,
           NEW q \in Request, Begin(r, op, keys, q), Shape(requests'[r])
    PROVE  TypeInv'
  BY BeginEffect, OneRequest DEF TypeInv, TypeOK, TablesOK

LEMMA BeginRequest ==
    ASSUME TypeInv, NEW r \in RequestIds, NEW op \in OpValues,
           NEW keys \in SUBSET Emails, NEW q \in Request, Begin(r, op, keys, q)
    PROVE  requests'[r] \in Request
<1>1. requests'[r] = [q EXCEPT !.op = op, !.keys = keys,
                          !.after = {x \in RequestIds :
                              requests[x].op = "reset" /\ requests[x].pc = "done"}]
  BY SetEffect DEF Begin
<1> QED BY <1>1 DEF Request, OpValues

\* The request n that arrives as r, with what its handler found first.
Arrival(r, n) ==
    /\ n \in Request
    /\ n.after = {x \in RequestIds :
                     requests[x].op = "reset" /\ requests[x].pc = "done"}
    /\ n.otp # NoId => n.op \in {"confirm", "reset"}
    /\ n.session # NoId => n.op = "refresh"
    /\ \/ /\ n.op = "register" /\ n.pc = "clear"
          /\ n.email \in Emails /\ n.keys = {n.email} /\ n.user = NoId
       \/ /\ n.op = "forgot" /\ n.pc = "clear"
          /\ n.user \in Ids /\ users[n.user] # NoRow
          /\ n.email = users[n.user].email /\ n.keys = {n.email}
       \/ /\ n.op \in {"confirm", "reset"} /\ n.pc = "findAccount"
          /\ n.email \in Emails /\ n.keys = {n.email} /\ n.user = NoId
          /\ n.otp \in Ids /\ n.code = otps[n.otp]
          /\ n.op = "confirm" => n.want \in User /\ n.want.email = n.email
          /\ \E p \in Purposes : Validates(n.otp, n.email, p)
       \/ /\ n.op = "login" /\ n.pc = "openSession" /\ n.email = NoId
          /\ n.user \in Ids /\ users[n.user] # NoRow /\ n.keys = KeysOf(n.user)
       \/ /\ n.op = "refresh" /\ n.pc = "checkUser" /\ n.email = NoId
          /\ n.session \in Ids /\ n.session \in Delivered /\ Live(n.session)
          /\ n.user = sessions[n.session].user /\ n.keys = KeysOf(n.user)
       \/ /\ n.op = "create" /\ n.pc = "createUser"
          /\ n.email \in Emails /\ n.keys = {n.email} /\ n.user = NoId
          /\ n.want \in User /\ n.want.email = n.email
       \/ /\ n.op \in {"update", "updateStatus"} /\ n.pc = "select" /\ n.email = NoId
          /\ n.user \in Ids /\ users[n.user] # NoRow /\ KeysOf(n.user) \subseteq n.keys
          /\ n.want \in User /\ n.want.email \in n.keys
          /\ n.want.password \in {r, users[n.user].password}
       \/ /\ n.op = "remove" /\ n.pc = "delete" /\ n.email = NoId
          /\ n.user \in Ids /\ users[n.user] # NoRow /\ n.keys = KeysOf(n.user)

Arrived(r) ==
    /\ requests[r].pc = "idle" /\ MayStart(r, requests'[r].keys)
    /\ \A o \in RequestIds \ {r} : requests'[o] = requests[o]
    /\ UNCHANGED <<users, otps, sessions, now>>
    /\ requests' = [requests EXCEPT ![r] = requests'[r]]
    /\ Arrival(r, requests'[r])

LEMMA StartEffect ==
    ASSUME TypeInv, NEW r \in RequestIds, Start(r)
    PROVE  Arrived(r)
<1> DEFINE n == requests'[r]
<1>0. ASSUME NEW op \in OpValues, NEW keys \in SUBSET Emails, NEW q \in Request,
             Begin(r, op, keys, q), Arrival(r, n)
      PROVE  Arrived(r)
  <2>0. MayStart(r, keys)
    BY <1>0 DEF Begin
  <2>1. MayStart(r, n.keys)
    BY <1>0, <2>0, BeginEffect
  <2> HIDE DEF n
  <2> QED BY <1>0, <2>1, BeginEffect DEF Arrived, n
<1> USE DEF OpValues
<1>a. \A i \in Ids : i # NoId
  BY NullAssumption
<1>1. ASSUME NEW e \in Emails, RequestRegisterOtp(r, e) PROVE Arrived(r)
  <2> DEFINE q == [Idle EXCEPT !.pc = "clear", !.email = e]
  <2>1. q \in Request /\ Begin(r, "register", {e}, q)
    BY <1>1 DEF RequestRegisterOtp, Idle, Request, PcValues
  <2>2. q.pc = "clear" /\ q.email = e /\ q.user = NoId /\ q.otp = NoId /\ q.session = NoId
    BY DEF Idle
  <2> HIDE DEF q
  <2>3. n \in Request
    BY <2>1, BeginRequest
  <2>4. Arrival(r, n)
    BY <2>1, <2>2, <2>3, BeginEffect DEF Arrival
  <2> QED BY <1>0, <2>1, <2>4
<1>2. ASSUME NEW e \in Emails, NEW status \in Statuses \cup {Unset},
             CreateByAdmin(r, e, status)
      PROVE  Arrived(r)
  <2> DEFINE want == [email |-> e, status |-> OrElse(status, "ACTIF"), password |-> r]
             q == [Idle EXCEPT !.pc = "createUser", !.email = e, !.want = want]
  <2>0. want \in User /\ want.email = e
    BY DEF User, OrElse, Statuses, Ids
  <2>b. Begin(r, "create", {e}, q)
    BY <1>2 DEF CreateByAdmin
  <2> HIDE DEF want
  <2>1. q \in Request /\ Begin(r, "create", {e}, q)
    BY <2>0, <2>b DEF Idle, Request, PcValues
  <2>2. q.pc = "createUser" /\ q.email = e /\ q.user = NoId /\ q.otp = NoId
        /\ q.session = NoId /\ q.want = want
    BY DEF Idle
  <2> HIDE DEF q
  <2>3. n \in Request
    BY <2>1, BeginRequest
  <2>4. Arrival(r, n)
    BY <2>0, <2>1, <2>2, <2>3, BeginEffect DEF Arrival
  <2> QED BY <1>0, <2>1, <2>4
<1>3. ASSUME NEW e \in Emails, NEW o \in Ids, NEW op \in {"confirm", "reset"},
             NEW p \in Purposes, Validates(o, e, p), NEW q \in Request,
             q.pc = "findAccount" /\ q.email = e /\ q.user = NoId /\ q.otp = o
                /\ q.session = NoId /\ q.code = otps[o],
             op = "confirm" => q.want \in User /\ q.want.email = e,
             Begin(r, op, {e}, q)
      PROVE  Arrived(r)
  <2>3. n \in Request
    BY <1>3, BeginRequest
  <2>4. Arrival(r, n)
    BY <1>3, <2>3, BeginEffect DEF Arrival
  <2> QED BY <1>0, <1>3, <2>4
<1>4. ASSUME NEW u \in Ids, ForgotPassword(r, u) PROVE Arrived(r)
  <2> DEFINE q == [Idle EXCEPT !.pc = "clear", !.email = users[u].email, !.user = u]
  <2>0. users[u].email \in Emails /\ users[u] # NoRow /\ KeysOf(u) = {users[u].email}
    BY <1>4 DEF ForgotPassword, TypeInv, TypeOK, User, KeysOf
  <2>1. q \in Request /\ Begin(r, "forgot", KeysOf(u), q)
    BY <1>4, <2>0 DEF ForgotPassword, Idle, Request, PcValues
  <2>2. q.pc = "clear" /\ q.email = users[u].email /\ q.user = u /\ q.otp = NoId
        /\ q.session = NoId
    BY DEF Idle
  <2> HIDE DEF q
  <2>3. n \in Request
    BY <2>1, BeginRequest, KeysType
  <2>4. Arrival(r, n)
    BY <2>0, <2>1, <2>2, <2>3, BeginEffect DEF Arrival
  <2> QED BY <1>0, <2>1, <2>4, KeysType
<1>5. ASSUME NEW u \in Ids, Login(r, u) PROVE Arrived(r)
  <2> DEFINE q == [Idle EXCEPT !.pc = "openSession", !.user = u]
  <2>1. q \in Request /\ Begin(r, "login", KeysOf(u), q) /\ users[u] # NoRow
    BY <1>5 DEF Login, Idle, Request, PcValues
  <2>2. q.pc = "openSession" /\ q.email = NoId /\ q.user = u /\ q.otp = NoId
        /\ q.session = NoId
    BY DEF Idle
  <2> HIDE DEF q
  <2>3. n \in Request
    BY <2>1, BeginRequest, KeysType
  <2>4. Arrival(r, n)
    BY <2>1, <2>2, <2>3, BeginEffect DEF Arrival
  <2> QED BY <1>0, <2>1, <2>4, KeysType
<1>6. ASSUME NEW u \in Ids, Remove(r, u) PROVE Arrived(r)
  <2> DEFINE q == [Idle EXCEPT !.pc = "delete", !.user = u]
  <2>1. q \in Request /\ Begin(r, "remove", KeysOf(u), q) /\ users[u] # NoRow
    BY <1>6 DEF Remove, Idle, Request, PcValues
  <2>2. q.pc = "delete" /\ q.email = NoId /\ q.user = u /\ q.otp = NoId
        /\ q.session = NoId
    BY DEF Idle
  <2> HIDE DEF q
  <2>3. n \in Request
    BY <2>1, BeginRequest, KeysType
  <2>4. Arrival(r, n)
    BY <2>1, <2>2, <2>3, BeginEffect DEF Arrival
  <2> QED BY <1>0, <2>1, <2>4, KeysType
<1>7. ASSUME NEW s \in Ids, Refresh(r, s) PROVE Arrived(r)
  <2> DEFINE q == [Idle EXCEPT !.pc = "checkUser", !.user = sessions[s].user,
                               !.session = s]
  <2>0. sessions[s].user \in Ids /\ s \in Delivered /\ Live(s)
    BY <1>7 DEF Refresh, Live, TypeInv, TypeOK, Session
  <2>1. q \in Request /\ Begin(r, "refresh", KeysOf(sessions[s].user), q)
    BY <1>7, <2>0 DEF Refresh, Idle, Request, PcValues
  <2>2. q.pc = "checkUser" /\ q.email = NoId /\ q.user = sessions[s].user
        /\ q.otp = NoId /\ q.session = s
    BY DEF Idle
  <2> HIDE DEF q
  <2>3. n \in Request
    BY <2>0, <2>1, BeginRequest, KeysType
  <2>4. Arrival(r, n)
    BY <2>0, <2>1, <2>2, <2>3, BeginEffect, KeysType DEF Arrival
  <2> QED BY <1>0, <2>0, <2>1, <2>4, KeysType
<1>8. ASSUME NEW u \in Ids, users[u] # NoRow, NEW op \in {"update", "updateStatus"},
             NEW keys \in SUBSET Emails, KeysOf(u) \subseteq keys,
             NEW want \in User, want.email \in keys,
             want.password \in {r, users[u].password},
             Begin(r, op, keys, [Idle EXCEPT !.pc = "select", !.user = u, !.want = want])
      PROVE  Arrived(r)
  <2> DEFINE q == [Idle EXCEPT !.pc = "select", !.user = u, !.want = want]
  <2>1. q \in Request /\ Begin(r, op, keys, q)
    BY <1>8 DEF Idle, Request, PcValues
  <2>2. q.pc = "select" /\ q.email = NoId /\ q.user = u /\ q.otp = NoId
        /\ q.session = NoId /\ q.want = want
    BY DEF Idle
  <2> HIDE DEF q
  <2>3. n \in Request
    BY <2>1, BeginRequest
  <2>4. Arrival(r, n)
    BY <1>8, <2>1, <2>2, <2>3, BeginEffect DEF Arrival
  <2> QED BY <1>0, <2>1, <2>4
<1>9. ASSUME NEW u \in Ids, NEW body \in Bodies, Update(r, u, body) PROVE Arrived(r)
  <2> DEFINE want == [email |-> OrElse(body.email, users[u].email),
                      status |-> OrElse(body.status, users[u].status),
                      password |-> IF body.password THEN r ELSE users[u].password]
             keys == KeysOf(u) \cup ({body.email} \ {Unset})
  <2>1. body \in Body /\ users[u] \in User /\ KeysOf(u) = {users[u].email}
        /\ users[u] # NoRow
    BY <1>9, InputAssumption DEF Update, TypeInv, TypeOK, KeysOf
  <2>2. keys \in SUBSET Emails /\ want.email \in keys
    BY <2>1 DEF Body, User, OrElse
  <2>3. want.password \in {r, users[u].password} /\ want.password \in Ids
    BY <2>1 DEF Ids, User
  <2>4. want.status \in Statuses /\ want.email \in Emails
    BY <2>1, <2>2 DEF Body, User, OrElse
  <2>5. want \in User
    BY <2>3, <2>4 DEF User
  <2>6. Begin(r, "update", keys, [Idle EXCEPT !.pc = "select", !.user = u, !.want = want])
    BY <1>9 DEF Update
  <2> HIDE DEF want, keys
  <2> QED BY <1>8, <2>1, <2>2, <2>3, <2>5, <2>6 DEF keys
<1>10. ASSUME NEW u \in Ids, NEW status \in Statuses, UpdateStatus(r, u, status)
       PROVE  Arrived(r)
  <2> DEFINE want == [users[u] EXCEPT !.status = status]
  <2>1. users[u] \in User /\ KeysOf(u) = {users[u].email} /\ users[u] # NoRow
    BY <1>10 DEF UpdateStatus, TypeInv, TypeOK, KeysOf
  <2>2. want \in User /\ want.email = users[u].email
        /\ want.password = users[u].password
    BY <2>1 DEF User
  <2>3. Begin(r, "updateStatus", KeysOf(u),
              [Idle EXCEPT !.pc = "select", !.user = u, !.want = want])
    BY <1>10 DEF UpdateStatus
  <2> HIDE DEF want
  <2> QED BY <1>8, <2>1, <2>2, <2>3, KeysType
<1>11. ASSUME NEW e \in Emails, NEW o \in Ids,
              ConfirmRegisterOtp(r, e, o) \/ ResetPassword(r, e, o)
       PROVE  Arrived(r)
  <2>0. otps[o] \in Otp
    BY <1>11 DEF ConfirmRegisterOtp, ResetPassword, Validates, LiveOtps, TypeInv, TypeOK
  <2>1. CASE ConfirmRegisterOtp(r, e, o)
    <3> DEFINE want == [email |-> e, status |-> "ACTIF", password |-> o]
               q == [Idle EXCEPT !.pc = "findAccount", !.email = e, !.otp = o,
                                 !.code = otps[o], !.want = want]
    <3>1. want \in User /\ want.email = e
      BY DEF User, Statuses
    <3>2. Validates(o, e, "REGISTER") /\ Begin(r, "confirm", {e}, q)
      BY <2>1 DEF ConfirmRegisterOtp
    <3> HIDE DEF want
    <3>3. q \in Request
      BY <2>0, <3>1 DEF Idle, Request, PcValues
    <3>4. /\ q.pc = "findAccount" /\ q.email = e /\ q.user = NoId /\ q.otp = o
          /\ q.session = NoId /\ q.code = otps[o] /\ q.want = want
      BY DEF Idle
    <3> HIDE DEF q
    <3> QED BY <1>3, <3>1, <3>2, <3>3, <3>4 DEF Purposes
  <2>2. CASE ResetPassword(r, e, o)
    <3> DEFINE q == [Idle EXCEPT !.pc = "findAccount", !.email = e, !.otp = o,
                                 !.code = otps[o]]
    <3>2. Validates(o, e, "RESET_PASSWORD") /\ Begin(r, "reset", {e}, q)
      BY <2>2 DEF ResetPassword
    <3>3. q \in Request
      BY <2>0 DEF Idle, Request, PcValues
    <3>4. /\ q.pc = "findAccount" /\ q.email = e /\ q.user = NoId /\ q.otp = o
          /\ q.session = NoId /\ q.code = otps[o]
      BY DEF Idle
    <3> HIDE DEF q
    <3> QED BY <1>3, <3>2, <3>3, <3>4 DEF Purposes
  <2> QED BY <1>11, <2>1, <2>2
<1> QED BY <1>1, <1>2, <1>4, <1>5, <1>6, <1>7, <1>9, <1>10, <1>11 DEF Start

LEMMA ArrivedTypeInv ==
    ASSUME TypeInv, NEW r \in RequestIds, Arrived(r)
    PROVE  TypeInv'
<1> DEFINE n == requests'[r]
<1>1. n \in Request /\ Arrival(r, n)
  BY DEF Arrived, Arrival
<1>2. n.op = "refresh" => n.user \in Ids
  BY <1>1 DEF Arrival, Live, TypeInv, TypeOK, Session
<1>3. n.op \in {"confirm", "reset"} => n.code \in Otp
  BY <1>1 DEF Arrival, Validates, LiveOtps, TypeInv, TypeOK
<1> HIDE DEF n
<1>4. Phase(n)
  BY <1>1 DEF Arrival, Phase, Sending, Consuming, Rotating, Saving
<1>5. /\ n.pc \in Sending \cup {"findAccount", "createUser"} => n.email \in Emails
      /\ n.op \in {"confirm", "reset"} => n.otp \in Ids
      /\ n.pc \in Consuming \cup Rotating \cup Saving
                  \cup {"setPassword", "revoke", "checkUser", "openSession", "delete"}
            => n.user \in Ids
      /\ n.pc \in Saving => n.want \in User
      /\ n.op = "refresh" => n.session \in Ids
      /\ n.pc # "idle"
  <2>1. n.pc = "clear" => n.email \in Emails
    BY <1>1 DEF Arrival, TypeInv, TypeOK, User
  <2>2. n.pc \in {"clear", "findAccount", "openSession", "checkUser", "createUser",
                  "select", "delete"}
    BY <1>1 DEF Arrival
  <2>3. /\ n.pc \in {"findAccount", "createUser"} => n.email \in Emails
        /\ n.op \in {"confirm", "reset"} => n.otp \in Ids
        /\ n.pc \in {"openSession", "select", "delete"} => n.user \in Ids
        /\ n.pc = "select" => n.want \in User
        /\ n.op = "refresh" => n.session \in Ids
        /\ n.pc = "checkUser" => n.op = "refresh"
    BY <1>1 DEF Arrival
  <2> QED BY <1>2, <2>1, <2>2, <2>3 DEF Sending, Consuming, Rotating, Saving
<1>c. Creating(n) => n.want \in User /\ n.want.email = n.email
  BY <1>1 DEF Arrival, Creating
<1>6. Shape(n)
  BY <1>1, <1>2, <1>3, <1>4, <1>5, <1>c DEF Arrival, Shape
<1>7. requests' = [requests EXCEPT ![r] = n]
  BY DEF Arrived, n
<1>8. TablesOK
  BY DEF Arrived, TypeInv, TypeOK, TablesOK
<1> QED BY <1>6, <1>7, <1>8, OneRequest

-----------------------------------------------------------------------------
(***************************************************************************)
(* Each statement keeps the tables and the requests well-formed.           *)
(***************************************************************************)
LEMMA SendingTypeInv ==
    ASSUME TypeInv, NEW r \in RequestIds,
           ClearOtps(r) \/ InsertOtp(r) \/ SendOtpEmail(r) \/ DiscardOtp(r)
    PROVE  InFlight(r) /\ TypeInv'
<1> USE DEF Runs, Ended, Moves, InFlight
<1>0. Shape(requests[r])
  BY DEF TypeInv
<1>1. CASE ClearOtps(r)
  <2>1. TablesOK
    BY <1>1 DEF ClearOtps, TablesOK, TypeInv, TypeOK
  <2> QED BY <1>1, <2>1, GotoTypeInv DEF ClearOtps
<1>2. CASE InsertOtp(r)
  <2> DEFINE row == [email |-> requests[r].email, purpose |-> Purpose(r),
                     user |-> requests[r].user, at |-> now', used |-> FALSE,
                     expired |-> FALSE]
  <2>1. now' \in Nat /\ r \in Ids /\ requests[r].email \in Emails
        /\ requests[r].user \in Ids \cup {NoId}
    BY <1>0, <1>2 DEF InsertOtp, TypeInv, TypeOK, Ids, Shape, Sending, Request
  <2>2. row \in Otp
    BY <2>1 DEF Otp, Purpose, Purposes
  <2>3. otps' = [otps EXCEPT ![r] = row]
    BY <1>2 DEF InsertOtp
  <2> HIDE DEF row
  <2>4. TablesOK
    BY <1>2, <2>1, <2>2, <2>3 DEF InsertOtp, TablesOK, TypeInv, TypeOK
  <2> QED BY <1>2, <2>4, GotoTypeInv DEF InsertOtp
<1>3. CASE SendOtpEmail(r)
  <2>1. TablesOK
    BY <1>3 DEF SendOtpEmail, TablesOK, TypeInv, TypeOK
  <2> QED BY <1>3, <2>1, GotoTypeInv DEF SendOtpEmail
<1>4. CASE DiscardOtp(r)
  <2>1. TablesOK
    BY <1>4 DEF DiscardOtp, TablesOK, TypeInv, TypeOK
  <2> QED BY <1>4, <2>1, GotoTypeInv DEF DiscardOtp
<1> QED BY <1>1, <1>2, <1>3, <1>4

LEMMA AccountTypeInv ==
    ASSUME TypeInv, NEW r \in RequestIds,
           FindAccount(r) \/ CreateUser(r) \/ SetPassword(r)
    PROVE  InFlight(r) /\ TypeInv'
<1> USE DEF Runs, Ended, InFlight
<1> DEFINE q == requests[r]
<1>0. Shape(q) /\ r \in Ids
  BY DEF TypeInv, Ids
<1>1. CASE FindAccount(r)
  <2>1. TablesOK
    BY <1>1 DEF FindAccount, TablesOK, TypeInv, TypeOK
  <2>2. ASSUME NEW u \in Ids, q.op = "reset", q.pc = "findAccount",
               requests' = [requests EXCEPT ![r] =
                    [@ EXCEPT !.pc = "setPassword", !.user = u]]
        PROVE  TypeInv'
    <3> DEFINE n == [q EXCEPT !.pc = "setPassword", !.user = u]
    <3>1. requests' = [requests EXCEPT ![r] = n]
      BY <2>2 DEF TypeInv, TypeOK
    <3>2. /\ n.pc = "setPassword" /\ n.user = u /\ n.op = "reset" /\ n.otp = q.otp
          /\ n.code = q.code /\ n.session = q.session /\ n \in Request
      BY <1>0, <2>2 DEF Shape, Request, PcValues
    <3>3. q.otp \in Ids /\ q.code \in Otp /\ q.session = NoId
      BY <1>0, <2>2 DEF Shape
    <3> HIDE DEF n
    <3>4. Shape(n)
      BY <3>2, <3>3 DEF Shape, Creating, Phase, Sending, Consuming, Rotating, Saving
    <3> QED BY <2>1, <3>1, <3>4, OneRequest
  <2>3. CASE /\ q.op = "confirm"
             /\ Goto(r, IF Account(q.email) = {} THEN "createUser" ELSE "refused")
    BY <1>1, <2>1, <2>3, GotoTypeInv DEF FindAccount, Moves
  <2>4. CASE q.op = "reset" /\ Goto(r, "refused")
    BY <1>1, <2>1, <2>4, GotoTypeInv DEF FindAccount
  <2>5. q.pc = "findAccount"
    BY <1>1 DEF FindAccount
  <2> QED BY <1>1, <2>2, <2>3, <2>4, <2>5 DEF FindAccount, Account
<1>2. CASE CreateUser(r)
  <2>1. q.pc = "createUser" /\ q.email \in Emails /\ q.op \in {"confirm", "create"}
        /\ (q.op = "confirm" => q.otp \in Ids /\ q.code \in Otp) /\ q.session = NoId
        /\ q.want \in User /\ q.want.email = q.email
    BY <1>0, <1>2 DEF CreateUser, Shape, Creating, Phase
  <2> DEFINE m == [q EXCEPT !.user = r]
             pc == IF q.op = "confirm" THEN "consume" ELSE "done"
  <2>3. users' = [users EXCEPT ![r] = q.want]
    BY <1>2 DEF CreateUser
  <2>4. requests' = [requests EXCEPT ![r] = At(m, pc)]
    BY <1>2 DEF CreateUser
  <2>5. TablesOK
    BY <1>2, <2>1, <2>3 DEF CreateUser, TablesOK, TypeInv, TypeOK
  <2>6. /\ m.pc = "createUser" /\ m.user = r /\ m.op = q.op /\ m.otp = q.otp
        /\ m.code = q.code /\ m.session = q.session /\ m.email = q.email
        /\ m.want = q.want /\ m \in Request
    BY <1>0, <2>1 DEF Shape, Request
  <2>7. Shape(m)
    <3> HIDE DEF m
    <3> QED BY <1>0, <2>1, <2>6 DEF Shape, Creating, Phase, Sending, Consuming, Rotating, Saving
  <2> HIDE DEF m
  <2>8. CASE q.op = "confirm"
    <3> DEFINE n == [m EXCEPT !.pc = "consume"]
    <3>1. At(m, pc) = n
      BY <2>8 DEF At
    <3>2. /\ n.pc = "consume" /\ n.user = r /\ n.op = "confirm" /\ n.otp = q.otp
          /\ n.code = q.code /\ n.session = NoId /\ n \in Request
      BY <2>1, <2>6, <2>8 DEF Request, PcValues
    <3> HIDE DEF n
    <3>3. Shape(n)
      BY <1>0, <2>1, <2>8, <3>2
         DEF Shape, Creating, Phase, Sending, Consuming, Rotating, Saving
    <3> QED BY <2>1, <2>4, <2>5, <3>1, <3>3, OneRequest
  <2>9. CASE q.op # "confirm"
    <3>1. Shape(At(m, "done"))
      BY <2>6, <2>7, EndShape
    <3> QED BY <2>1, <2>4, <2>5, <2>9, <3>1, OneRequest
  <2> QED BY <2>8, <2>9
<1>3. CASE SetPassword(r)
  <2>1. TablesOK
    <3>1. \A u \in Ids : users[u] # NoRow => [users[u] EXCEPT !.password = r] \in User
      BY <1>0 DEF TypeInv, TypeOK, User
    <3> QED BY <1>3, <3>1 DEF SetPassword, TablesOK, TypeInv, TypeOK
  <2> QED BY <1>3, <2>1, GotoTypeInv DEF SetPassword, Moves
<1> QED BY <1>1, <1>2, <1>3

\* What save() of a code finds before it writes.
LEMMA SelectsCode ==
    ASSUME TypeInv, NEW r \in RequestIds, ConsumeSelect(r)
    PROVE  LET q == requests[r]
               n == requests'[r]
           IN  /\ q.pc = "consume" /\ n.pc \in {"consumeOtp", "reinsertOtp"}
               /\ n.op = q.op /\ n.user = q.user /\ n.otp = q.otp
               /\ n.session = q.session /\ n.after = q.after /\ n.keys = q.keys
               /\ n.email = q.email /\ n.code = q.code /\ n.want = q.want
               /\ n \in Request /\ requests' = [requests EXCEPT ![r] = n]
               /\ \A o \in RequestIds \ {r} : requests'[o] = requests[o]
<1> DEFINE q == requests[r]
           d == {c \in {"user"} : q.code[c] # otps[q.otp][c]}
           a == [q EXCEPT !.pc = "consumeOtp", !.diff = d]
           b == [q EXCEPT !.pc = "reinsertOtp"]
<1>1. q.pc = "consume" /\ (requests' = [requests EXCEPT ![r] = a]
                           \/ requests' = [requests EXCEPT ![r] = b])
  BY DEF ConsumeSelect, Runs
<1>2. d \in SUBSET {"user"} /\ q \in Request
  BY DEF TypeInv, TypeOK
<1> HIDE DEF d
<1>3. ASSUME NEW n \in {a, b}
      PROVE  /\ n.pc \in {"consumeOtp", "reinsertOtp"}
             /\ n.op = q.op /\ n.user = q.user /\ n.otp = q.otp
             /\ n.session = q.session /\ n.after = q.after /\ n.keys = q.keys
             /\ n.email = q.email /\ n.code = q.code /\ n.want = q.want
             /\ n \in Request
  BY <1>2 DEF Request, PcValues
<1> HIDE DEF a, b
<1>4. PICK n \in {a, b} : requests' = [requests EXCEPT ![r] = n]
  BY <1>1
<1>5. requests'[r] = n /\ \A o \in RequestIds \ {r} : requests'[o] = requests[o]
  BY <1>4, SetEffect
<1> QED BY <1>1, <1>3, <1>4, <1>5

LEMMA CodeTypeInv ==
    ASSUME TypeInv, NEW r \in RequestIds,
           ConsumeSelect(r) \/ ConsumeOtp(r) \/ ReinsertOtp(r) \/ RevokeSessions(r)
    PROVE  InFlight(r) /\ TypeInv'
<1> USE DEF Runs, Ended, InFlight
<1>0. Shape(requests[r])
  BY DEF TypeInv
<1>1. CASE ConsumeSelect(r)
  <2>1. TablesOK
    BY <1>1 DEF ConsumeSelect, TablesOK, TypeInv, TypeOK
  <2> DEFINE q == requests[r]
             n == requests'[r]
  <2>2. /\ q.pc = "consume" /\ n.pc \in {"consumeOtp", "reinsertOtp"}
        /\ n.op = q.op /\ n.user = q.user /\ n.otp = q.otp
        /\ n.session = q.session /\ n.code = q.code /\ n \in Request
        /\ requests' = [requests EXCEPT ![r] = n]
    BY <1>1, SelectsCode
  <2> HIDE DEF n
  <2>3. Shape(n)
    BY <1>0, <2>2 DEF Shape, Creating, Phase, Sending, Consuming, Rotating, Saving
  <2> QED BY <2>1, <2>2, <2>3, OneRequest
<1>2. CASE ConsumeOtp(r)
  <2> DEFINE q == requests[r]
             u(o) == IF "user" \in q.diff THEN q.code.user ELSE otps[o].user
             row(o) == IF otps[o] = NoRow THEN NoRow
                       ELSE [otps[o] EXCEPT !.used = TRUE, !.user = u(o)]
  <2>0. q.code \in Otp
    BY <1>0, <1>2 DEF ConsumeOtp, Shape, Phase, Consuming
  <2>a. ASSUME NEW o \in Ids, otps[o] # NoRow PROVE u(o) \in Ids \cup {NoId}
    <3>1. otps[o] \in Otp
      BY <2>a DEF TypeInv, TypeOK
    <3> QED BY <2>0, <3>1 DEF Otp
  <2>b. otps' = [otps EXCEPT ![q.otp] = row(q.otp)]
    BY <1>2 DEF ConsumeOtp
  <2> HIDE DEF u
  <2>1. \A o \in Ids : row(o) \in Otp \cup {NoRow}
    BY <2>a DEF TypeInv, TypeOK, Otp
  <2> HIDE DEF row
  <2>c. q.otp \in Ids
    BY <1>0, <1>2 DEF ConsumeOtp, Shape, Phase, Consuming
  <2>2. TablesOK
    BY <1>2, <2>1, <2>b, <2>c DEF ConsumeOtp, TablesOK, TypeInv, TypeOK
  <2> QED BY <1>2, <2>2, GotoTypeInv DEF ConsumeOtp, Consuming
<1>3. CASE ReinsertOtp(r)
  <2>1. requests[r].pc = "reinsertOtp"
    BY <1>3 DEF ReinsertOtp
  <2>2. requests[r].code \in Otp
    BY <1>0, <2>1 DEF Shape, Phase, Consuming
  <2>3. [requests[r].code EXCEPT !.used = TRUE] \in Otp
    BY <2>2 DEF Otp
  <2>4. TablesOK
    BY <1>3, <2>3 DEF ReinsertOtp, TablesOK, TypeInv, TypeOK
  <2> QED BY <1>3, <2>4, GotoTypeInv DEF ReinsertOtp, Consuming
<1>4. CASE RevokeSessions(r)
  <2>1. \A s \in Ids : sessions[s] # NoRow =>
            [sessions[s] EXCEPT !.revoked = TRUE] \in Session
    BY DEF TypeInv, TypeOK, Session
  <2>2. TablesOK
    BY <1>4, <2>1 DEF RevokeSessions, TablesOK, TypeInv, TypeOK
  <2> QED BY <1>4, <2>2, GotoTypeInv DEF RevokeSessions
<1> QED BY <1>1, <1>2, <1>3, <1>4

LEMMA SessionTypeInv ==
    ASSUME TypeInv, NEW r \in RequestIds,
           CheckUser(r) \/ OpenSession(r) \/ RotateSelect(r) \/ RotateSession(r)
              \/ ReinsertSession(r)
    PROVE  InFlight(r) /\ TypeInv'
<1> USE DEF Runs, Ended, InFlight
<1>0. Shape(requests[r]) /\ r \in Ids
  BY DEF TypeInv, Ids
<1>1. CASE CheckUser(r)
  <2>1. TablesOK
    BY <1>1 DEF CheckUser, TablesOK, TypeInv, TypeOK
  <2> QED BY <1>1, <2>1, GotoTypeInv DEF CheckUser, Moves
<1>2. CASE OpenSession(r)
  <2>1. requests[r].pc = "openSession" /\ requests[r].user \in Ids
    BY <1>0, <1>2 DEF OpenSession, Shape
  <2>2. NewSession(r) \in Session
    BY <2>1 DEF NewSession, Session
  <2>3. TablesOK
    BY <1>2, <2>2 DEF OpenSession, TablesOK, TypeInv, TypeOK
  <2> QED BY <1>2, <2>3, GotoTypeInv DEF OpenSession, Moves
<1>3. CASE RotateSelect(r)
  <2>1. TablesOK
    BY <1>3 DEF RotateSelect, TablesOK, TypeInv, TypeOK
  <2> QED BY <1>3, <2>1, GotoTypeInv DEF RotateSelect, Moves
<1>4. CASE RotateSession(r)
  <2>1. \A s \in Ids : sessions[s] # NoRow =>
            [sessions[s] EXCEPT !.revoked = TRUE, !.next = r] \in Session
    BY <1>0 DEF TypeInv, TypeOK, Session
  <2>2. TablesOK
    BY <1>4, <2>1 DEF RotateSession, TablesOK, TypeInv, TypeOK
  <2> QED BY <1>4, <2>2, GotoTypeInv DEF RotateSession
<1>5. CASE ReinsertSession(r)
  <2>1. requests[r].pc = "reinsertSession" /\ requests[r].user \in Ids
    BY <1>0, <1>5 DEF ReinsertSession, Shape, Rotating
  <2>2. [user |-> requests[r].user, revoked |-> TRUE, next |-> r,
         expired |-> FALSE] \in Session
    BY <1>0, <2>1 DEF Session
  <2>3. TablesOK
    BY <1>5, <2>2 DEF ReinsertSession, TablesOK, TypeInv, TypeOK
  <2> QED BY <1>5, <2>3, GotoTypeInv DEF ReinsertSession
<1> QED BY <1>1, <1>2, <1>3, <1>4, <1>5

LEMMA MergeType ==
    ASSUME NEW row \in User, NEW want \in User, NEW cols
    PROVE  Merge(row, want, cols) \in User
  BY DEF Merge, User

LEMMA SavingTypeInv ==
    ASSUME TypeInv, NEW r \in RequestIds,
           SaveSelect(r) \/ SaveUser(r) \/ ReinsertUser(r) \/ DeleteUser(r) \/ Fail(r)
    PROVE  InFlight(r) /\ TypeInv'
<1> USE DEF Runs, Ended, InFlight
<1> DEFINE q == requests[r]
<1>0. Shape(q)
  BY DEF TypeInv
<1>w. q.pc \in Saving => q.want \in User /\ q.user \in Ids
                         /\ q.op \in {"update", "updateStatus"}
  BY <1>0 DEF Shape, Phase
<1>1. CASE SaveSelect(r)
  <2> DEFINE d == {c \in Columns : q.want[c] # users[q.user][c]}
             n == [q EXCEPT !.pc = "saveUser", !.diff = d]
             m == [q EXCEPT !.pc = "reinsertUser"]
  <2>1. q.pc = "select" /\ (requests' = [requests EXCEPT ![r] = n]
                            \/ requests' = [requests EXCEPT ![r] = m])
    BY <1>1 DEF SaveSelect
  <2>d. d \in SUBSET Columns
    OBVIOUS
  <2>q. q \in Request
    BY <1>0 DEF Shape
  <2> HIDE DEF d
  <2>2. /\ n.pc = "saveUser" /\ n.user = q.user /\ n.op = q.op /\ n.otp = q.otp
        /\ n.session = q.session /\ n.want = q.want /\ n \in Request
    BY <2>q, <2>d DEF Request, PcValues
  <2>3. /\ m.pc = "reinsertUser" /\ m.user = q.user /\ m.op = q.op /\ m.otp = q.otp
        /\ m.session = q.session /\ m.want = q.want /\ m \in Request
    BY <2>q DEF Request, PcValues
  <2>4. TablesOK
    BY <1>1 DEF SaveSelect, TablesOK, TypeInv, TypeOK
  <2> HIDE DEF n, m
  <2>5. Shape(n)
    BY <1>0, <1>w, <2>1, <2>2 DEF Shape, Creating, Phase, Sending, Consuming, Rotating, Saving
  <2>6. Shape(m)
    BY <1>0, <1>w, <2>1, <2>3 DEF Shape, Creating, Phase, Sending, Consuming, Rotating, Saving
  <2> QED BY <2>1, <2>4, <2>5, <2>6, OneRequest
<1>2. CASE SaveUser(r)
  <2>1. q.want \in User
    BY <1>w, <1>2 DEF SaveUser, Saving
  <2>2. TablesOK
    BY <1>2, <2>1, MergeType DEF SaveUser, TablesOK, TypeInv, TypeOK
  <2> QED BY <1>2, <2>2, GotoTypeInv DEF SaveUser
<1>3. CASE ReinsertUser(r)
  <2>1. q.want \in User
    BY <1>w, <1>3 DEF ReinsertUser, Saving
  <2>2. TablesOK
    BY <1>3, <2>1 DEF ReinsertUser, TablesOK, TypeInv, TypeOK
  <2> QED BY <1>3, <2>2, GotoTypeInv DEF ReinsertUser
<1>4. CASE DeleteUser(r)
  <2>1. \A o \in Ids : otps[o] # NoRow => [otps[o] EXCEPT !.user = NoId] \in Otp
    BY DEF TypeInv, TypeOK, Otp
  <2>2. otps' \in [Ids -> Otp \cup {NoRow}]
    BY <1>4, <2>1 DEF DeleteUser, TypeInv, TypeOK
  <2>3. sessions' \in [Ids -> Session \cup {NoRow}] /\ users' \in [Ids -> User \cup {NoRow}]
    BY <1>4 DEF DeleteUser, TypeInv, TypeOK
  <2>4. TablesOK
    BY <1>4, <2>2, <2>3 DEF DeleteUser, TablesOK, TypeInv, TypeOK
  <2> QED BY <1>4, <2>4, GotoTypeInv DEF DeleteUser
<1>5. CASE Fail(r)
  <2>1. TablesOK
    BY <1>5 DEF Fail, TablesOK, TypeInv, TypeOK
  <2> QED BY <1>5, <2>1, GotoTypeInv DEF Fail
<1> QED BY <1>1, <1>2, <1>3, <1>4, <1>5

LEMMA StepTypeInv ==
    ASSUME TypeInv, NEW r \in RequestIds, Step(r)
    PROVE  InFlight(r) /\ TypeInv'
  BY SendingTypeInv, AccountTypeInv, CodeTypeInv, SessionTypeInv, SavingTypeInv DEF Step

LEMMA ExpiryTypeInv ==
    ASSUME TypeInv, Expiry
    PROVE  TypeInv'
<1>1. ASSUME NEW o \in Ids, ExpireOtp(o) PROVE TypeInv'
  <2>1. [otps[o] EXCEPT !.expired = TRUE] \in Otp
    BY <1>1 DEF ExpireOtp, TypeInv, TypeOK, Otp
  <2>2. otps' \in [Ids -> Otp \cup {NoRow}]
    BY <1>1, <2>1 DEF ExpireOtp, TypeInv, TypeOK
  <2> QED BY <1>1, <2>2 DEF ExpireOtp, TypeInv, TypeOK
<1>2. ASSUME NEW s \in Ids, ExpireSession(s) PROVE TypeInv'
  <2>1. [sessions[s] EXCEPT !.expired = TRUE] \in Session
    BY <1>2 DEF ExpireSession, TypeInv, TypeOK, Session
  <2>2. sessions' \in [Ids -> Session \cup {NoRow}]
    BY <1>2, <2>1 DEF ExpireSession, TypeInv, TypeOK
  <2> QED BY <1>2, <2>2 DEF ExpireSession, TypeInv, TypeOK
<1> QED BY <1>1, <1>2 DEF Expiry

LEMMA NextTypeInv == TypeInv /\ [Next]_vars => TypeInv'
<1> SUFFICES ASSUME TypeInv, [Next]_vars PROVE TypeInv'
  OBVIOUS
<1>1. CASE UNCHANGED vars
  BY <1>1 DEF vars, TypeInv, TypeOK
<1>2. ASSUME NEW r \in RequestIds, Start(r) PROVE TypeInv'
  BY <1>2, StartEffect, ArrivedTypeInv
<1>3. ASSUME NEW r \in RequestIds, Step(r) PROVE TypeInv'
  BY <1>3, StepTypeInv
<1> QED BY <1>1, <1>2, <1>3, ExpiryTypeInv DEF Next, Quiet

(***************************************************************************)
(* The tables and the requests in progress keep to their types, and every  *)
(* handler has in hand what its next statement uses: an address when it    *)
(* sends a code, an account when it opens a session, a loaded row when it  *)
(* saves one (AuthService, UsersService).                                  *)
(***************************************************************************)
THEOREM TypeCorrect == Spec => []TypeOK
<1>1. TypeInv => TypeOK
  BY DEF TypeInv
<1> QED BY <1>1, InitTypeInv, NextTypeInv, PTL DEF Spec

-----------------------------------------------------------------------------
(***************************************************************************)
(* What a statement of request r does: to the request itself, to the       *)
(* sessions and to the accounts.                                           *)
(***************************************************************************)
Follows(q, n) ==
    \/ n.pc \in Ended
    \/ <<q.pc, n.pc>> \in Moves \cup
          {<<"findAccount", "setPassword">>, <<"createUser", "consume">>,
           <<"select", "saveUser">>, <<"select", "reinsertUser">>}
    \/ q.pc \in Consuming /\ n.pc = "openSession" /\ q.op = "confirm"
    \/ q.pc \in Consuming /\ n.pc = "revoke" /\ q.op = "reset"

Stepped(r, q, n) ==
    /\ n.op = q.op /\ n.otp = q.otp /\ n.session = q.session /\ n.after = q.after
    /\ \/ n.user = q.user
       \/ q.pc = "findAccount" /\ n.pc = "setPassword"
             /\ n.user \in Ids /\ users[n.user] # NoRow /\ users[n.user].email = q.email
       \/ q.pc = "createUser" /\ n.user = r
    /\ n.pc \notin Ended =>
          n.keys = q.keys /\ n.email = q.email /\ n.code = q.code /\ n.want = q.want
    /\ Follows(q, n)

LEMMA GotoStepped ==
    ASSUME TypeInv, NEW r \in RequestIds, NEW pc, Goto(r, pc),
           \/ pc \in Ended
           \/ <<requests[r].pc, pc>> \in Moves
           \/ requests[r].pc \in Consuming /\ pc = AfterConsume(r)
    PROVE  /\ \A o \in RequestIds \ {r} : requests'[o] = requests[o]
           /\ Stepped(r, requests[r], requests'[r])
<1> DEFINE q == requests[r]
           n == requests'[r]
<1>1. /\ \A o \in RequestIds \ {r} : requests'[o] = requests[o]
      /\ n.pc = pc /\ n.op = q.op /\ n.user = q.user /\ n.otp = q.otp
      /\ n.session = q.session /\ n.after = q.after
      /\ pc \notin Ended =>
            n.keys = q.keys /\ n.email = q.email /\ n.code = q.code /\ n.want = q.want
  BY GotoEffect
<1>2. q.pc \in Consuming => q.op \in {"confirm", "reset"}
  BY DEF TypeInv, Shape, Phase
<1>3. pc \notin Ended /\ <<q.pc, pc>> \notin Moves =>
         \/ q.pc \in Consuming /\ pc = "openSession" /\ q.op = "confirm"
         \/ q.pc \in Consuming /\ pc = "revoke" /\ q.op = "reset"
  BY <1>2 DEF AfterConsume
<1>4. Follows(q, n)
  BY <1>1, <1>3 DEF Follows
<1> QED BY <1>1, <1>4 DEF Stepped

LEMMA StepEffect ==
    ASSUME TypeInv, NEW r \in RequestIds, Step(r)
    PROVE  /\ InFlight(r)
           /\ \A o \in RequestIds \ {r} : requests'[o] = requests[o]
           /\ Stepped(r, requests[r], requests'[r])
<1> DEFINE q == requests[r]
           n == requests'[r]
           Good == /\ \A o \in RequestIds \ {r} : requests'[o] = requests[o]
                   /\ Stepped(r, q, n)
<1>0. q \in Request /\ r \in Ids
  BY DEF TypeInv, TypeOK, Ids
<1>g. ASSUME NEW pc, Goto(r, pc),
             \/ pc \in Ended
             \/ <<q.pc, pc>> \in Moves
             \/ q.pc \in Consuming /\ pc = AfterConsume(r)
      PROVE  Good
  BY <1>g, GotoStepped
<1>s. SUFFICES Good
  BY StepTypeInv
<1>i. Stepped(r, q, n) /\ (\A o \in RequestIds \ {r} : requests'[o] = requests[o]) => Good
  OBVIOUS
<1> HIDE DEF Good
<1> USE DEF Runs
<1>1. CASE ClearOtps(r) \/ InsertOtp(r) \/ SendOtpEmail(r) \/ DiscardOtp(r)
  BY <1>1, <1>g DEF ClearOtps, InsertOtp, SendOtpEmail, DiscardOtp, Moves, Ended
<1>2. CASE FindAccount(r)
  <2>0. q.pc = "findAccount"
    BY <1>2 DEF FindAccount
  <2>1. ASSUME NEW u \in Account(q.email),
               requests' = [requests EXCEPT ![r] =
                    [@ EXCEPT !.pc = "setPassword", !.user = u]]
        PROVE  Good
    <3>1. n = [q EXCEPT !.pc = "setPassword", !.user = u]
          /\ \A o \in RequestIds \ {r} : requests'[o] = requests[o]
      BY <2>1, SetEffect DEF TypeInv, TypeOK
    <3>2. /\ n.pc = "setPassword" /\ n.user = u /\ n.op = q.op /\ n.otp = q.otp
          /\ n.session = q.session /\ n.after = q.after /\ n.keys = q.keys
          /\ n.email = q.email /\ n.code = q.code /\ n.want = q.want
      BY <1>0, <3>1 DEF Request
    <3>3. u \in Ids /\ users[u] # NoRow /\ users[u].email = q.email
      BY DEF Account
    <3> HIDE DEF n
    <3>4. Stepped(r, q, n)
      BY <2>0, <3>2, <3>3 DEF Stepped, Follows
    <3> QED BY <1>i, <3>1, <3>4 DEF n
  <2>2. ASSUME NEW pc \in {"createUser", "refused"}, Goto(r, pc) PROVE Good
    BY <2>0, <2>2, <1>g DEF Moves, Ended
  <2> QED BY <1>2, <2>1, <2>2 DEF FindAccount
<1>3. CASE CreateUser(r)
  <2> DEFINE m == [q EXCEPT !.user = r]
             pc == IF q.op = "confirm" THEN "consume" ELSE "done"
  <2>1. n = At(m, pc) /\ q.pc = "createUser"
        /\ \A o \in RequestIds \ {r} : requests'[o] = requests[o]
    BY <1>3, SetEffect DEF CreateUser
  <2>2. /\ m.user = r /\ m.op = q.op /\ m.otp = q.otp
        /\ m.session = q.session /\ m.after = q.after /\ m.keys = q.keys
        /\ m.email = q.email /\ m.code = q.code /\ m.want = q.want /\ m \in Request
    BY <1>0 DEF Request, Ids
  <2> HIDE DEF m
  <2>3. CASE pc = "done"
    <3>1. /\ n.pc = "done" /\ n.user = r /\ n.op = q.op /\ n.otp = q.otp
          /\ n.session = q.session /\ n.after = q.after
      BY <2>1, <2>2, <2>3 DEF At, Ended, Idle
    <3> HIDE DEF n
    <3>2. Stepped(r, q, n)
      BY <2>1, <3>1 DEF Stepped, Follows, Ended
    <3> QED BY <1>i, <2>1, <3>2 DEF n
  <2>4. CASE pc = "consume"
    <3>1. n = [m EXCEPT !.pc = "consume"]
      BY <2>1, <2>4 DEF At, Ended
    <3>2. /\ n.pc = "consume" /\ n.user = r /\ n.op = q.op /\ n.otp = q.otp
          /\ n.session = q.session /\ n.after = q.after /\ n.keys = q.keys
          /\ n.email = q.email /\ n.code = q.code /\ n.want = q.want
      BY <2>2, <3>1 DEF Request
    <3> HIDE DEF n
    <3>3. Stepped(r, q, n)
      BY <2>1, <3>2 DEF Stepped, Follows
    <3> QED BY <1>i, <2>1, <3>3 DEF n
  <2> QED BY <2>3, <2>4
<1>4. CASE SetPassword(r)
  BY <1>4, <1>g DEF SetPassword, Moves
<1>c. CASE ConsumeSelect(r)
  <2>1. /\ q.pc = "consume" /\ n.pc \in {"consumeOtp", "reinsertOtp"}
        /\ n.op = q.op /\ n.user = q.user /\ n.otp = q.otp
        /\ n.session = q.session /\ n.after = q.after /\ n.keys = q.keys
        /\ n.email = q.email /\ n.code = q.code /\ n.want = q.want
        /\ \A o \in RequestIds \ {r} : requests'[o] = requests[o]
    BY <1>c, SelectsCode
  <2> HIDE DEF n
  <2>2. Stepped(r, q, n)
    BY <2>1 DEF Stepped, Follows, Moves
  <2> QED BY <1>i, <2>1, <2>2 DEF n
<1>5. CASE ConsumeOtp(r) \/ ReinsertOtp(r)
  BY <1>5, <1>g DEF ConsumeOtp, ReinsertOtp, Consuming
<1>6. CASE RevokeSessions(r) \/ RotateSession(r) \/ ReinsertSession(r) \/ SaveUser(r)
             \/ ReinsertUser(r) \/ DeleteUser(r) \/ Fail(r)
  BY <1>6, <1>g
     DEF RevokeSessions, RotateSession, ReinsertSession, SaveUser, ReinsertUser,
         DeleteUser, Fail, Ended
<1>7. CASE CheckUser(r) \/ OpenSession(r) \/ RotateSelect(r)
  BY <1>7, <1>g DEF CheckUser, OpenSession, RotateSelect, Moves, Ended
<1>8. CASE SaveSelect(r)
  <2> DEFINE d == {c \in Columns : q.want[c] # users[q.user][c]}
             a == [q EXCEPT !.pc = "saveUser", !.diff = d]
             b == [q EXCEPT !.pc = "reinsertUser"]
  <2>1. q.pc = "select" /\ (requests' = [requests EXCEPT ![r] = a]
                            \/ requests' = [requests EXCEPT ![r] = b])
    BY <1>8 DEF SaveSelect
  <2> HIDE DEF d
  <2>2. n \in {a, b} /\ \A o \in RequestIds \ {r} : requests'[o] = requests[o]
    BY <2>1, SetEffect
  <2>3. /\ n.pc \in {"saveUser", "reinsertUser"} /\ n.user = q.user /\ n.op = q.op
        /\ n.otp = q.otp /\ n.session = q.session /\ n.after = q.after
        /\ n.keys = q.keys /\ n.email = q.email /\ n.code = q.code /\ n.want = q.want
    BY <1>0, <2>2 DEF Request
  <2> HIDE DEF n
  <2>4. Stepped(r, q, n)
    BY <2>1, <2>3 DEF Stepped, Follows
  <2> QED BY <1>i, <2>2, <2>4 DEF n
<1> QED BY <1>1, <1>2, <1>3, <1>4, <1>c, <1>5, <1>6, <1>7, <1>8 DEF Step

LEMMA PhaseOp ==
    ASSUME TypeInv, NEW r \in RequestIds
    PROVE  LET q == requests[r] IN
           /\ q.pc = "openSession" => q.op \in {"confirm", "login", "refresh"} /\ q.user \in Ids
           /\ q.pc \in Rotating => q.op = "refresh"
           /\ q.op = "refresh" => q.session \in Ids /\ q.user \in Ids
           /\ q.pc = "revoke" => q.op = "reset"
           /\ q.pc = "delete" => q.op = "remove"
           /\ q.pc \in {"findAccount", "createUser"} => q.op \in {"confirm", "create", "reset"}
           /\ q.op \in {"refresh", "remove"} => q.pc \notin {"findAccount", "createUser"}
           /\ q.session # NoId => q.op = "refresh"
  BY DEF TypeInv, Shape, Phase

\* What a statement of r makes of the row of session s.
OpensSession(r, s) ==
    /\ requests[r].pc = "openSession" /\ requests'[r].pc \in {"rotate", "done"}
    /\ s = r /\ sessions'[s] = NewSession(r) /\ users[requests[r].user] # NoRow
RevokesSession(r, s) ==
    /\ requests[r].pc = "revoke" /\ requests'[r].pc = "done"
    /\ sessions[s] # NoRow /\ sessions[s].user = requests[r].user
    /\ sessions'[s] = [sessions[s] EXCEPT !.revoked = TRUE]
RotatesSession(r, s) ==
    /\ requests[r].pc = "rotateSession" /\ s = requests[r].session
    /\ sessions[s] # NoRow
    /\ sessions'[s] = [sessions[s] EXCEPT !.revoked = TRUE, !.next = r]
ReinsertsSession(r, s) ==
    /\ requests[r].pc = "reinsertSession" /\ s = requests[r].session
    /\ sessions[s] = NoRow /\ users[requests[r].user] # NoRow
    /\ sessions'[s] = [user |-> requests[r].user, revoked |-> TRUE, next |-> r,
                       expired |-> FALSE]
DeletesSession(r, s) ==
    /\ requests[r].pc = "delete" /\ users'[requests[r].user] = NoRow
    /\ sessions[s] # NoRow /\ sessions[s].user = requests[r].user
    /\ sessions'[s] = NoRow

LEMMA SessionWrites ==
    ASSUME TypeInv, NEW r \in RequestIds, Step(r), NEW s \in Ids
    PROVE  \/ sessions'[s] = sessions[s]
           \/ OpensSession(r, s) \/ RevokesSession(r, s) \/ RotatesSession(r, s)
           \/ ReinsertsSession(r, s) \/ DeletesSession(r, s)
<1> DEFINE q == requests[r]
           Good == \/ sessions'[s] = sessions[s]
                   \/ OpensSession(r, s) \/ RevokesSession(r, s) \/ RotatesSession(r, s)
                   \/ ReinsertsSession(r, s) \/ DeletesSession(r, s)
<1> SUFFICES Good
  OBVIOUS
<1>0. r \in Ids /\ sessions \in [Ids -> Session \cup {NoRow}]
      /\ users \in [Ids -> User \cup {NoRow}]
  BY DEF TypeInv, TypeOK, Ids
<1> USE DEF Runs
<1>1. CASE UNCHANGED sessions
  BY <1>1
<1>2. CASE OpenSession(r)
  <2>1. requests'[r].pc \in {"rotate", "done"}
    BY <1>2, GotoEffect DEF OpenSession
  <2>2. q.pc = "openSession" /\ users[q.user] # NoRow
    <3>1. q.pc = "openSession" /\ q.user # NoId
      BY <1>2, PhaseOp, NullAssumption DEF OpenSession
    <3> QED BY <1>2, <3>1 DEF OpenSession, Violates
  <2>3. sessions' = [sessions EXCEPT ![r] = NewSession(r)]
    BY <1>2 DEF OpenSession
  <2> QED BY <1>0, <2>1, <2>2, <2>3 DEF OpensSession
<1>3. CASE RevokeSessions(r)
  <2>1. requests'[r].pc = "done" /\ q.pc = "revoke"
    BY <1>3, GotoEffect DEF RevokeSessions
  <2>2. sessions'[s] = IF sessions[s] # NoRow /\ sessions[s].user = q.user
                       THEN [sessions[s] EXCEPT !.revoked = TRUE] ELSE sessions[s]
    BY <1>3 DEF RevokeSessions
  <2> QED BY <2>1, <2>2 DEF RevokesSession
<1>4. CASE RotateSession(r)
  <2>1. q.pc = "rotateSession"
    BY <1>4 DEF RotateSession
  <2>2. sessions' = [sessions EXCEPT ![q.session] =
                 IF @ = NoRow THEN NoRow ELSE [@ EXCEPT !.revoked = TRUE, !.next = r]]
    BY <1>4 DEF RotateSession
  <2> QED BY <1>0, <2>1, <2>2 DEF RotatesSession
<1>5. CASE ReinsertSession(r)
  <2>1. q.pc = "reinsertSession" /\ q.user # NoId
    BY <1>5, PhaseOp, NullAssumption DEF ReinsertSession, Rotating
  <2>2. sessions[q.session] = NoRow /\ users[q.user] # NoRow
    BY <1>5, <2>1 DEF ReinsertSession, Violates
  <2>3. sessions' = [sessions EXCEPT ![q.session] =
          [user |-> q.user, revoked |-> TRUE, next |-> r, expired |-> FALSE]]
    BY <1>5 DEF ReinsertSession
  <2> QED BY <1>0, <2>1, <2>2, <2>3 DEF ReinsertsSession
<1>6. CASE DeleteUser(r)
  <2>1. q.pc = "delete" /\ q.user \in Ids
    BY <1>6 DEF DeleteUser, TypeInv, Shape
  <2>2. users'[q.user] = NoRow
    BY <1>0, <1>6, <2>1 DEF DeleteUser
  <2>3. sessions'[s] = IF sessions[s] # NoRow /\ sessions[s].user = q.user
                       THEN NoRow ELSE sessions[s]
    BY <1>6 DEF DeleteUser
  <2> QED BY <2>1, <2>2, <2>3 DEF DeletesSession
<1> HIDE DEF Good
<1> QED
  BY <1>1, <1>2, <1>3, <1>4, <1>5, <1>6
     DEF Step, ClearOtps, InsertOtp, SendOtpEmail, DiscardOtp, FindAccount, CreateUser,
         SetPassword, ConsumeSelect, ConsumeOtp, ReinsertOtp, CheckUser, RotateSelect,
         SaveSelect, SaveUser, ReinsertUser, Fail

\* Only a DELETE takes the row of an account away.
LEMMA UserRows ==
    ASSUME TypeInv, NEW r \in RequestIds, Step(r), NEW u \in Ids, users[u] # NoRow
    PROVE  \/ users'[u] # NoRow
           \/ /\ requests[r].pc = "delete" /\ requests[r].user = u
              /\ \A s \in Ids : sessions[s] # NoRow /\ sessions[s].user = u =>
                    sessions'[s] = NoRow
<1> DEFINE q == requests[r]
           Good == \/ users'[u] # NoRow
                   \/ /\ q.pc = "delete" /\ q.user = u
                      /\ \A s \in Ids : sessions[s] # NoRow /\ sessions[s].user = u =>
                            sessions'[s] = NoRow
<1> SUFFICES Good
  OBVIOUS
<1>0. r \in Ids /\ users \in [Ids -> User \cup {NoRow}] /\ Shape(q)
  BY DEF TypeInv, TypeOK, Ids
<1>a. \A x \in User : x # NoRow
  BY NullAssumption
<1> USE DEF Runs
<1>1. CASE UNCHANGED users
  BY <1>1
<1>2. CASE CreateUser(r)
  <2>1. users' = [users EXCEPT ![r] = q.want]
    BY <1>2 DEF CreateUser
  <2>2. q.want \in User
    BY <1>0, <1>2 DEF CreateUser, Shape, Creating
  <2> QED BY <1>0, <1>a, <2>1, <2>2
<1>3. CASE SetPassword(r)
  <2>1. [users[u] EXCEPT !.password = r] \in User
    BY <1>0 DEF User
  <2>2. users' = [users EXCEPT ![q.user] =
          IF @ = NoRow THEN NoRow ELSE [@ EXCEPT !.password = r]]
    BY <1>3 DEF SetPassword
  <2> QED BY <1>0, <1>a, <2>1, <2>2
<1>4. CASE SaveUser(r)
  <2>1. q.want \in User
    BY <1>0, <1>4 DEF SaveUser, Shape, Saving
  <2>2. Merge(users[u], q.want, q.diff) \in User
    BY <1>0, <2>1, MergeType
  <2>3. users' = [users EXCEPT ![q.user] =
              IF @ = NoRow THEN NoRow ELSE Merge(@, q.want, q.diff)]
    BY <1>4 DEF SaveUser
  <2> QED BY <1>0, <1>a, <2>2, <2>3
<1>5. CASE ReinsertUser(r)
  <2>1. q.want \in User
    BY <1>0, <1>5 DEF ReinsertUser, Shape, Saving
  <2>2. users' = [users EXCEPT ![q.user] = q.want]
    BY <1>5 DEF ReinsertUser
  <2> QED BY <1>0, <1>a, <2>1, <2>2
<1>6. CASE DeleteUser(r)
  BY <1>0, <1>6 DEF DeleteUser
<1> HIDE DEF Good
<1> QED
  BY <1>1, <1>2, <1>3, <1>4, <1>5, <1>6
     DEF Step, ClearOtps, InsertOtp, SendOtpEmail, DiscardOtp, FindAccount, OpenSession,
         ConsumeSelect, ConsumeOtp, ReinsertOtp, CheckUser, RotateSelect, RotateSession,
         ReinsertSession, RevokeSessions, SaveSelect, Fail

-----------------------------------------------------------------------------
(***************************************************************************)
(* The invariant of sessions and their rotation.  It needs no isolation of *)
(* requests and survives any failure.                                      *)
(***************************************************************************)

\* The foreign key of refresh_tokens, which CASCADEs.
References == \A s \in Ids : sessions[s] # NoRow => users[sessions[s].user] # NoRow

\* A client presents sessions that were answered.
Given ==
    \A q \in RequestIds : requests[q].session \in RequestIds =>
        requests[requests[q].session].pc = "done"

\* The session a request opens is not there before it does.
Unopened ==
    \A r \in RequestIds :
        requests[r].pc \notin Ended \cup Rotating => sessions[r] = NoRow

Removed(u) == \E r \in RequestIds : requests[r].op = "remove" /\ requests[r].user = u

\* A refresh knows the account of its session, and so does any other one.
Owned ==
    \A q \in RequestIds : requests[q].op = "refresh" =>
        LET s == requests[q].session
        IN  /\ sessions[s] # NoRow => sessions[s].user = requests[q].user
            /\ \A p \in RequestIds :
                  requests[p].op = "refresh" /\ requests[p].session = s
                    => requests[p].user = requests[q].user

\* A refresh rotates its session once the new one is stored.
Successor ==
    \A q \in RequestIds :
        requests[q].pc \in Rotating /\ ~Removed(requests[q].user) =>
            sessions[q] # NoRow /\ sessions[q].user = requests[q].user

SessionInv ==
    /\ TypeInv
    /\ References /\ Given /\ Unopened /\ Owned /\ Successor
    /\ RotationChain /\ RevokedForCause

LEMMA Names == \A r \in RequestIds : r \in Ids /\ r # NoId
  BY NullAssumption DEF Ids

\* Users of requests that remove or refresh do not change.
LEMMA UserKept ==
    ASSUME TypeInv, NEW r \in RequestIds, Step(r)
    PROVE  /\ requests[r].op \in {"refresh", "remove"} =>
                 requests'[r].user = requests[r].user
           /\ requests[r].pc \notin {"findAccount", "createUser"} =>
                 requests'[r].user = requests[r].user
  BY StepEffect, PhaseOp DEF Stepped

LEMMA RemovedStays ==
    ASSUME TypeInv, NEW r \in RequestIds, Step(r), NEW u, Removed(u)
    PROVE  \E x \in RequestIds : requests'[x].op = "remove" /\ requests'[x].user = u
<1>1. PICK x \in RequestIds : requests[x].op = "remove" /\ requests[x].user = u
  BY DEF Removed
<1>2. requests'[x].op = "remove" /\ requests'[x].user = u
  BY <1>1, StepEffect, UserKept DEF Stepped
<1> QED BY <1>2

\* What ends stays ended, and stays what it was.
LEMMA EndStays ==
    ASSUME TypeInv, NEW r \in RequestIds, Step(r), NEW x \in RequestIds,
           requests[x].pc \in Ended
    PROVE  requests'[x] = requests[x]
  BY StepEffect DEF InFlight

LEMMA StepReferences ==
    ASSUME SessionInv, NEW r \in RequestIds, Step(r)
    PROVE  References'
<1>0. TypeInv
  BY DEF SessionInv
<1> SUFFICES ASSUME NEW s \in Ids, sessions'[s] # NoRow
             PROVE  users'[sessions'[s].user] # NoRow
  BY DEF References
<1> DEFINE u == sessions'[s].user
<1>1. ASSUME sessions[s] # NoRow, sessions[s].user = u PROVE users'[u] # NoRow
  <2>1. users[u] # NoRow /\ u \in Ids
    BY <1>0, <1>1 DEF SessionInv, References, TypeInv, TypeOK, Session
  <2> HIDE DEF u
  <2> QED BY <1>0, <1>1, <2>1, UserRows
<1>2. ASSUME users[u] # NoRow, u \in Ids, requests[r].pc # "delete"
      PROVE  users'[u] # NoRow
  <2> HIDE DEF u
  <2> QED BY <1>0, <1>2, UserRows
<1>3. CASE sessions'[s] = sessions[s]
  BY <1>1, <1>3
<1>4. CASE OpensSession(r, s)
  <2>1. u = requests[r].user /\ users[u] # NoRow /\ requests[r].pc = "openSession"
    BY <1>4 DEF OpensSession, NewSession
  <2> QED BY <1>0, <1>2, <2>1, PhaseOp
<1>5. CASE RevokesSession(r, s) \/ RotatesSession(r, s)
  <2>1. sessions[s] # NoRow /\ sessions[s] \in Session
    BY <1>0, <1>5 DEF RevokesSession, RotatesSession, TypeInv, TypeOK
  <2>2. sessions'[s].user = sessions[s].user
    BY <1>5, <2>1 DEF RevokesSession, RotatesSession, Session
  <2> QED BY <1>1, <2>1, <2>2
<1>6. CASE ReinsertsSession(r, s)
  <2>1. u = requests[r].user /\ users[u] # NoRow /\ requests[r].pc = "reinsertSession"
    BY <1>6 DEF ReinsertsSession
  <2>2. u \in Ids
    BY <1>0, <2>1, PhaseOp DEF Rotating
  <2> QED BY <1>2, <2>1, <2>2
<1>7. CASE DeletesSession(r, s)
  BY <1>7 DEF DeletesSession
<1> QED BY <1>0, <1>3, <1>4, <1>5, <1>6, <1>7, SessionWrites

LEMMA StepGiven ==
    ASSUME SessionInv, NEW r \in RequestIds, Step(r)
    PROVE  Given'
<1>0. TypeInv /\ Given
  BY DEF SessionInv
<1>1. \A q \in RequestIds : requests'[q].session = requests[q].session
  BY <1>0, StepEffect DEF Stepped
<1>2. \A x \in RequestIds : requests[x].pc = "done" => requests'[x].pc = "done"
  BY <1>0, EndStays DEF Ended
<1> QED BY <1>0, <1>1, <1>2 DEF Given

\* The session a refresh rotates is not the one a request is about to open.
LEMMA NotMine ==
    ASSUME SessionInv, NEW q \in RequestIds, NEW r \in RequestIds,
           requests[q].session = r
    PROVE  requests[r].pc = "done"
  BY DEF SessionInv, Given

LEMMA StepUnopened ==
    ASSUME SessionInv, NEW r \in RequestIds, Step(r)
    PROVE  Unopened'
<1>0. TypeInv /\ Unopened
  BY DEF SessionInv
<1> SUFFICES ASSUME NEW p \in RequestIds, requests'[p].pc \notin Ended \cup Rotating
             PROVE  sessions'[p] = NoRow
  BY DEF Unopened
<1>1. requests[p].pc \notin Ended \cup Rotating
  <2>1. CASE p # r
    BY <1>0, <2>1, StepEffect
  <2>2. CASE p = r
    BY <1>0, <2>2, StepEffect DEF Stepped, Follows, InFlight, Moves, Rotating, Consuming,
         Ended
  <2> QED BY <2>1, <2>2
<1>2. sessions[p] = NoRow /\ p \in Ids
  BY <1>0, <1>1, Names DEF Unopened
<1>3. ~OpensSession(r, p)
  BY DEF OpensSession, Ended, Rotating
<1>4. ~ReinsertsSession(r, p)
  BY <1>1, NotMine DEF ReinsertsSession, Ended
<1>5. ~RevokesSession(r, p) /\ ~RotatesSession(r, p)
  BY <1>2 DEF RevokesSession, RotatesSession
<1> QED BY <1>0, <1>2, <1>3, <1>4, <1>5, SessionWrites DEF DeletesSession

LEMMA StepOwned ==
    ASSUME SessionInv, NEW r \in RequestIds, Step(r)
    PROVE  Owned'
<1>0. TypeInv /\ Owned
  BY DEF SessionInv
<1>1. \A q \in RequestIds :
         /\ requests'[q].op = requests[q].op
         /\ requests'[q].session = requests[q].session
         /\ requests[q].op = "refresh" => requests'[q].user = requests[q].user
  BY <1>0, StepEffect, UserKept DEF Stepped
<1>2. ASSUME NEW q \in RequestIds, requests[q].op = "refresh",
             sessions'[requests[q].session] # NoRow
      PROVE  sessions'[requests[q].session].user = requests[q].user
  <2> DEFINE s == requests[q].session
  <2>1. s \in Ids
    BY <1>0, <1>2, PhaseOp
  <2>2. sessions[s] # NoRow => sessions[s].user = requests[q].user
    BY <1>0, <1>2 DEF Owned
  <2>3. CASE sessions'[s] = sessions[s]
    BY <1>2, <2>2, <2>3
  <2>4. ~OpensSession(r, s)
    BY NotMine DEF OpensSession
  <2>5. CASE RevokesSession(r, s) \/ RotatesSession(r, s)
    <3>1. sessions[s] # NoRow /\ sessions[s] \in Session
      BY <1>0, <2>1, <2>5 DEF RevokesSession, RotatesSession, TypeInv, TypeOK
    <3>2. sessions'[s].user = sessions[s].user
      BY <2>5, <3>1 DEF RevokesSession, RotatesSession, Session
    <3> QED BY <2>2, <3>1, <3>2
  <2>6. CASE ReinsertsSession(r, s)
    <3>1. requests[r].op = "refresh" /\ requests[r].session = s
      BY <1>0, <2>6, PhaseOp DEF ReinsertsSession, Rotating
    <3>2. requests[r].user = requests[q].user
      BY <1>0, <1>2, <3>1 DEF Owned
    <3> QED BY <2>6, <3>2 DEF ReinsertsSession
  <2>7. ~DeletesSession(r, s)
    BY <1>2 DEF DeletesSession
  <2> QED BY <1>0, <2>1, <2>3, <2>4, <2>5, <2>6, <2>7, SessionWrites
<1>3. \A q, p \in RequestIds :
         /\ requests[q].op = "refresh" /\ requests[p].op = "refresh"
         /\ requests[p].session = requests[q].session
         => requests[p].user = requests[q].user
  BY <1>0 DEF Owned
<1> QED BY <1>1, <1>2, <1>3 DEF Owned

\* A session stays with its account until the row goes.
LEMMA SessionUser ==
    ASSUME SessionInv, NEW r \in RequestIds, Step(r), NEW s \in Ids,
           sessions[s] # NoRow, sessions'[s] # NoRow
    PROVE  \/ sessions'[s].user = sessions[s].user
           \/ OpensSession(r, s)
<1>0. TypeInv /\ sessions[s] \in Session
  BY DEF SessionInv, TypeInv, TypeOK
<1>1. ~ReinsertsSession(r, s) /\ ~DeletesSession(r, s)
  BY DEF ReinsertsSession, DeletesSession
<1>2. CASE RevokesSession(r, s) \/ RotatesSession(r, s)
  BY <1>0, <1>2 DEF RevokesSession, RotatesSession, Session
<1> QED BY <1>0, <1>1, <1>2, SessionWrites

\* A row that is written to is a row.
LEMMA StoredRow ==
    ASSUME TypeInv, NEW r \in RequestIds, NEW s \in Ids,
           RevokesSession(r, s) \/ RotatesSession(r, s) \/ ReinsertsSession(r, s)
              \/ OpensSession(r, s)
    PROVE  sessions'[s] # NoRow
<1>1. CASE RevokesSession(r, s) \/ RotatesSession(r, s)
  <2>1. sessions[s] \in Session
    BY <1>1 DEF RevokesSession, RotatesSession, TypeInv, TypeOK
  <2>2. [sessions[s] EXCEPT !.revoked = TRUE] \in Session
        /\ [sessions[s] EXCEPT !.revoked = TRUE, !.next = r] \in Session
    BY <2>1, Names DEF Session
  <2> QED BY <1>1, <2>2, NullAssumption DEF RevokesSession, RotatesSession
<1>2. CASE ReinsertsSession(r, s)
  <2>1. [user |-> requests[r].user, revoked |-> TRUE, next |-> r,
         expired |-> FALSE] \in Session
    BY <1>2, PhaseOp, Names DEF ReinsertsSession, Rotating, Session
  <2> QED BY <1>2, <2>1, NullAssumption DEF ReinsertsSession
<1>3. CASE OpensSession(r, s)
  <2>1. NewSession(r) \in Session
    BY <1>3, PhaseOp DEF OpensSession, NewSession, Session
  <2> QED BY <1>3, <2>1, NullAssumption DEF OpensSession
<1> QED BY <1>1, <1>2, <1>3

LEMMA StepSuccessor ==
    ASSUME SessionInv, NEW r \in RequestIds, Step(r)
    PROVE  Successor'
<1>0. TypeInv /\ Successor
  BY DEF SessionInv
<1> SUFFICES ASSUME NEW p \in RequestIds, requests'[p].pc \in Rotating,
                    \A x \in RequestIds : ~(/\ requests'[x].op = "remove"
                                             /\ requests'[x].user = requests'[p].user)
             PROVE  sessions'[p] # NoRow /\ sessions'[p].user = requests'[p].user
  BY DEF Successor, Removed
<1>p. p \in Ids /\ requests'[p].pc \notin Ended
  BY Names DEF Ended, Rotating
<1>1. \/ p = r /\ OpensSession(r, p) /\ requests'[p].user = requests[p].user
      \/ requests[p].pc \in Rotating /\ requests'[p].user = requests[p].user
  <2>1. CASE p # r
    BY <1>0, <2>1, StepEffect
  <2>2. CASE p = r
    <3>1. requests[r].pc \in Rotating \/ requests[r].pc = "openSession"
      BY <1>0, <1>p, <2>2, StepEffect DEF Stepped, Follows, Rotating, Moves
    <3>2. requests'[p].user = requests[p].user
      BY <1>0, <2>2, <3>1, UserKept DEF Rotating
    <3>3. ASSUME requests[r].pc = "openSession" PROVE OpensSession(r, r)
      <4>1. OpenSession(r) \/ Fail(r)
        BY <3>3 DEF Step, Runs, ClearOtps, InsertOtp, SendOtpEmail, DiscardOtp,
              FindAccount, CreateUser, SetPassword, ConsumeSelect, ConsumeOtp,
              ReinsertOtp, RevokeSessions, CheckUser, RotateSelect, RotateSession,
              ReinsertSession, SaveSelect, SaveUser, ReinsertUser, DeleteUser
      <4>2. ~Fail(r)
        BY <1>0, <1>p, <2>2, GotoEffect DEF Fail, Ended
      <4>3. sessions' = [sessions EXCEPT ![r] = NewSession(r)]
        BY <4>1, <4>2 DEF OpenSession
      <4>4. sessions'[r] = NewSession(r) /\ NewSession(r) # NoRow
        <5>1. NewSession(r) \in Session
          BY <1>0, <3>3, PhaseOp DEF NewSession, Session
        <5> QED BY <1>0, <1>p, <2>2, <4>3, <5>1, NullAssumption DEF TypeInv, TypeOK
      <4>5. sessions[r] = NoRow
        BY <3>3 DEF SessionInv, Unopened, Ended, Rotating
      <4>6. sessions'[r] # sessions[r]
        BY <4>4, <4>5
      <4> QED BY <1>0, <1>p, <2>2, <3>3, <4>5, <4>6, SessionWrites
              DEF RevokesSession, RotatesSession, ReinsertsSession, DeletesSession
    <3> QED BY <2>2, <3>1, <3>2, <3>3
  <2> QED BY <2>1, <2>2
<1>2. CASE p = r /\ OpensSession(r, p) /\ requests'[p].user = requests[p].user
  <2>1. sessions'[p] # NoRow
    BY <1>0, <1>2, <1>p, StoredRow
  <2>2. sessions'[p].user = requests[p].user
    BY <1>2 DEF OpensSession, NewSession
  <2> QED BY <1>2, <2>1, <2>2
<1>3. CASE requests[p].pc \in Rotating /\ requests'[p].user = requests[p].user
  <2>1. ~Removed(requests[p].user)
    BY <1>0, <1>3, RemovedStays
  <2>2. sessions[p] # NoRow /\ sessions[p].user = requests[p].user
    BY <1>0, <1>3, <2>1 DEF Successor
  <2>3. sessions'[p] # NoRow
    <3>1. ASSUME DeletesSession(r, p) PROVE FALSE
      <4>1. requests[r].op = "remove" /\ requests[r].user = requests[p].user
        BY <1>0, <2>2, <3>1, PhaseOp DEF DeletesSession
      <4> QED BY <2>1, <4>1 DEF Removed
    <3> QED BY <1>0, <1>p, <2>2, <3>1, SessionWrites, StoredRow
  <2>4. ~OpensSession(r, p)
    BY <1>3 DEF OpensSession, Rotating
  <2> QED BY <1>3, <1>p, <2>2, <2>3, <2>4, SessionUser
<1> QED BY <1>1, <1>2, <1>3

\* A stored session of an account nobody removes stays stored.
LEMMA SessionStays ==
    ASSUME SessionInv, NEW r \in RequestIds, Step(r), NEW s \in Ids,
           sessions[s] # NoRow, ~Removed(sessions[s].user)
    PROVE  sessions'[s] # NoRow
<1>0. TypeInv
  BY DEF SessionInv
<1>1. ASSUME DeletesSession(r, s) PROVE FALSE
  <2>1. requests[r].op = "remove" /\ requests[r].user = sessions[s].user
    BY <1>0, <1>1, PhaseOp DEF DeletesSession
  <2> QED BY <2>1 DEF Removed
<1> QED BY <1>0, <1>1, SessionWrites, StoredRow

LEMMA StepChain ==
    ASSUME SessionInv, NEW r \in RequestIds, Step(r)
    PROVE  RotationChain'
<1>0. TypeInv /\ RotationChain /\ Unopened /\ Owned /\ Successor
  BY DEF SessionInv
<1> SUFFICES ASSUME NEW s \in Ids, sessions'[s] # NoRow, sessions'[s].next # NoId,
                    \A x \in RequestIds : ~(/\ requests'[x].op = "remove"
                                             /\ requests'[x].user = sessions'[s].user)
             PROVE  /\ sessions'[sessions'[s].next] # NoRow
                    /\ sessions'[sessions'[s].next].user = sessions'[s].user
  BY DEF RotationChain, Removed
<1> DEFINE u == sessions'[s].user
           t == sessions'[s].next
<1>t. t \in Ids
  BY <1>0, StepTypeInv DEF TypeInv, TypeOK, Session
<1>u. ~Removed(u)
  BY <1>0, RemovedStays
<1>k. ASSUME sessions[t] # NoRow, sessions[t].user = u,
             ~OpensSession(r, t)
      PROVE  sessions'[t] # NoRow /\ sessions'[t].user = u
  <2> HIDE DEF t, u
  <2>1. sessions'[t] # NoRow
    BY <1>k, <1>t, <1>u, SessionStays
  <2> QED BY <1>k, <1>t, <2>1, SessionUser
<1>n. ~OpensSession(r, t) \/ sessions[t] = NoRow
  <2> HIDE DEF t
  <2> QED BY <1>0 DEF OpensSession, Unopened, Ended, Rotating
<1>1. ASSUME sessions[s] # NoRow, sessions[s].user = u, sessions[s].next = t
      PROVE  sessions'[t] # NoRow /\ sessions'[t].user = u
  <2>1. sessions[t] # NoRow /\ sessions[t].user = u
    BY <1>0, <1>1, <1>u DEF RotationChain, Removed
  <2> QED BY <1>k, <1>n, <2>1
<1>2. CASE sessions'[s] = sessions[s]
  BY <1>1, <1>2
<1>3. ~OpensSession(r, s)
  BY DEF OpensSession, NewSession
<1>4. CASE RevokesSession(r, s)
  <2>1. sessions[s] # NoRow /\ sessions[s] \in Session
    BY <1>0, <1>4 DEF RevokesSession, TypeInv, TypeOK
  <2>2. sessions'[s].user = sessions[s].user /\ sessions'[s].next = sessions[s].next
    BY <1>4, <2>1 DEF RevokesSession, Session
  <2> QED BY <1>1, <2>1, <2>2
<1>5. ASSUME requests[r].pc \in Rotating, t = r, u = requests[r].user
      PROVE  sessions'[t] # NoRow /\ sessions'[t].user = u
  <2>1. sessions[t] # NoRow /\ sessions[t].user = u
    BY <1>0, <1>5, <1>u DEF Successor
  <2> QED BY <1>k, <1>n, <2>1
<1>6. CASE RotatesSession(r, s)
  <2>1. sessions[s] # NoRow /\ sessions[s] \in Session /\ s = requests[r].session
        /\ requests[r].pc \in Rotating
    BY <1>0, <1>6 DEF RotatesSession, TypeInv, TypeOK, Rotating
  <2>2. u = sessions[s].user /\ t = r
    BY <1>6, <2>1 DEF RotatesSession, Session
  <2>3. u = requests[r].user
    BY <1>0, <2>1, <2>2, PhaseOp DEF Owned
  <2> QED BY <1>5, <2>1, <2>2, <2>3
<1>7. CASE ReinsertsSession(r, s)
  <2>1. requests[r].pc \in Rotating /\ t = r /\ u = requests[r].user
    BY <1>7 DEF ReinsertsSession, Rotating
  <2> QED BY <1>5, <2>1
<1>8. ~DeletesSession(r, s)
  BY DEF DeletesSession
<1> QED BY <1>0, <1>2, <1>3, <1>4, <1>6, <1>7, <1>8, SessionWrites

LEMMA StepCause ==
    ASSUME SessionInv, NEW r \in RequestIds, Step(r)
    PROVE  RevokedForCause'
<1>0. TypeInv /\ RevokedForCause
  BY DEF SessionInv
<1> SUFFICES ASSUME NEW s \in Ids, sessions'[s] # NoRow, sessions'[s].revoked,
                    sessions'[s].next = NoId
             PROVE  \E x \in RequestIds :
                       /\ requests'[x].op = "reset" /\ requests'[x].pc = "done"
                       /\ requests'[x].user = sessions'[s].user
  BY DEF RevokedForCause
<1>1. ASSUME sessions[s] # NoRow, sessions[s].revoked, sessions[s].next = NoId,
             sessions'[s].user = sessions[s].user
      PROVE  \E x \in RequestIds :
                /\ requests'[x].op = "reset" /\ requests'[x].pc = "done"
                /\ requests'[x].user = sessions'[s].user
  <2>1. PICK x \in RequestIds :
                /\ requests[x].op = "reset" /\ requests[x].pc = "done"
                /\ requests[x].user = sessions[s].user
    BY <1>0, <1>1 DEF RevokedForCause
  <2>2. requests'[x] = requests[x]
    BY <1>0, <2>1, EndStays DEF Ended
  <2> QED BY <1>1, <2>1, <2>2
<1>2. CASE sessions'[s] = sessions[s]
  BY <1>1, <1>2
<1>3. ~OpensSession(r, s)
  BY DEF OpensSession, NewSession
<1>4. CASE RevokesSession(r, s)
  <2>1. sessions[s] \in Session /\ sessions[s].user = requests[r].user
        /\ requests[r].pc = "revoke" /\ requests'[r].pc = "done"
    BY <1>0, <1>4 DEF RevokesSession, TypeInv, TypeOK
  <2>2. sessions'[s].user = sessions[s].user
    BY <1>4, <2>1 DEF RevokesSession, Session
  <2>3. requests'[r].op = "reset" /\ requests'[r].user = requests[r].user
    BY <1>0, <2>1, StepEffect, UserKept, PhaseOp DEF Stepped
  <2> QED BY <2>1, <2>2, <2>3
<1>5. ~RotatesSession(r, s)
  <2>1. ASSUME RotatesSession(r, s) PROVE sessions'[s].next = r
    <3>1. sessions[s] \in Session
      BY <1>0, <2>1 DEF RotatesSession, TypeInv, TypeOK
    <3> QED BY <2>1, <3>1 DEF RotatesSession, Session
  <2> QED BY <2>1, Names
<1>6. ~ReinsertsSession(r, s)
  BY Names DEF ReinsertsSession
<1>7. ~DeletesSession(r, s)
  BY DEF DeletesSession
<1> QED BY <1>0, <1>2, <1>3, <1>4, <1>5, <1>6, <1>7, SessionWrites

LEMMA StepSessionInv ==
    ASSUME SessionInv, NEW r \in RequestIds, Step(r)
    PROVE  SessionInv'
<1>1. TypeInv'
  BY StepTypeInv DEF SessionInv
<1> QED BY <1>1, StepReferences, StepGiven, StepUnopened, StepOwned, StepSuccessor,
           StepChain, StepCause DEF SessionInv

\* An arrival touches no table, and no request but its own.
LEMMA ArrivedSessionInv ==
    ASSUME SessionInv, NEW r \in RequestIds, Arrived(r)
    PROVE  SessionInv'
<1> DEFINE n == requests'[r]
<1>0. TypeInv /\ TypeInv'
  BY ArrivedTypeInv DEF SessionInv
<1>1. /\ requests[r].pc = "idle" /\ Arrival(r, n)
      /\ \A o \in RequestIds \ {r} : requests'[o] = requests[o]
      /\ users' = users /\ sessions' = sessions
  BY DEF Arrived
<1>2. n.pc \notin Ended \cup Rotating
  BY <1>1 DEF Arrival, Ended, Rotating
<1>3. requests[r].op = "none" /\ n.op # "none"
  BY <1>0, <1>1 DEF TypeInv, Shape, Phase, Arrival
<1>4. References'
  BY <1>1 DEF SessionInv, References
<1>5. Given'
  <2>1. \A x \in RequestIds : requests[x].pc = "done" => requests'[x].pc = "done"
    BY <1>1
  <2>2. n.session \in RequestIds => requests[n.session].pc = "done"
    <3>1. n.session \in RequestIds => n.op = "refresh"
      BY <1>1, Names DEF Arrival
    <3>2. n.op = "refresh" => n.session \in Delivered
      BY <1>1 DEF Arrival
    <3> QED BY <3>1, <3>2, NullAssumption DEF Delivered
  <2> QED BY <1>1, <2>1, <2>2 DEF SessionInv, Given
<1>6. Unopened'
  <2>1. sessions[r] = NoRow
    BY <1>1 DEF SessionInv, Unopened, Ended, Rotating
  <2> QED BY <1>1, <2>1 DEF SessionInv, Unopened
<1>7. Owned'
  <2>1. n.op = "refresh" => sessions[n.session] # NoRow /\ n.user = sessions[n.session].user
    BY <1>1 DEF Arrival, Live
  <2>2. \A p \in RequestIds \ {r} : n.op = "refresh" /\ requests[p].op = "refresh"
           /\ requests[p].session = n.session => requests[p].user = n.user
    BY <2>1 DEF SessionInv, Owned
  <2>3. \A p \in RequestIds \ {r} : requests'[p] = requests[p]
    BY <1>1
  <2>4. \A p \in RequestIds \ {r}, q \in RequestIds \ {r} :
            /\ requests[q].op = "refresh" /\ requests[p].op = "refresh"
            /\ requests[p].session = requests[q].session
            => requests[p].user = requests[q].user
    BY DEF SessionInv, Owned
  <2>5. \A q \in RequestIds \ {r} : requests[q].op = "refresh" =>
            (sessions[requests[q].session] # NoRow =>
                sessions[requests[q].session].user = requests[q].user)
    BY DEF SessionInv, Owned
  <2> HIDE DEF n
  <2>6. \A q \in RequestIds : requests'[q].op = "refresh" =>
            (sessions'[requests'[q].session] # NoRow =>
                sessions'[requests'[q].session].user = requests'[q].user)
    BY <1>1, <2>1, <2>3, <2>5 DEF n
  <2>7. \A q, p \in RequestIds :
            /\ requests'[q].op = "refresh" /\ requests'[p].op = "refresh"
            /\ requests'[p].session = requests'[q].session
            => requests'[p].user = requests'[q].user
    BY <2>2, <2>3, <2>4 DEF n
  <2> QED BY <2>6, <2>7 DEF Owned
<1>r. \A u : Removed(u) => \E x \in RequestIds :
                   requests'[x].op = "remove" /\ requests'[x].user = u
  <2> TAKE u
  <2> HAVE Removed(u)
  <2>1. PICK x \in RequestIds : requests[x].op = "remove" /\ requests[x].user = u
    BY DEF Removed
  <2> QED BY <1>1, <1>3, <2>1
<1>8. Successor'
  <2> SUFFICES ASSUME NEW q \in RequestIds, requests'[q].pc \in Rotating,
                      \A x \in RequestIds : ~(/\ requests'[x].op = "remove"
                                              /\ requests'[x].user = requests'[q].user)
               PROVE  sessions'[q] # NoRow /\ sessions'[q].user = requests'[q].user
    BY DEF Successor, Removed
  <2>1. q # r /\ requests'[q] = requests[q]
    BY <1>1, <1>2
  <2>2. ~Removed(requests[q].user)
    BY <1>r, <2>1
  <2> QED BY <1>1, <2>1, <2>2 DEF SessionInv, Successor
<1>9. RotationChain'
  <2> SUFFICES ASSUME NEW s \in Ids, sessions[s] # NoRow, sessions[s].next # NoId,
                      \A x \in RequestIds : ~(/\ requests'[x].op = "remove"
                                              /\ requests'[x].user = sessions[s].user)
               PROVE  /\ sessions[sessions[s].next] # NoRow
                      /\ sessions[sessions[s].next].user = sessions[s].user
    BY <1>1 DEF RotationChain
  <2>1. ~Removed(sessions[s].user)
    BY <1>r
  <2> QED BY <2>1 DEF SessionInv, RotationChain, Removed
<1>10. RevokedForCause'
  <2> SUFFICES ASSUME NEW s \in Ids, sessions[s] # NoRow, sessions[s].revoked,
                      sessions[s].next = NoId
               PROVE  \E x \in RequestIds :
                         /\ requests'[x].op = "reset" /\ requests'[x].pc = "done"
                         /\ requests'[x].user = sessions[s].user
    BY <1>1 DEF RevokedForCause
  <2>1. PICK x \in RequestIds :
                  /\ requests[x].op = "reset" /\ requests[x].pc = "done"
                  /\ requests[x].user = sessions[s].user
    BY DEF SessionInv, RevokedForCause
  <2> QED BY <1>1, <2>1
<1> QED BY <1>0, <1>4, <1>5, <1>6, <1>7, <1>8, <1>9, <1>10 DEF SessionInv

\* Time changes no column but `expired'.
LEMMA ExpiryEffect ==
    ASSUME TypeInv, Expiry
    PROVE  /\ users' = users /\ requests' = requests
           /\ \A s \in Ids :
                 /\ sessions'[s] = NoRow <=> sessions[s] = NoRow
                 /\ sessions[s] # NoRow =>
                       /\ sessions'[s].user = sessions[s].user
                       /\ sessions'[s].next = sessions[s].next
                       /\ sessions'[s].revoked = sessions[s].revoked
                       /\ sessions[s].expired => sessions'[s].expired
<1>1. ASSUME NEW o \in Ids, ExpireOtp(o)
      PROVE  users' = users /\ requests' = requests /\ sessions' = sessions
  BY <1>1 DEF ExpireOtp
<1>2. ASSUME NEW i \in Ids, ExpireSession(i), NEW s \in Ids
      PROVE  /\ sessions'[s] = NoRow <=> sessions[s] = NoRow
             /\ sessions[s] # NoRow =>
                   /\ sessions'[s].user = sessions[s].user
                   /\ sessions'[s].next = sessions[s].next
                   /\ sessions'[s].revoked = sessions[s].revoked
                   /\ sessions[s].expired => sessions'[s].expired
  <2>1. CASE s # i
    BY <1>2, <2>1 DEF ExpireSession, TypeInv, TypeOK
  <2>2. CASE s = i
    <3> DEFINE row == [sessions[i] EXCEPT !.expired = TRUE]
    <3>1. sessions[i] \in Session /\ sessions'[i] = row
      BY <1>2 DEF ExpireSession, TypeInv, TypeOK
    <3>2. /\ row \in Session /\ row.user = sessions[i].user /\ row.next = sessions[i].next
          /\ row.revoked = sessions[i].revoked /\ row.expired
      BY <3>1 DEF Session
    <3> HIDE DEF row
    <3> QED BY <2>2, <3>1, <3>2, NullAssumption
  <2> QED BY <2>1, <2>2
<1>3. ASSUME NEW i \in Ids, ExpireSession(i) PROVE users' = users /\ requests' = requests
  BY <1>3 DEF ExpireSession
<1> QED BY <1>1, <1>2, <1>3 DEF Expiry

LEMMA ExpirySessionInv ==
    ASSUME SessionInv, Expiry
    PROVE  SessionInv'
<1>0. TypeInv /\ TypeInv'
  BY ExpiryTypeInv DEF SessionInv
<1>1. /\ users' = users /\ requests' = requests
      /\ \A s \in Ids :
            /\ sessions'[s] = NoRow <=> sessions[s] = NoRow
            /\ sessions[s] # NoRow =>
                  /\ sessions'[s].user = sessions[s].user
                  /\ sessions'[s].next = sessions[s].next
                  /\ sessions'[s].revoked = sessions[s].revoked
  BY <1>0, ExpiryEffect
<1>2. References' /\ Given' /\ Unopened'
  BY <1>1, Names DEF SessionInv, References, Given, Unopened
<1>3. Owned'
  <2>1. \A q \in RequestIds : requests[q].op = "refresh" => requests[q].session \in Ids
    BY <1>0, PhaseOp
  <2> QED BY <1>1, <2>1 DEF SessionInv, Owned
<1>4. Successor'
  BY <1>1, Names DEF SessionInv, Successor, Removed
<1>5. RotationChain'
  <2>1. \A s \in Ids : sessions[s] # NoRow /\ sessions[s].next # NoId =>
            sessions[s].next \in Ids
    BY <1>0 DEF TypeInv, TypeOK, Session
  <2> QED BY <1>1, <2>1 DEF SessionInv, RotationChain
<1>6. RevokedForCause'
  BY <1>1 DEF SessionInv, RevokedForCause
<1> QED BY <1>0, <1>2, <1>3, <1>4, <1>5, <1>6 DEF SessionInv

LEMMA InitSessionInv == Init => SessionInv
<1> SUFFICES ASSUME Init PROVE SessionInv
  OBVIOUS
<1>0. TypeInv
  BY InitTypeInv
<1>1. \A r \in RequestIds : requests[r] = Idle
  BY DEF Init
<1>2. \A r \in RequestIds : requests[r].pc = "idle" /\ requests[r].op = "none"
                            /\ requests[r].session = NoId
  BY <1>1 DEF Idle
<1>3. \A s \in Ids : sessions[s] # NoRow =>
         /\ s \in Old /\ sessions[s].user = s /\ sessions[s].next = NoId
         /\ ~sessions[s].revoked
  BY DEF Init
<1>4. \A s \in Old : users[s] \in User /\ users[s] # NoRow
  <2>1. \A s \in Old : users[s] = [email |-> OldEmail[s], password |-> s,
                                   status |-> "ACTIF"]
    BY DEF Init, Ids
  <2>a. \A s \in Old : OldEmail[s] \in Emails /\ s \in Ids
    BY InputAssumption DEF Ids
  <2>2. ASSUME NEW s \in Old PROVE users[s] \in User
    <3>1. [email |-> OldEmail[s], password |-> s, status |-> "ACTIF"] \in User
      BY <2>a DEF User, Statuses
    <3> QED BY <2>1, <3>1
  <2> QED BY <2>2, NullAssumption
<1>5. References
  BY <1>3, <1>4 DEF References
<1>6. Given /\ Owned /\ Successor
  BY <1>2, Names DEF Given, Owned, Successor, Rotating
<1>7. Unopened
  BY <1>3, NullAssumption, Names DEF Unopened
<1>8. RotationChain /\ RevokedForCause
  BY <1>3 DEF RotationChain, RevokedForCause
<1> QED BY <1>0, <1>5, <1>6, <1>7, <1>8 DEF SessionInv

LEMMA NextSessionInv == SessionInv /\ [Next]_vars => SessionInv'
<1> SUFFICES ASSUME SessionInv, [Next]_vars PROVE SessionInv'
  OBVIOUS
<1>1. CASE UNCHANGED vars
  BY <1>1 DEF vars, SessionInv, TypeInv, TypeOK, References, Given, Unopened, Owned,
              Successor, Removed, RotationChain, RevokedForCause
<1>2. ASSUME NEW r \in RequestIds, Start(r) PROVE SessionInv'
  BY <1>2, StartEffect, ArrivedSessionInv DEF SessionInv
<1>3. ASSUME NEW r \in RequestIds, Step(r) PROVE SessionInv'
  BY <1>3, StepSessionInv
<1> QED BY <1>1, <1>2, <1>3, ExpirySessionInv DEF Next, Quiet

(***************************************************************************)
(* The session that replaces a rotated one is stored, for the same         *)
(* account, as long as the rotated one is, unless the account was removed  *)
(* (issueTokens and refresh of AuthService): however requests overlap and  *)
(* whatever fails in between.                                              *)
(***************************************************************************)
THEOREM ChainKept == Spec => []RotationChain
<1>1. SessionInv => RotationChain
  BY DEF SessionInv
<1> QED BY <1>1, InitSessionInv, NextSessionInv, PTL DEF Spec

(***************************************************************************)
(* A session is revoked by a refresh of it or by an answered reset of its  *)
(* account's password (refresh, resetPassword of AuthService), never by    *)
(* what anybody else does.                                                 *)
(***************************************************************************)
THEOREM RevocationsHaveCause == Spec => []RevokedForCause
<1>1. SessionInv => RevokedForCause
  BY DEF SessionInv
<1> QED BY <1>1, InitSessionInv, NextSessionInv, PTL DEF Spec

LEMMA NextRevocation ==
    ASSUME SessionInv, [Next]_vars, NEW s \in Ids,
           sessions[s] # NoRow, sessions[s].revoked, sessions'[s] # NoRow
    PROVE  sessions'[s].revoked
<1>0. TypeInv
  BY DEF SessionInv
<1>1. CASE sessions' = sessions
  BY <1>1
<1>2. ASSUME NEW r \in RequestIds, Start(r) PROVE sessions' = sessions
  BY <1>0, <1>2, StartEffect DEF Arrived
<1>3. ASSUME NEW r \in RequestIds, Step(r) PROVE sessions'[s].revoked
  <2>1. sessions[s] \in Session
    BY <1>0 DEF TypeInv, TypeOK
  <2>2. ~OpensSession(r, s)
    BY DEF OpensSession, SessionInv, Unopened, Ended, Rotating
  <2>3. CASE RevokesSession(r, s) \/ RotatesSession(r, s)
    BY <2>1, <2>3 DEF RevokesSession, RotatesSession, Session
  <2>4. ~ReinsertsSession(r, s) /\ ~DeletesSession(r, s)
    BY DEF ReinsertsSession, DeletesSession
  <2> QED BY <1>0, <1>3, <2>2, <2>3, <2>4, SessionWrites
<1>4. CASE Expiry
  BY <1>0, <1>4, ExpiryEffect
<1> QED BY <1>1, <1>2, <1>3, <1>4 DEF Next, Quiet, vars

(***************************************************************************)
(* No step makes a revoked session good again: neither the save() of a     *)
(* session loaded before its revocation, nor a rotation that races a reset *)
(* (refresh and issueTokens of AuthService).                               *)
(***************************************************************************)
THEOREM RevocationIsFinal == Spec => RevocationFinal
<1>1. SessionInv /\ [Next]_vars =>
         [\A s \in Ids :
             sessions[s] # NoRow /\ sessions[s].revoked /\ sessions'[s] # NoRow =>
                 sessions'[s].revoked]_vars
  BY NextRevocation
<1> QED BY <1>1, InitSessionInv, NextSessionInv, PTL DEF Spec, RevocationFinal

=============================================================================
