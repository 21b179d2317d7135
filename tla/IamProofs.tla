----------------------------- MODULE IamProofs ------------------------------
(***************************************************************************)
(* Proofs about Iam, for every set of permissions, roles, accounts and     *)
(* requests, any database to start from, and any number of faults.         *)
(***************************************************************************)
EXTENDS Iam, TLAPS

(***************************************************************************)
(* Which phases a process goes through, and what it has at hand in each.   *)
(***************************************************************************)
ApiPhases == {"idle", "permissions", "insertPermission", "roles", "insertRole",
              "readPermissions", "clear", "fill", "users", "insertUser",
              "findLink", "insertLink"} \cup Ended
SeederPhases == (ApiPhases \ {"clear", "fill"}) \cup {"readGrants", "grant"}

RequestPhases(op) ==
    Ended \cup (CASE op = "createRole" -> {"insertRole", "clear", "fill"}
                  [] op = "updateRole" -> {"clear", "fill"}
                  [] op = "assign"     -> {"findLink", "insertLink"}
                  [] OTHER             -> {"idle"})

Phases(p, q) ==
    IF p = Api THEN ApiPhases
    ELSE IF p = Seeder THEN SeederPhases ELSE RequestPhases(q.op)

Shape(p, q) ==
    /\ q \in Process
    /\ q.pc \in Phases(p, q)
    /\ q.pc = "insertPermission" => q.code \in q.codes
    /\ q.pc \in {"insertRole", "readPermissions", "readGrants", "grant", "clear",
                 "fill", "insertUser", "findLink", "insertLink"} => q.role \in Names
    /\ q.pc \in {"insertUser", "findLink", "insertLink"} => q.user \in Accounts

TypeInv ==
    /\ TypeOK
    /\ \A p \in Processes : Shape(p, procs[p])

\* One process goes on; the others stay where they are.
LEMMA SetEffect ==
    ASSUME TypeInv, NEW p \in Processes, NEW q, Set(p, q)
    PROVE  procs'[p] = q /\ \A o \in Processes \ {p} : procs'[o] = procs[o]
  BY DEF TypeInv, TypeOK, Set

LEMMA GotoEffect ==
    ASSUME TypeInv, NEW p \in Processes, NEW pc, Goto(p, pc)
    PROVE  /\ \A o \in Processes \ {p} : procs'[o] = procs[o]
           /\ procs'[p].pc = pc /\ procs'[p].op = procs[p].op
           /\ pc \notin Ended =>
                 /\ procs'[p].code = procs[p].code
                 /\ procs'[p].codes = procs[p].codes
                 /\ procs'[p].roles = procs[p].roles
                 /\ procs'[p].role = procs[p].role
                 /\ procs'[p].users = procs[p].users
                 /\ procs'[p].user = procs[p].user
                 /\ procs'[p].want = procs[p].want
<1>1. procs'[p] = At(procs[p], pc) /\ procs[p] \in Process
      /\ \A o \in Processes \ {p} : procs'[o] = procs[o]
  BY DEF TypeInv, TypeOK, Goto, Set
<1>2. CASE pc \in Ended
  BY <1>1, <1>2 DEF At, Idle
<1>3. CASE pc \notin Ended
  BY <1>1, <1>3 DEF At, Process
<1> QED BY <1>2, <1>3

LEMMA OneProcess ==
    ASSUME TypeInv, NEW p \in Processes, NEW q, Set(p, q), Shape(p, q),
           permissions' \subseteq Codes, roles' \subseteq Names,
           grants' \subseteq Names \X Codes, accounts' \subseteq Accounts,
           links' \subseteq Accounts \X Names, faults' \in 0..MaxFaults
    PROVE  TypeInv'
<1>1. procs' \in [Processes -> Process]
  BY DEF Set, TypeInv, TypeOK, Shape
<1>2. \A o \in Processes : Shape(o, procs'[o])
  BY SetEffect DEF TypeInv
<1> QED BY <1>1, <1>2 DEF TypeInv, TypeOK

\* Where a process may end.
LEMMA IdleShape ==
    ASSUME NEW p \in Processes
    PROVE  /\ Idle \in Process /\ Shape(p, Idle)
           /\ \A q \in Process, pc \in Ended : Shape(p, At(q, pc))
<1>1. Idle \in Process
  BY DEF Idle, Process, PcValues
<1>2. Idle.pc = "idle" /\ Idle.op = "none"
  BY DEF Idle
<1>3. "idle" \in Phases(p, Idle)
  BY <1>2 DEF Phases, ApiPhases, SeederPhases, RequestPhases
<1>4. Shape(p, Idle)
  BY <1>1, <1>2, <1>3 DEF Shape
<1>5. ASSUME NEW q \in Process, NEW pc \in Ended PROVE Shape(p, At(q, pc))
  <2>1. At(q, pc) \in Process /\ At(q, pc).pc = pc
    BY <1>1, <1>5 DEF At, Process, PcValues, Idle
  <2>2. Ended \subseteq Phases(p, At(q, pc))
    BY DEF Phases, ApiPhases, SeederPhases, RequestPhases, Ended
  <2> QED BY <2>1, <2>2 DEF Shape, Ended
<1> QED BY <1>1, <1>4, <1>5

LEMMA GotoTypeInv ==
    ASSUME TypeInv, NEW p \in Processes, NEW pc \in PcValues, Goto(p, pc),
           pc \in Phases(p, procs[p]), pc # "insertPermission",
           pc \in {"insertRole", "readPermissions", "readGrants", "grant", "clear",
                   "fill", "insertUser", "findLink", "insertLink"}
              => procs[p].role \in Names,
           pc \in {"insertUser", "findLink", "insertLink"}
              => procs[p].user \in Accounts,
           permissions' \subseteq Codes, roles' \subseteq Names,
           grants' \subseteq Names \X Codes, accounts' \subseteq Accounts,
           links' \subseteq Accounts \X Names, faults' \in 0..MaxFaults
    PROVE  TypeInv'
<1> DEFINE q == procs[p]
<1>1. q \in Process
  BY DEF TypeInv, TypeOK
<1>2. Shape(p, At(q, pc))
  <2>1. CASE pc \in Ended
    BY <1>1, <2>1, IdleShape
  <2>2. CASE pc \notin Ended
    BY <1>1, <2>2 DEF At, Process, Shape, Phases
  <2> QED BY <2>1, <2>2
<1> QED BY <1>2, OneProcess DEF Goto

LEMMA InitTypeInv == Init => TypeInv
<1> SUFFICES ASSUME Init PROVE TypeInv
  OBVIOUS
<1>1. \A p \in Processes : procs[p] = Idle
  BY DEF Init
<1>2. procs \in [Processes -> Process]
  BY IdleShape DEF Init
<1>3. 0 \in 0..MaxFaults
  BY InputAssumption
<1> QED BY <1>1, <1>2, <1>3, IdleShape DEF Init, TypeInv, TypeOK

LEMMA StartTypeInv ==
    ASSUME TypeInv,
           \/ StartApi \/ StartSeeder
           \/ \E r \in RequestIds : Start(r)
    PROVE  TypeInv'
<1>1. CASE StartApi
  <2> DEFINE q == [Idle EXCEPT !.pc = "permissions", !.op = "boot", !.codes = Codes,
                               !.roles = {AdminRole}, !.users = {AdminAccount}]
  <2>1. Shape(Api, q) /\ Api \in Processes
    BY InputAssumption DEF Shape, Idle, Process, PcValues, Phases, ApiPhases,
                           Processes
  <2> QED BY <1>1, <2>1, OneProcess DEF StartApi, tables, TypeInv, TypeOK
<1>2. CASE StartSeeder
  <2> DEFINE q == [Idle EXCEPT !.pc = "permissions", !.op = "seed", !.codes = Codes,
                               !.roles = SeedRoles, !.users = Accounts]
  <2>1. Shape(Seeder, q) /\ Seeder \in Processes
    BY DEF Shape, Idle, Process, PcValues, Phases, ApiPhases, SeederPhases,
           Processes, SeedRoles, Api, Seeder
  <2> QED BY <1>2, <2>1, OneProcess DEF StartSeeder, tables, TypeInv, TypeOK
<1>3. ASSUME NEW r \in RequestIds, NEW op, NEW x \in Names, NEW q \in Process,
             Begin(r, op, x, q), q.user \in Accounts \cup {None},
             \/ op = "createRole" /\ q.pc = "insertRole"
             \/ op = "updateRole" /\ q.pc = "clear"
             \/ op = "assign" /\ q.pc = "findLink" /\ q.user \in Accounts
      PROVE  TypeInv'
  <2>1. r \in Processes /\ r # Api /\ r # Seeder
    BY NullAssumption DEF Processes
  <2>2. Shape(r, [q EXCEPT !.op = op, !.role = x])
    BY <1>3, <2>1 DEF Shape, Process, Phases, RequestPhases
  <2> QED BY <1>3, <2>1, <2>2, OneProcess DEF Begin, tables, TypeInv, TypeOK
<1>4. ASSUME NEW r \in RequestIds, NEW x \in Names, NEW list \in SUBSET Codes,
             CreateRole(r, x, list)
      PROVE  TypeInv'
  <2> DEFINE q == [Idle EXCEPT !.pc = "insertRole", !.codes = list, !.want = list]
  <2>1. q \in Process /\ q.pc = "insertRole" /\ q.user = None
    BY DEF Idle, Process, PcValues
  <2>2. Begin(r, "createRole", x, q)
    BY <1>4 DEF CreateRole
  <2> QED BY <1>3, <2>1, <2>2
<1>5. ASSUME NEW r \in RequestIds, NEW x \in Names, NEW list \in SUBSET Codes,
             UpdateRolePermissions(r, x, list)
      PROVE  TypeInv'
  <2> DEFINE q == [Idle EXCEPT !.pc = "clear", !.codes = list, !.want = list]
  <2>1. q \in Process /\ q.pc = "clear" /\ q.user = None
    BY DEF Idle, Process, PcValues
  <2>2. Begin(r, "updateRole", x, q)
    BY <1>5 DEF UpdateRolePermissions
  <2> QED BY <1>3, <2>1, <2>2
<1>6. ASSUME NEW r \in RequestIds, NEW x \in Names, NEW a \in Accounts,
             AssignRoleToUser(r, x, a)
      PROVE  TypeInv'
  <2> DEFINE q == [Idle EXCEPT !.pc = "findLink", !.user = a]
  <2>1. q \in Process /\ q.pc = "findLink" /\ q.user = a
    BY DEF Idle, Process, PcValues
  <2>2. Begin(r, "assign", x, q)
    BY <1>6 DEF AssignRoleToUser
  <2> QED BY <1>3, <2>1, <2>2
<1> QED BY <1>1, <1>2, <1>4, <1>5, <1>6 DEF Start

\* The phases, process by process.
LEMMA PhaseOf ==
    ASSUME TypeInv, NEW p \in Processes
    PROVE  LET q == procs[p]
           IN  /\ Shape(p, q)
               /\ p = Api => q.pc \in ApiPhases
               /\ p = Seeder => q.pc \in SeederPhases
               /\ p \in RequestIds => q.pc \in RequestPhases(q.op)
               /\ p \in RequestIds => p # Api /\ p # Seeder
               /\ Api # Seeder
<1>1. Shape(p, procs[p])
  BY DEF TypeInv
<1>2. Api # Seeder /\ (p \in RequestIds => p # Api /\ p # Seeder)
  BY NullAssumption DEF Api, Seeder
<1> QED BY <1>1, <1>2 DEF Shape, Phases

\* Phases that belong to some processes only.
LEMMA PhaseOwner ==
    ASSUME TypeInv, NEW p \in Processes
    PROVE  LET pc == procs[p].pc
           IN  /\ pc \in {"permissions", "insertPermission", "roles",
                          "readPermissions", "users", "insertUser"}
                     => p \in {Api, Seeder}
               /\ pc \in {"readGrants", "grant"} => p = Seeder
               /\ pc \in {"clear", "fill"} => p = Api \/ p \in RequestIds
               /\ p \in RequestIds /\ pc \in {"insertRole", "clear", "fill"}
                     => procs[p].op \in {"createRole", "updateRole"}
               /\ p \in RequestIds /\ pc \in {"findLink", "insertLink"}
                     => procs[p].op = "assign"
               /\ p \in RequestIds /\ pc = "insertRole"
                     => procs[p].op = "createRole"
<1>1. p \in RequestIds \/ p = Api \/ p = Seeder
  BY DEF Processes
<1>2. CASE p = Api
  BY <1>2, PhaseOf DEF ApiPhases, Ended
<1>3. CASE p = Seeder
  BY <1>3, PhaseOf DEF SeederPhases, ApiPhases, Ended
<1>4. CASE p \in RequestIds
  BY <1>4, PhaseOf DEF RequestPhases, Ended
<1> QED BY <1>1, <1>2, <1>3, <1>4

LEMMA SeedPhases ==
    ASSUME NEW p \in {Api, Seeder}, NEW q
    PROVE  /\ {"permissions", "insertPermission", "roles", "insertRole",
               "readPermissions", "users", "insertUser", "findLink",
               "insertLink"} \cup Ended \subseteq Phases(p, q)
           /\ p = Api => {"clear", "fill"} \subseteq Phases(p, q)
           /\ p # Api => {"readGrants", "grant"} \subseteq Phases(p, q)
  BY DEF Phases, ApiPhases, SeederPhases, Ended, Api, Seeder

LEMMA FindPermissionTypeInv ==
    ASSUME TypeInv, NEW p \in Processes, FindPermission(p)
    PROVE  TypeInv'
<1> DEFINE q == procs[p]
<1>1. q.pc = "permissions" /\ p \in {Api, Seeder} /\ Shape(p, q) /\ q \in Process
  BY PhaseOwner, PhaseOf DEF FindPermission, Runs, Shape
<1>2. CASE Goto(p, "roles")
  <2>1. "roles" \in PcValues /\ "roles" \in Phases(p, q)
    BY <1>1, SeedPhases DEF PcValues
  <2> QED BY <1>2, <2>1, GotoTypeInv DEF FindPermission, tables, TypeInv, TypeOK
<1>3. ASSUME NEW c \in q.codes,
             Set(p, IF c \in permissions THEN [q EXCEPT !.codes = @ \ {c}]
                    ELSE [q EXCEPT !.pc = "insertPermission", !.code = c])
      PROVE  TypeInv'
  <2>1. {"permissions", "insertPermission"} \subseteq Phases(p, [q EXCEPT !.codes = @ \ {c}])
        /\ {"permissions", "insertPermission"} \subseteq
              Phases(p, [q EXCEPT !.pc = "insertPermission", !.code = c])
    BY <1>1, SeedPhases
  <2>2. Shape(p, [q EXCEPT !.codes = @ \ {c}])
    BY <1>1, <2>1 DEF Shape, Process
  <2>3. Shape(p, [q EXCEPT !.pc = "insertPermission", !.code = c])
    BY <1>1, <2>1 DEF Shape, Process, PcValues
  <2> QED BY <1>3, <2>2, <2>3, OneProcess DEF FindPermission, tables, TypeInv, TypeOK
<1> QED BY <1>2, <1>3 DEF FindPermission

LEMMA InsertPermissionTypeInv ==
    ASSUME TypeInv, NEW p \in Processes, InsertPermission(p)
    PROVE  TypeInv'
<1> DEFINE q == procs[p]
           n == [q EXCEPT !.pc = "permissions", !.code = None, !.codes = @ \ {q.code}]
<1>1. /\ q.pc = "insertPermission" /\ p \in {Api, Seeder} /\ Shape(p, q)
      /\ q \in Process /\ q.code \in q.codes
  BY PhaseOwner, PhaseOf DEF InsertPermission, Runs, Shape
<1>2. "permissions" \in Phases(p, n)
  BY <1>1, SeedPhases
<1>3. Shape(p, n) /\ q.code \in Codes
  BY <1>1, <1>2 DEF Shape, Process, PcValues
<1> QED BY <1>3, OneProcess DEF InsertPermission, TypeInv, TypeOK

LEMMA FindRoleTypeInv ==
    ASSUME TypeInv, NEW p \in Processes, FindRole(p)
    PROVE  TypeInv'
<1> DEFINE q == procs[p]
<1>1. q.pc = "roles" /\ p \in {Api, Seeder} /\ Shape(p, q) /\ q \in Process
  BY PhaseOwner, PhaseOf DEF FindRole, Runs, Shape
<1>2. CASE Goto(p, "users")
  <2>1. "users" \in PcValues /\ "users" \in Phases(p, q)
    BY <1>1, SeedPhases DEF PcValues
  <2> QED BY <1>2, <2>1, GotoTypeInv DEF FindRole, tables, TypeInv, TypeOK
<1>3. ASSUME NEW x \in q.roles, NEW pc \in {"readPermissions", "insertRole"},
             Set(p, [q EXCEPT !.role = x, !.roles = @ \ {x}, !.pc = pc])
      PROVE  TypeInv'
  <2> DEFINE n == [q EXCEPT !.role = x, !.roles = @ \ {x}, !.pc = pc]
  <2>1. pc \in Phases(p, n)
    BY <1>1, SeedPhases
  <2>2. Shape(p, n)
    BY <1>1, <2>1 DEF Shape, Process, PcValues
  <2> QED BY <1>3, <2>2, OneProcess DEF FindRole, tables, TypeInv, TypeOK
<1> QED BY <1>2, <1>3 DEF FindRole

LEMMA ReadTypeInv ==
    ASSUME TypeInv, NEW p \in Processes, ReadPermissions(p) \/ ReadGrants(p)
    PROVE  TypeInv'
<1> DEFINE q == procs[p]
<1>1. q.pc \in {"readPermissions", "readGrants"} /\ Shape(p, q) /\ q \in Process
      /\ p \in {Api, Seeder} /\ q.role \in Names
  BY PhaseOwner, PhaseOf DEF ReadPermissions, ReadGrants, Runs, Shape
<1>2. /\ permissions \subseteq Codes /\ SeedCodes[q.role] \subseteq Codes
      /\ q.codes \subseteq Codes
  BY <1>1, InputAssumption DEF TypeInv, TypeOK, Process
<1>3. ASSUME NEW codes \in SUBSET Codes,
             NEW pc \in IF p = Api THEN {"clear"} ELSE {"readGrants", "grant"}
      PROVE  Shape(p, [q EXCEPT !.codes = codes, !.pc = pc])
  <2>1. pc \in Phases(p, [q EXCEPT !.codes = codes, !.pc = pc])
    BY <1>1, SeedPhases
  <2> QED BY <1>1, <2>1 DEF Shape, Process, PcValues
<1>4. \E codes \in SUBSET Codes,
         pc \in IF p = Api THEN {"clear"} ELSE {"readGrants", "grant"} :
         Set(p, [q EXCEPT !.codes = codes, !.pc = pc])
  <2>1. CASE ReadPermissions(p) /\ p = Api
    BY <1>2, <2>1 DEF ReadPermissions
  <2>2. CASE ReadPermissions(p) /\ p # Api
    <3>1. Set(p, [q EXCEPT !.codes = SeedCodes[q.role] \cap permissions,
                           !.pc = "readGrants"])
      BY <2>2 DEF ReadPermissions
    <3> QED BY <1>2, <2>2, <3>1
  <2>3. CASE ReadGrants(p)
    <3>1. p # Api
      BY <2>3, PhaseOwner, PhaseOf DEF ReadGrants, Runs
    <3>2. Set(p, [q EXCEPT !.codes = q.codes \ Granted(q.role), !.pc = "grant"])
      BY <1>1, <2>3 DEF ReadGrants, Process, Set
    <3> QED BY <1>2, <3>1, <3>2
  <2> QED BY <2>1, <2>2, <2>3
<1> QED BY <1>3, <1>4, OneProcess
        DEF ReadPermissions, ReadGrants, tables, TypeInv, TypeOK

LEMMA GrantTypeInv ==
    ASSUME TypeInv, NEW p \in Processes, Grant(p)
    PROVE  TypeInv'
<1> DEFINE q == procs[p]
<1>1. /\ q.pc = "grant" /\ p = Seeder /\ Shape(p, q) /\ q \in Process
      /\ q.role \in Names /\ p # Api
  BY PhaseOwner, PhaseOf DEF Grant, Shape
<1>2. CASE Goto(p, "roles") /\ UNCHANGED grants
  <2>1. "roles" \in PcValues /\ "roles" \in Phases(p, q)
    BY <1>1, SeedPhases DEF PcValues
  <2> QED BY <1>2, <2>1, GotoTypeInv DEF Grant, TypeInv, TypeOK
<1>3. ASSUME NEW c \in q.codes, grants' = grants \cup {<<q.role, c>>},
             Set(p, [q EXCEPT !.codes = @ \ {c}])
      PROVE  TypeInv'
  <2>1. "grant" \in Phases(p, [q EXCEPT !.codes = @ \ {c}])
    BY <1>1, SeedPhases
  <2>2. Shape(p, [q EXCEPT !.codes = @ \ {c}]) /\ c \in Codes
    BY <1>1, <2>1 DEF Shape, Process
  <2> QED BY <1>1, <1>3, <2>2, OneProcess DEF Grant, TypeInv, TypeOK
<1> QED BY <1>2, <1>3 DEF Grant

LEMMA FindUserTypeInv ==
    ASSUME TypeInv, NEW p \in Processes, FindUser(p)
    PROVE  TypeInv'
<1> DEFINE q == procs[p]
<1>1. q.pc = "users" /\ p \in {Api, Seeder} /\ Shape(p, q) /\ q \in Process
  BY PhaseOwner, PhaseOf DEF FindUser, Runs, Shape
<1>2. CASE Goto(p, "done")
  <2>1. "done" \in PcValues /\ "done" \in Phases(p, q)
    BY <1>1, SeedPhases DEF PcValues, Ended
  <2> QED BY <1>2, <2>1, GotoTypeInv DEF FindUser, tables, TypeInv, TypeOK
<1>3. ASSUME NEW a \in q.users, NEW pc \in {"findLink", "insertUser"},
             Set(p, [q EXCEPT !.user = a, !.users = @ \ {a},
                              !.role = SeedRole[a], !.pc = pc])
      PROVE  TypeInv'
  <2> DEFINE n == [q EXCEPT !.user = a, !.users = @ \ {a},
                            !.role = SeedRole[a], !.pc = pc]
  <2>1. pc \in Phases(p, n)
    BY <1>1, SeedPhases
  <2>2. a \in Accounts /\ SeedRole[a] \in Names
    BY <1>1, InputAssumption DEF Process
  <2>3. Shape(p, n)
    BY <1>1, <2>1, <2>2 DEF Shape, Process, PcValues
  <2> QED BY <1>3, <2>3, OneProcess DEF FindUser, tables, TypeInv, TypeOK
<1> QED BY <1>2, <1>3 DEF FindUser

\* A request has left its first phases behind.
LEMMA RequestPhase ==
    ASSUME TypeInv, NEW p \in Processes, p \notin {Api, Seeder}
    PROVE  /\ procs[p].pc = "insertRole" => "clear" \in Phases(p, procs[p])
           /\ procs[p].pc = "clear" => "fill" \in Phases(p, procs[p])
           /\ procs[p].pc = "findLink" => "insertLink" \in Phases(p, procs[p])
           /\ Ended \subseteq Phases(p, procs[p])
<1>1. procs[p].pc \in RequestPhases(procs[p].op)
  BY DEF TypeInv, Shape, Phases
<1>2. Phases(p, procs[p]) = RequestPhases(procs[p].op)
  BY DEF Phases
<1> QED BY <1>1, <1>2 DEF RequestPhases, Ended

LEMMA RoleTypeInv ==
    ASSUME TypeInv, NEW p \in Processes,
           InsertRole(p) \/ DeleteGrants(p) \/ InsertGrants(p)
    PROVE  TypeInv'
<1> DEFINE q == procs[p]
<1>1. Shape(p, q) /\ q \in Process /\ q.role \in Names /\ q.codes \subseteq Codes
  BY PhaseOf DEF InsertRole, DeleteGrants, InsertGrants, Runs, Shape, Process
<1>2. /\ "done" \in PcValues /\ "roles" \in PcValues /\ "clear" \in PcValues
      /\ "fill" \in PcValues /\ "readPermissions" \in PcValues
  BY DEF PcValues, Ended
<1>3. p \in Processes \ RequestIds => p \in {Api, Seeder}
  BY DEF Processes
<1>4. p \in RequestIds => p \notin {Api, Seeder}
  BY NullAssumption
<1>5. CASE InsertRole(p)
  <2> DEFINE pc == IF p \in RequestIds THEN "clear" ELSE "readPermissions"
  <2>1. pc \in Phases(p, q)
    BY <1>3, <1>4, <1>5, SeedPhases, RequestPhase DEF InsertRole, Runs
  <2> QED BY <1>1, <1>2, <1>5, <2>1, GotoTypeInv DEF InsertRole, TypeInv, TypeOK
<1>6. ASSUME q.pc \in {"clear", "fill"}
      PROVE  AfterReplace(p) \in Phases(p, q) /\ AfterReplace(p) \in PcValues
             /\ AfterReplace(p) \in {"roles", "done"}
  <2>1. p = Api \/ p \notin {Api, Seeder}
    BY <1>4, <1>6, PhaseOwner
  <2> QED BY <1>2, <2>1, SeedPhases, RequestPhase DEF AfterReplace, Ended
<1>7. CASE DeleteGrants(p)
  <2> DEFINE pc == IF q.codes = {} THEN AfterReplace(p) ELSE "fill"
  <2>1. q.pc = "clear" /\ (p = Api \/ p \notin {Api, Seeder})
    BY <1>4, <1>7, PhaseOwner DEF DeleteGrants, Runs
  <2>2. pc \in Phases(p, q) /\ pc \in PcValues /\ pc \in {"roles", "done", "fill"}
    BY <1>2, <1>6, <2>1, SeedPhases, RequestPhase
  <2> QED BY <1>1, <1>7, <2>2, GotoTypeInv DEF DeleteGrants, TypeInv, TypeOK
<1>8. CASE InsertGrants(p)
  <2>1. q.pc = "fill" /\ {q.role} \X q.codes \subseteq Names \X Codes
    BY <1>1, <1>8 DEF InsertGrants, Runs
  <2> QED BY <1>6, <1>8, <2>1, GotoTypeInv DEF InsertGrants, TypeInv, TypeOK
<1> QED BY <1>5, <1>7, <1>8

LEMMA LinkTypeInv ==
    ASSUME TypeInv, NEW p \in Processes,
           InsertUser(p) \/ FindLink(p) \/ InsertLink(p)
    PROVE  TypeInv'
<1> DEFINE q == procs[p]
<1>1. /\ q.pc \in {"insertUser", "findLink", "insertLink"} /\ Shape(p, q)
      /\ q.role \in Names /\ q.user \in Accounts
  BY PhaseOf DEF InsertUser, FindLink, InsertLink, Runs, Shape
<1>2. /\ "done" \in PcValues /\ "users" \in PcValues /\ "findLink" \in PcValues
      /\ "insertLink" \in PcValues
  BY DEF PcValues, Ended
<1>3. /\ p \in Processes \ RequestIds => p \in {Api, Seeder}
      /\ p \in RequestIds => p \notin {Api, Seeder}
  BY NullAssumption DEF Processes
<1>4. AfterLink(p) \in Phases(p, q) /\ AfterLink(p) \in PcValues
      /\ AfterLink(p) \in {"users", "done"}
  BY <1>2, <1>3, SeedPhases, RequestPhase DEF AfterLink, Ended
<1>5. CASE InsertUser(p)
  <2>1. "findLink" \in Phases(p, q)
    BY <1>5, PhaseOwner, SeedPhases DEF InsertUser, Runs
  <2> QED BY <1>1, <1>2, <1>5, <2>1, GotoTypeInv DEF InsertUser, TypeInv, TypeOK
<1>6. CASE FindLink(p)
  <2> DEFINE pc == IF <<q.user, q.role>> \in links THEN AfterLink(p) ELSE "insertLink"
  <2>1. "insertLink" \in Phases(p, q)
    BY <1>3, <1>6, SeedPhases, RequestPhase DEF FindLink, Runs
  <2>2. pc \in Phases(p, q) /\ pc \in PcValues
        /\ pc \in {"users", "done", "insertLink"}
    BY <1>2, <1>4, <2>1
  <2> QED BY <1>1, <1>6, <2>2, GotoTypeInv DEF FindLink, tables, TypeInv, TypeOK
<1>7. CASE InsertLink(p)
  BY <1>1, <1>4, <1>7, GotoTypeInv DEF InsertLink, TypeInv, TypeOK
<1> QED BY <1>5, <1>6, <1>7

\* The API dies.
LEMMA DieTypeInv ==
    ASSUME TypeInv, Die, UNCHANGED tables, faults' \in 0..MaxFaults
    PROVE  TypeInv'
<1>1. ASSUME NEW p \in Processes PROVE Shape(p, procs'[p])
  <2>1. procs'[p] = procs[p] \/ procs'[p] = At(procs[p], "failed")
    BY DEF Die
  <2>2. "failed" \in Ended /\ Shape(p, procs[p]) /\ procs[p] \in Process
    BY DEF TypeInv, Shape, Ended
  <2> QED BY <2>1, <2>2, IdleShape
<1>2. procs' \in [Processes -> Process]
  BY <1>1 DEF Shape, Die
<1> QED BY <1>1, <1>2 DEF tables, TypeInv, TypeOK

LEMMA FailTypeInv ==
    ASSUME TypeInv, (\E p \in Processes : Fail(p)) \/ Crash
    PROVE  TypeInv'
<1>1. faults' \in 0..MaxFaults /\ UNCHANGED tables
  BY InputAssumption DEF Fail, Crash, TypeInv, TypeOK
<1>2. CASE Die
  BY <1>1, <1>2, DieTypeInv
<1>3. ASSUME NEW p \in Processes, Goto(p, "failed") PROVE TypeInv'
  <2>1. Shape(p, At(procs[p], "failed"))
    BY IdleShape DEF TypeInv, TypeOK, Ended
  <2> QED BY <1>1, <1>3, <2>1, OneProcess DEF Goto, tables, TypeInv, TypeOK
<1> QED BY <1>2, <1>3 DEF Fail, Crash

LEMMA NextTypeInv ==
    ASSUME TypeInv, [Next]_vars
    PROVE  TypeInv'
<1>1. CASE UNCHANGED vars
  BY <1>1 DEF vars, TypeInv, TypeOK
<1>2. ASSUME NEW p \in Processes, Step(p) PROVE TypeInv'
  BY <1>2, FindPermissionTypeInv, InsertPermissionTypeInv, FindRoleTypeInv,
     ReadTypeInv, GrantTypeInv, RoleTypeInv, FindUserTypeInv, LinkTypeInv,
     FailTypeInv DEF Step
<1> QED BY <1>1, <1>2, StartTypeInv, FailTypeInv DEF Next, Quiet

LEMMA TypeInvHolds == Spec => []TypeInv
  BY InitTypeInv, NextTypeInv, PTL DEF Spec

(***************************************************************************)
(* Whatever interleaves, fails or crashes: the tables keep their types and *)
(* every process its phases.                                               *)
(***************************************************************************)
THEOREM TypeCorrect == Spec => []TypeOK
<1>1. TypeInv => TypeOK
  BY DEF TypeInv
<1> QED BY <1>1, TypeInvHolds, PTL

-----------------------------------------------------------------------------
(***************************************************************************)
(* Where a seed has got to: what it has done is in the tables, what is     *)
(* left is in its locals.                                                  *)
(***************************************************************************)
SeedsPermissions(q) ==
    /\ q.pc \in {"permissions", "insertPermission"} => Codes \ q.codes \subseteq permissions
    /\ q.pc \notin {"idle", "permissions", "insertPermission"} \cup Ended
          => permissions = Codes

AtRole == {"insertRole", "readPermissions", "clear", "fill"}
AtUser == {"insertUser", "findLink", "insertLink"}

BootAt(q) ==
    /\ SeedsPermissions(q)
    /\ q.pc \in {"permissions", "insertPermission"} => q.roles = {AdminRole}
    /\ q.pc = "roles" => \/ q.roles = {AdminRole}
                         \/ q.roles = {} /\ {AdminRole} \X Codes \subseteq grants
    /\ q.pc \in AtRole => q.roles = {} /\ q.role = AdminRole
    /\ q.pc \in {"clear", "fill"} => q.codes = Codes
    /\ q.pc \in AtUser \cup {"users"} => {AdminRole} \X Codes \subseteq grants
    /\ q.pc \in AtRole \cup {"permissions", "insertPermission", "roles"}
          => q.users = {AdminAccount}
    /\ q.pc = "users" => \/ q.users = {AdminAccount}
                         \/ q.users = {} /\ <<AdminAccount, AdminRole>> \in links
    /\ q.pc \in AtUser => /\ q.users = {}
                          /\ q.user = AdminAccount /\ q.role = AdminRole

\* Requests are only handled by an API that is up.
Serving == procs[Api].pc # "done" => \A r \in RequestIds : ~InFlight(r)

BootInv == TypeInv /\ Serving /\ BootAt(procs[Api])

LEMMA BootEnded ==
    ASSUME NEW q, q.pc \in Ended \cup {"idle"}
    PROVE  BootAt(q)
  BY DEF BootAt, SeedsPermissions, AtRole, AtUser, Ended

\* The API seeds while the tables grow around it.
LEMMA BootGrows ==
    ASSUME BootInv, TypeInv', procs'[Api] = procs[Api],
           InFlight(Api) =>
              /\ permissions \subseteq permissions' /\ grants \subseteq grants'
              /\ links \subseteq links'
    PROVE  BootAt(procs[Api])'
<1> DEFINE q == procs[Api]
<1>1. CASE InFlight(Api)
  <2>1. BootAt(q) /\ permissions' \subseteq Codes
    BY DEF BootInv, TypeInv, TypeOK
  <2> QED BY <1>1, <2>1 DEF BootAt, SeedsPermissions
<1>2. CASE ~InFlight(Api)
  BY <1>2, BootEnded DEF InFlight, BootAt, SeedsPermissions, AtRole, AtUser, Ended
<1> QED BY <1>1, <1>2

\* The start-up itself, statement by statement.
LEMMA BootStep ==
    ASSUME BootInv, Step(Api)
    PROVE  BootAt(procs[Api])'
<1> DEFINE q == procs[Api]
           n == procs'[Api]
<1> USE DEF AtRole, AtUser, Ended
<1>1. /\ Api \in Processes /\ Api \notin RequestIds /\ Api # Seeder /\ TypeInv
      /\ q \in Process /\ BootAt(q) /\ permissions \subseteq Codes
  BY NullAssumption DEF Processes, BootInv, TypeInv, TypeOK, Api, Seeder
<1>2. CASE FindPermission(Api)
  <2>1. CASE q.codes = {} /\ Goto(Api, "roles")
    <3>1. /\ n.pc = "roles" /\ n.roles = q.roles /\ n.users = q.users
      BY <1>1, <2>1, GotoEffect
    <3> QED BY <1>1, <1>2, <2>1, <3>1
            DEF FindPermission, Runs, tables, BootAt, SeedsPermissions
  <2>2. ASSUME NEW c \in q.codes,
               Set(Api, IF c \in permissions THEN [q EXCEPT !.codes = @ \ {c}]
                        ELSE [q EXCEPT !.pc = "insertPermission", !.code = c])
        PROVE  BootAt(q)'
    <3>1. n = IF c \in permissions THEN [q EXCEPT !.codes = @ \ {c}]
              ELSE [q EXCEPT !.pc = "insertPermission", !.code = c]
      BY <1>1, <2>2, SetEffect
    <3>2. /\ n.pc \in {"permissions", "insertPermission"}
          /\ n.roles = q.roles /\ n.users = q.users
          /\ q.codes \ n.codes \subseteq permissions
      BY <1>1, <1>2, <3>1 DEF FindPermission, Runs, Process
    <3> QED BY <1>1, <1>2, <3>2
            DEF FindPermission, Runs, tables, BootAt, SeedsPermissions
  <2> QED BY <1>2, <2>1, <2>2 DEF FindPermission
<1>3. CASE InsertPermission(Api)
  <2>1. n = [q EXCEPT !.pc = "permissions", !.code = None, !.codes = @ \ {q.code}]
    BY <1>1, <1>3, SetEffect DEF InsertPermission
  <2>2. /\ n.pc = "permissions" /\ n.roles = q.roles /\ n.users = q.users
        /\ n.codes = q.codes \ {q.code}
    BY <1>1, <2>1 DEF Process
  <2> QED BY <1>1, <1>3, <2>2 DEF InsertPermission, Runs, BootAt, SeedsPermissions
<1>4. CASE FindRole(Api)
  <2>1. CASE q.roles = {} /\ Goto(Api, "users")
    <3>1. n.pc = "users" /\ n.users = q.users
      BY <1>1, <2>1, GotoEffect
    <3> QED BY <1>1, <1>4, <2>1, <3>1
            DEF FindRole, Runs, tables, BootAt, SeedsPermissions
  <2>2. ASSUME NEW x \in q.roles, NEW pc \in {"readPermissions", "insertRole"},
               Set(Api, [q EXCEPT !.role = x, !.roles = @ \ {x}, !.pc = pc])
        PROVE  BootAt(q)'
    <3>1. n = [q EXCEPT !.role = x, !.roles = @ \ {x}, !.pc = pc]
      BY <1>1, <2>2, SetEffect
    <3>2. /\ n.pc = pc /\ n.role = x /\ n.roles = q.roles \ {x}
          /\ n.users = q.users
      BY <1>1, <3>1 DEF Process
    <3> QED BY <1>1, <1>4, <3>2
            DEF FindRole, Runs, tables, BootAt, SeedsPermissions
  <2> QED BY <1>4, <2>1, <2>2 DEF FindRole
<1>5. CASE InsertRole(Api)
  <2>1. /\ n.pc = "readPermissions" /\ n.role = q.role /\ n.roles = q.roles
        /\ n.users = q.users
    BY <1>1, <1>5, GotoEffect DEF InsertRole
  <2> QED BY <1>1, <1>5, <2>1 DEF InsertRole, Runs, BootAt, SeedsPermissions
<1>6. CASE ReadPermissions(Api)
  <2>1. n = [q EXCEPT !.codes = permissions, !.pc = "clear"]
    BY <1>1, <1>6, SetEffect DEF ReadPermissions
  <2>2. /\ n.pc = "clear" /\ n.role = q.role /\ n.roles = q.roles
        /\ n.users = q.users /\ n.codes = permissions
    BY <1>1, <2>1 DEF Process
  <2> QED BY <1>1, <1>6, <2>2
          DEF ReadPermissions, Runs, tables, BootAt, SeedsPermissions
<1>7. ~ReadGrants(Api) /\ ~Grant(Api)
  BY <1>1, PhaseOwner DEF ReadGrants, Grant, Runs
<1>8. CASE DeleteGrants(Api)
  <2>1. /\ n.pc = IF q.codes = {} THEN "roles" ELSE "fill"
        /\ n.role = q.role /\ n.roles = q.roles /\ n.users = q.users
        /\ n.codes = q.codes
    BY <1>1, <1>8, GotoEffect DEF DeleteGrants, AfterReplace
  <2> QED BY <1>1, <1>8, <2>1 DEF DeleteGrants, Runs, BootAt, SeedsPermissions
<1>9. CASE InsertGrants(Api)
  <2>1. n.pc = "roles" /\ n.roles = q.roles /\ n.users = q.users
    BY <1>1, <1>9, GotoEffect DEF InsertGrants, AfterReplace
  <2> QED BY <1>1, <1>9, <2>1 DEF InsertGrants, Runs, BootAt, SeedsPermissions
<1>10. CASE FindUser(Api)
  <2>1. CASE Goto(Api, "done")
    BY <1>1, <2>1, GotoEffect DEF BootAt, SeedsPermissions
  <2>2. ASSUME NEW a \in q.users, NEW pc \in {"findLink", "insertUser"},
               Set(Api, [q EXCEPT !.user = a, !.users = @ \ {a},
                                  !.role = SeedRole[a], !.pc = pc])
        PROVE  BootAt(q)'
    <3>1. n = [q EXCEPT !.user = a, !.users = @ \ {a}, !.role = SeedRole[a], !.pc = pc]
      BY <1>1, <2>2, SetEffect
    <3>2. /\ n.pc = pc /\ n.role = SeedRole[a] /\ n.users = q.users \ {a}
          /\ n.user = a
      BY <1>1, <3>1 DEF Process
    <3> QED BY <1>1, <1>10, <3>2, InputAssumption
            DEF FindUser, Runs, tables, BootAt, SeedsPermissions
  <2> QED BY <1>10, <2>1, <2>2 DEF FindUser
<1>11. CASE InsertUser(Api)
  <2>1. /\ n.pc = "findLink" /\ n.role = q.role /\ n.user = q.user
        /\ n.users = q.users
    BY <1>1, <1>11, GotoEffect DEF InsertUser
  <2> QED BY <1>1, <1>11, <2>1 DEF InsertUser, Runs, BootAt, SeedsPermissions
<1>12. CASE FindLink(Api)
  <2>1. /\ n.pc = IF <<q.user, q.role>> \in links THEN "users" ELSE "insertLink"
        /\ n.role = q.role /\ n.user = q.user /\ n.users = q.users
    BY <1>1, <1>12, GotoEffect DEF FindLink, AfterLink
  <2> QED BY <1>1, <1>12, <2>1 DEF FindLink, Runs, tables, BootAt, SeedsPermissions
<1>13. CASE InsertLink(Api)
  <2>1. n.pc = "users" /\ n.users = q.users
    BY <1>1, <1>13, GotoEffect DEF InsertLink, AfterLink
  <2> QED BY <1>1, <1>13, <2>1 DEF InsertLink, Runs, BootAt, SeedsPermissions
<1>14. CASE Fail(Api)
  <2>1. n = At(q, "failed")
    BY <1>1, <1>14 DEF Fail, Die
  <2>2. n.pc = "failed"
    BY <2>1 DEF At, Idle
  <2> QED BY <2>2 DEF BootAt, SeedsPermissions
<1> QED BY <1>2, <1>3, <1>4, <1>5, <1>6, <1>7, <1>8, <1>9, <1>10, <1>11, <1>12,
           <1>13, <1>14 DEF Step

LEMMA StepInFlight ==
    ASSUME NEW p \in Processes, Step(p)
    PROVE  InFlight(p)
  BY DEF Step, FindPermission, InsertPermission, FindRole, InsertRole,
         ReadPermissions, ReadGrants, Grant, DeleteGrants, InsertGrants, FindUser,
         InsertUser, FindLink, InsertLink, Fail, Runs, InFlight, Ended

\* Only the failure of the API changes more than one process.
LEMMA StepOthers ==
    ASSUME TypeInv, NEW p \in Processes, Step(p), NEW o \in Processes \ {p}
    PROVE  /\ ~(p = Api /\ Fail(p)) => procs'[o] = procs[o]
           /\ p = Api /\ Fail(p) =>
                 procs'[o] = IF o \in RequestIds /\ InFlight(o)
                             THEN At(procs[o], "failed") ELSE procs[o]
<1>1. p = Api /\ Fail(p) =>
         procs'[o] = IF o \in RequestIds /\ InFlight(o)
                     THEN At(procs[o], "failed") ELSE procs[o]
  BY DEF Fail, Die
<1>2. (\E q : Set(p, q)) \/ (\E pc : Goto(p, pc)) \/ (p = Api /\ Fail(p))
  BY DEF Step, FindPermission, InsertPermission, FindRole, InsertRole,
         ReadPermissions, ReadGrants, Grant, DeleteGrants, InsertGrants, FindUser,
         InsertUser, FindLink, InsertLink, Fail
<1>3. (\E q : Set(p, q)) \/ (\E pc : Goto(p, pc)) => procs'[o] = procs[o]
  BY SetEffect, GotoEffect
<1>4. (p = Api /\ Fail(p)) \/ procs'[o] = procs[o]
  BY <1>2, <1>3
<1> QED BY <1>1, <1>4

\* The script only adds.
LEMMA SeederGrows ==
    ASSUME TypeInv, Step(Seeder)
    PROVE  /\ permissions \subseteq permissions' /\ grants \subseteq grants'
           /\ links \subseteq links'
<1>1. Seeder \in Processes /\ Seeder \notin RequestIds /\ Seeder # Api
  BY NullAssumption DEF Processes, Api, Seeder
<1>2. ~DeleteGrants(Seeder)
  BY <1>1, PhaseOwner DEF DeleteGrants, Runs
<1> QED BY <1>1, <1>2
        DEF Step, FindPermission, InsertPermission, FindRole, InsertRole,
            ReadPermissions, ReadGrants, Grant, InsertGrants, FindUser,
            InsertUser, FindLink, InsertLink, Fail, tables

LEMMA InitBoot == Init => BootInv
<1> SUFFICES ASSUME Init PROVE BootInv
  OBVIOUS
<1>1. \A p \in Processes : procs[p] = Idle /\ Idle.pc = "idle"
  BY DEF Init, Idle
<1> QED BY <1>1, InitTypeInv, BootEnded DEF BootInv, Serving, InFlight, Processes

LEMMA NextBoot ==
    ASSUME BootInv, [Next]_vars
    PROVE  BootInv'
<1>1. TypeInv /\ TypeInv' /\ Api \in Processes /\ Seeder \in Processes
      /\ Api # Seeder /\ RequestIds \subseteq Processes
      /\ Api \notin RequestIds /\ Seeder \notin RequestIds
  BY NextTypeInv, NullAssumption DEF BootInv, Processes, Api, Seeder
<1>2. CASE UNCHANGED vars
  BY <1>1, <1>2 DEF vars, BootInv, Serving, InFlight, BootAt, SeedsPermissions
<1>3. ASSUME procs'[Api] = procs[Api],
             InFlight(Api) =>
                /\ permissions \subseteq permissions' /\ grants \subseteq grants'
                /\ links \subseteq links',
             procs[Api].pc # "done" =>
                \A r \in RequestIds : procs'[r] = procs[r]
      PROVE  BootInv'
  <2>1. BootAt(procs[Api])'
    BY <1>1, <1>3, BootGrows
  <2>2. Serving'
    BY <1>3 DEF BootInv, Serving, InFlight
  <2> QED BY <1>1, <2>1, <2>2 DEF BootInv
<1>4. CASE StartApi
  <2> DEFINE n == [Idle EXCEPT !.pc = "permissions", !.op = "boot", !.codes = Codes,
                               !.roles = {AdminRole}, !.users = {AdminAccount}]
  <2>1. procs'[Api] = n /\ \A r \in RequestIds : procs'[r] = procs[r]
    BY <1>1, <1>4, SetEffect DEF StartApi
  <2>2. /\ n.pc = "permissions" /\ n.codes = Codes /\ n.roles = {AdminRole}
        /\ n.users = {AdminAccount}
    BY DEF Idle
  <2> HIDE DEF n
  <2>3. BootAt(procs[Api])'
    BY <2>1, <2>2 DEF BootAt, SeedsPermissions, AtRole, AtUser, Ended
  <2>4. Serving'
    BY <1>4, <2>1 DEF BootInv, Serving, InFlight, StartApi
  <2> QED BY <1>1, <2>3, <2>4 DEF BootInv
<1>5. CASE StartSeeder
  <2>1. \A o \in Processes \ {Seeder} : procs'[o] = procs[o]
    BY <1>1, <1>5, SetEffect DEF StartSeeder
  <2>2. UNCHANGED tables
    BY <1>5 DEF StartSeeder
  <2> QED BY <1>1, <1>3, <2>1, <2>2 DEF tables
<1>6. ASSUME NEW r \in RequestIds, Start(r) PROVE BootInv'
  <2>1. procs[Api].pc = "done" /\ UNCHANGED tables
        /\ \E q : Set(r, q)
    BY <1>6 DEF Start, CreateRole, UpdateRolePermissions, AssignRoleToUser, Begin
  <2>2. procs'[Api] = procs[Api]
    BY <1>1, <2>1, SetEffect
  <2> QED BY <1>1, <1>3, <2>1, <2>2 DEF tables
<1>7. CASE Crash
  <2>1. procs'[Api] = At(procs[Api], "failed")
        /\ \A r \in RequestIds : ~InFlight(r)'
    BY <1>1, <1>7 DEF Crash, Die, At, Idle, InFlight, Ended
  <2>2. procs'[Api].pc = "failed"
    BY <2>1 DEF At, Idle, Ended
  <2> QED BY <1>1, <2>1, <2>2
          DEF BootInv, Serving, BootAt, SeedsPermissions, AtRole, AtUser, Ended
<1>8. CASE Step(Api)
  <2>1. procs[Api].pc # "done"
    BY <1>1, <1>8, StepInFlight DEF InFlight, Ended
  <2>2. \A r \in RequestIds : ~InFlight(r) /\ procs'[r] = procs[r]
    BY <1>1, <1>8, <2>1, StepOthers DEF BootInv, Serving
  <2>3. Serving'
    BY <2>2 DEF Serving, InFlight
  <2> QED BY <1>1, <1>8, <2>3, BootStep DEF BootInv
<1>9. CASE Step(Seeder)
  BY <1>1, <1>3, <1>9, StepOthers, SeederGrows
<1>10. ASSUME NEW r \in RequestIds, Step(r) PROVE BootInv'
  <2>1. InFlight(r) /\ procs[Api].pc = "done"
    BY <1>1, <1>10, StepInFlight DEF BootInv, Serving
  <2>2. procs'[Api] = procs[Api]
    BY <1>1, <1>10, StepOthers
  <2> QED BY <1>3, <2>1, <2>2 DEF InFlight, Ended
<1> QED BY <1>2, <1>4, <1>5, <1>6, <1>7, <1>8, <1>9, <1>10
        DEF Next, Quiet, Processes

LEMMA BootHolds == Spec => []BootInv
  BY InitBoot, NextBoot, PTL DEF Spec

\* How a process comes to its end.
LEMMA DoneBy ==
    ASSUME TypeInv, [Next]_vars, NEW p \in Processes,
           procs[p].pc # "done", procs'[p].pc = "done"
    PROVE  \/ FindUser(p) /\ procs[p].users = {}
           \/ DeleteGrants(p) /\ procs[p].codes = {} /\ AfterReplace(p) = "done"
           \/ InsertGrants(p) /\ AfterReplace(p) = "done"
           \/ (FindLink(p) \/ InsertLink(p)) /\ AfterLink(p) = "done"
<1>1. ~UNCHANGED vars
  BY DEF vars
<1>2. /\ \A o \in Processes : \A pc : Goto(o, pc) => o = p /\ pc = "done"
      /\ procs[p] \in Process
  BY SetEffect, GotoEffect DEF TypeInv, TypeOK
<1>3. Idle \in Process
  BY IdleShape
<1>4. ~Die
  BY DEF Die, At, Idle, Ended
<1>5. ~StartApi /\ ~StartSeeder
  <2>1. Api \in Processes /\ Seeder \in Processes
    BY DEF Processes
  <2> DEFINE n(op, R, U) == [Idle EXCEPT !.pc = "permissions", !.op = op,
                               !.codes = Codes, !.roles = R, !.users = U]
  <2>2. /\ StartApi => Set(Api, n("boot", {AdminRole}, {AdminAccount}))
        /\ StartSeeder => Set(Seeder, n("seed", SeedRoles, Accounts))
    BY DEF StartApi, StartSeeder
  <2>3. \A op, R, U : n(op, R, U).pc = "permissions"
    BY DEF Idle
  <2> HIDE DEF n
  <2>4. ASSUME NEW o \in {Api, Seeder}, NEW q, q.pc = "permissions", Set(o, q)
        PROVE  FALSE
    <3>1. procs'[o] = q /\ o = p
      BY <2>1, <2>4, SetEffect
    <3> QED BY <2>4, <3>1
  <2> QED BY <2>2, <2>3, <2>4
<1>6. ASSUME NEW r \in RequestIds PROVE ~Start(r)
  <2>1. ASSUME NEW op, NEW x \in Names, NEW q \in Process, q.pc # "done",
               Begin(r, op, x, q)
        PROVE  FALSE
    <3>1. r \in Processes /\ Set(r, [q EXCEPT !.op = op, !.role = x])
      BY <2>1 DEF Begin, Processes
    <3>2. procs'[r] = [q EXCEPT !.op = op, !.role = x] /\ r = p
      BY <3>1, SetEffect
    <3> QED BY <2>1, <3>2 DEF Process
  <2> DEFINE n(pc, list) == [Idle EXCEPT !.pc = pc, !.codes = list, !.want = list]
             m(a) == [Idle EXCEPT !.pc = "findLink", !.user = a]
  <2>2. \A list \in SUBSET Codes, pc \in {"insertRole", "clear"} :
           n(pc, list) \in Process /\ n(pc, list).pc # "done"
    BY DEF Idle, Process, PcValues
  <2>3. \A a \in Accounts : m(a) \in Process /\ m(a).pc # "done"
    BY DEF Idle, Process, PcValues
  <2>4. \A x \in Names, list \in SUBSET Codes :
           /\ CreateRole(r, x, list) => Begin(r, "createRole", x, n("insertRole", list))
           /\ UpdateRolePermissions(r, x, list)
                 => Begin(r, "updateRole", x, n("clear", list))
    BY DEF CreateRole, UpdateRolePermissions
  <2>5. \A x \in Names, a \in Accounts :
           AssignRoleToUser(r, x, a) => Begin(r, "assign", x, m(a))
    BY DEF AssignRoleToUser
  <2> HIDE DEF n, m
  <2> QED BY <2>1, <2>2, <2>3, <2>4, <2>5 DEF Start
<1>7. PICK o \in Processes : Step(o)
  BY <1>1, <1>4, <1>5, <1>6 DEF Next, Quiet, Crash
<1>8. o = p
  <2>1. ~(o = Api /\ Fail(o))
    BY <1>4 DEF Fail
  <2> QED BY <1>7, <2>1, StepOthers
<1> DEFINE q == procs[p]
<1>9. ~FindPermission(p)
  <2>1. ASSUME NEW c \in q.codes,
               Set(p, IF c \in permissions THEN [q EXCEPT !.codes = @ \ {c}]
                      ELSE [q EXCEPT !.pc = "insertPermission", !.code = c])
        PROVE  FALSE
    <3>1. procs'[p] = IF c \in permissions THEN [q EXCEPT !.codes = @ \ {c}]
                      ELSE [q EXCEPT !.pc = "insertPermission", !.code = c]
      BY <2>1, SetEffect
    <3> QED BY <1>2, <3>1 DEF Process
  <2>2. ~Goto(p, "roles")
    BY <1>2
  <2> QED BY <2>1, <2>2 DEF FindPermission
<1>10. ~InsertPermission(p)
  <2>1. InsertPermission(p) =>
           procs'[p] = [q EXCEPT !.pc = "permissions", !.code = None,
                                 !.codes = @ \ {q.code}]
    BY SetEffect DEF InsertPermission
  <2> QED BY <1>2, <2>1 DEF Process
<1>11. ~FindRole(p)
  <2>1. ASSUME NEW x \in q.roles,
               Set(p, [q EXCEPT !.role = x, !.roles = @ \ {x},
                                !.pc = IF x \in roles THEN "readPermissions"
                                       ELSE "insertRole"])
        PROVE  FALSE
    <3>1. procs'[p] = [q EXCEPT !.role = x, !.roles = @ \ {x},
                                !.pc = IF x \in roles THEN "readPermissions"
                                       ELSE "insertRole"]
      BY <2>1, SetEffect
    <3> QED BY <1>2, <3>1 DEF Process
  <2>2. ~Goto(p, "users")
    BY <1>2
  <2> QED BY <2>1, <2>2 DEF FindRole
<1>12. ~InsertRole(p) /\ ~InsertUser(p)
  BY <1>2 DEF InsertRole, InsertUser
<1>13. ~ReadPermissions(p) /\ ~ReadGrants(p)
  <2>1. ReadPermissions(p) =>
           procs'[p] = IF p = Api THEN [q EXCEPT !.codes = permissions, !.pc = "clear"]
                       ELSE [q EXCEPT !.codes = SeedCodes[q.role] \cap permissions,
                                      !.pc = "readGrants"]
    BY SetEffect DEF ReadPermissions
  <2>2. ReadGrants(p) =>
           procs'[p] = [q EXCEPT !.pc = "grant", !.codes = @ \ Granted(q.role)]
    BY SetEffect DEF ReadGrants
  <2> QED BY <1>2, <2>1, <2>2 DEF Process
<1>14. ~Grant(p)
  <2>1. ASSUME NEW c \in q.codes \ Granted(q.role),
               Set(p, [q EXCEPT !.codes = @ \ {c}])
        PROVE  FALSE
    <3>1. procs'[p] = [q EXCEPT !.codes = @ \ {c}]
      BY <2>1, SetEffect
    <3> QED BY <1>2, <3>1 DEF Process
  <2>2. ~Goto(p, "roles")
    BY <1>2
  <2> QED BY <2>1, <2>2 DEF Grant
<1>15. ~Fail(p)
  BY <1>2, <1>4 DEF Fail
<1>16. FindUser(p) => q.users = {}
  <2>1. ASSUME NEW a \in q.users, NEW pc \in {"findLink", "insertUser"},
               Set(p, [q EXCEPT !.user = a, !.users = @ \ {a},
                                !.role = SeedRole[a], !.pc = pc])
        PROVE  FALSE
    <3>1. procs'[p] = [q EXCEPT !.user = a, !.users = @ \ {a},
                                !.role = SeedRole[a], !.pc = pc]
      BY <2>1, SetEffect
    <3> QED BY <1>2, <2>1, <3>1 DEF Process
  <2> QED BY <2>1 DEF FindUser
<1>17. /\ DeleteGrants(p) => q.codes = {} /\ AfterReplace(p) = "done"
       /\ InsertGrants(p) => AfterReplace(p) = "done"
       /\ FindLink(p) \/ InsertLink(p) => AfterLink(p) = "done"
  BY <1>2 DEF DeleteGrants, InsertGrants, FindLink, InsertLink
<1> QED BY <1>7, <1>8, <1>9, <1>10, <1>11, <1>12, <1>13, <1>14, <1>15, <1>16,
           <1>17 DEF Step

(***************************************************************************)
(* However often the API dies while it seeds, and whatever the script does *)
(* beside it: once it serves, the administrator has every permission.      *)
(***************************************************************************)
THEOREM AdminRestored == Spec => BootRestoresAdmin
<1>1. BootInv /\ [Next]_vars =>
         [procs[Api].pc # "done" /\ procs'[Api].pc = "done" =>
             /\ permissions' = Codes
             /\ {AdminRole} \X Codes \subseteq grants'
             /\ <<AdminAccount, AdminRole>> \in links']_vars
  <2> SUFFICES ASSUME BootInv, [Next]_vars,
                      procs[Api].pc # "done", procs'[Api].pc = "done"
               PROVE  /\ permissions' = Codes
                      /\ {AdminRole} \X Codes \subseteq grants'
                      /\ <<AdminAccount, AdminRole>> \in links'
    OBVIOUS
  <2>1. Api \in Processes /\ Api \notin RequestIds /\ TypeInv
    BY NullAssumption DEF Processes, BootInv
  <2>2. FindUser(Api) /\ procs[Api].users = {}
    BY <2>1, DoneBy DEF AfterReplace, AfterLink
  <2>3. procs[Api].pc = "users" /\ UNCHANGED tables
    BY <2>2 DEF FindUser, Runs
  <2> QED BY <2>2, <2>3 DEF BootInv, BootAt, SeedsPermissions, AtUser, Ended, tables
<1> QED BY <1>1, InitBoot, NextBoot, PTL DEF Spec, BootRestoresAdmin

-----------------------------------------------------------------------------
(***************************************************************************)
(* One request for each role, none beside the script.                      *)
(***************************************************************************)
Apart ==
    \A r \in RequestIds : InFlight(r) =>
        /\ ~InFlight(Seeder)
        /\ \A o \in RequestIds :
              InFlight(o) /\ procs[o].role = procs[r].role => o = r

Seeded(x) == {x} \X SeedCodes[x] \subseteq grants

AtSeedRole == {"insertRole", "readPermissions", "readGrants", "grant"}

\* Where the script has got to.
ScriptAt(q) ==
    /\ SeedsPermissions(q)
    /\ q.pc \in {"permissions", "insertPermission"} => q.roles = SeedRoles
    /\ q.pc = "roles" =>
          \A x \in SeedRoles \ (q.roles \cup {AdminRole}) : Seeded(x)
    /\ q.pc \in AtSeedRole =>
          \A x \in SeedRoles \ (q.roles \cup {AdminRole, q.role}) : Seeded(x)
    /\ q.pc = "readGrants" => q.codes = SeedCodes[q.role]
    /\ q.pc = "grant" /\ q.role # AdminRole =>
          SeedCodes[q.role] \ q.codes \subseteq Granted(q.role)
    /\ q.pc \in AtUser \cup {"users"} =>
          \A x \in SeedRoles \ {AdminRole} : Seeded(x)
    /\ q.pc \in AtSeedRole \cup {"permissions", "insertPermission", "roles"}
          => q.users = Accounts
    /\ q.pc = "users" => \A a \in Accounts \ q.users : <<a, SeedRole[a]>> \in links
    /\ q.pc \in AtUser =>
          /\ q.role = SeedRole[q.user]
          /\ \A a \in Accounts \ (q.users \cup {q.user}) : <<a, SeedRole[a]>> \in links

\* What a request relies on until it is answered.
RequestAt(q) ==
    /\ q.op \in {"createRole", "updateRole"} /\ q.pc \notin Ended => q.codes = q.want
    /\ q.pc = "fill" => Granted(q.role) = {}
    /\ q.pc = "insertLink" => <<q.user, q.role>> \notin links

RoleInv ==
    /\ BootInv
    /\ Apart
    /\ ScriptAt(procs[Seeder])
    /\ \A r \in RequestIds : RequestAt(procs[r])
    /\ AssignIdempotent

LEMMA ScriptEnded ==
    ASSUME NEW q, q.pc \in Ended \cup {"idle"}
    PROVE  ScriptAt(q)
  BY DEF ScriptAt, SeedsPermissions, AtSeedRole, AtUser, Ended

\* Only the script's own statements and the administrator's role escape it.
LEMMA ScriptStable ==
    ASSUME TypeInv, TypeInv', procs'[Seeder] = procs[Seeder],
           ScriptAt(procs[Seeder]),
           permissions \subseteq permissions', links \subseteq links',
           \A x \in Names \ {AdminRole} : Granted(x) \subseteq Granted(x)'
    PROVE  ScriptAt(procs[Seeder])'
<1> DEFINE q == procs[Seeder]
<1>1. q \in Process /\ q' = q /\ SeedRoles \subseteq Names
      /\ \A x \in Names : SeedCodes[x] \subseteq Codes
  BY InputAssumption DEF TypeInv, TypeOK, Processes, SeedRoles
<1>2. \A x \in Names : Seeded(x) <=> SeedCodes[x] \subseteq Granted(x)
  BY <1>1 DEF Seeded, Granted
<1>3. \A x \in Names : Seeded(x)' <=> SeedCodes[x] \subseteq Granted(x)'
  BY <1>1 DEF Seeded, Granted
<1>4. \A x \in SeedRoles \ {AdminRole} : Seeded(x) => Seeded(x)'
  BY <1>1, <1>2, <1>3
<1>5. permissions' \subseteq Codes
  BY DEF TypeInv, TypeOK
<1>6. SeedsPermissions(q)'
  BY <1>1, <1>5 DEF ScriptAt, SeedsPermissions
<1>7. q.pc = "grant" => q.role \in Names
  BY DEF TypeInv, Shape, Processes
<1> QED BY <1>1, <1>4, <1>6, <1>7 DEF ScriptAt

\* Which tables a step touches, and where.
LEMMA StepTouches ==
    ASSUME TypeInv, NEW p \in Processes, Step(p)
    PROVE  /\ permissions \subseteq permissions' /\ links \subseteq links'
           /\ DeleteGrants(p) \/ grants \subseteq grants'
           /\ \A x \in Names \ {procs[p].role} :
                 /\ Granted(x)' = Granted(x)
                 /\ \A a \in Accounts : <<a, x>> \in links' <=> <<a, x>> \in links
<1> DEFINE q == procs[p]
<1>1. CASE UNCHANGED <<grants, links>> /\ permissions \subseteq permissions'
  BY <1>1 DEF Granted
<1>2. CASE Grant(p)
  <2>1. UNCHANGED <<permissions, links>>
        /\ grants' \in {grants} \cup {grants \cup {<<q.role, c>>} : c \in q.codes}
    BY <1>2 DEF Grant
  <2> QED BY <2>1 DEF Granted
<1>3. CASE DeleteGrants(p)
  <2>1. UNCHANGED <<permissions, links>> /\ grants' = {g \in grants : g[1] # q.role}
    BY <1>3 DEF DeleteGrants
  <2> QED BY <1>3, <2>1 DEF Granted
<1>4. CASE InsertGrants(p)
  <2>1. UNCHANGED <<permissions, links>> /\ grants' = grants \cup ({q.role} \X q.codes)
    BY <1>4 DEF InsertGrants
  <2> QED BY <2>1 DEF Granted
<1>5. CASE InsertLink(p)
  <2>1. UNCHANGED <<permissions, grants>> /\ links' = links \cup {<<q.user, q.role>>}
    BY <1>5 DEF InsertLink
  <2> QED BY <2>1 DEF Granted
<1>6. FindPermission(p) \/ FindRole(p) \/ ReadPermissions(p) \/ ReadGrants(p)
      \/ FindUser(p) \/ FindLink(p) \/ Fail(p) => UNCHANGED tables
  BY DEF FindPermission, FindRole, ReadPermissions, ReadGrants, FindUser, FindLink,
         Fail
<1>7. InsertPermission(p) \/ InsertRole(p) \/ InsertUser(p) =>
         UNCHANGED <<grants, links>> /\ permissions \subseteq permissions'
  BY DEF InsertPermission, InsertRole, InsertUser
<1> QED BY <1>1, <1>2, <1>3, <1>4, <1>5, <1>6, <1>7 DEF Step, tables

\* The start-up only empties the administrator's role.
LEMMA ApiSpares ==
    ASSUME BootInv, Step(Api)
    PROVE  \A x \in Names \ {AdminRole} : Granted(x) \subseteq Granted(x)'
<1>1. Api \in Processes /\ TypeInv
  BY DEF BootInv, Processes
<1>2. CASE DeleteGrants(Api)
  <2>1. procs[Api].role = AdminRole
    BY <1>2 DEF DeleteGrants, Runs, BootInv, BootAt, AtRole
  <2> QED BY <1>1, <2>1, StepTouches
<1>3. CASE grants \subseteq grants'
  BY <1>3 DEF Granted
<1> QED BY <1>1, <1>2, <1>3, StepTouches

\* The script itself, statement by statement.
LEMMA ScriptStep ==
    ASSUME TypeInv, ScriptAt(procs[Seeder]), Step(Seeder)
    PROVE  ScriptAt(procs[Seeder])'
<1> DEFINE q == procs[Seeder]
           n == procs'[Seeder]
<1> USE DEF AtSeedRole, AtUser, Ended
<1>1. /\ Seeder \in Processes /\ Seeder \notin RequestIds /\ Api # Seeder
      /\ q \in Process /\ Shape(Seeder, q) /\ permissions \subseteq Codes
      /\ SeedRoles \subseteq Names
      /\ \A x \in Names : SeedCodes[x] \subseteq Codes
  BY NullAssumption, InputAssumption
     DEF Processes, TypeInv, TypeOK, Api, Seeder, SeedRoles
<1>2. CASE FindPermission(Seeder)
  <2>1. CASE q.codes = {} /\ Goto(Seeder, "roles")
    <3>1. /\ n.pc = "roles" /\ n.roles = q.roles /\ n.users = q.users
      BY <1>1, <2>1, GotoEffect
    <3> QED BY <1>1, <1>2, <2>1, <3>1
            DEF FindPermission, Runs, tables, ScriptAt, SeedsPermissions
  <2>2. ASSUME NEW c \in q.codes,
               Set(Seeder, IF c \in permissions THEN [q EXCEPT !.codes = @ \ {c}]
                           ELSE [q EXCEPT !.pc = "insertPermission", !.code = c])
        PROVE  ScriptAt(q)'
    <3>1. n = IF c \in permissions THEN [q EXCEPT !.codes = @ \ {c}]
              ELSE [q EXCEPT !.pc = "insertPermission", !.code = c]
      BY <1>1, <2>2, SetEffect
    <3>2. /\ n.pc \in {"permissions", "insertPermission"}
          /\ n.roles = q.roles /\ n.users = q.users
          /\ q.codes \ n.codes \subseteq permissions
      BY <1>1, <1>2, <3>1 DEF FindPermission, Runs, Process
    <3> QED BY <1>1, <1>2, <3>2
            DEF FindPermission, Runs, tables, ScriptAt, SeedsPermissions
  <2> QED BY <1>2, <2>1, <2>2 DEF FindPermission
<1>3. CASE InsertPermission(Seeder)
  <2>1. n = [q EXCEPT !.pc = "permissions", !.code = None, !.codes = @ \ {q.code}]
    BY <1>1, <1>3, SetEffect DEF InsertPermission
  <2>2. /\ n.pc = "permissions" /\ n.roles = q.roles /\ n.users = q.users
        /\ n.codes = q.codes \ {q.code}
    BY <1>1, <2>1 DEF Process
  <2> QED BY <1>1, <1>3, <2>2 DEF InsertPermission, Runs, ScriptAt, SeedsPermissions
<1>4. CASE FindRole(Seeder)
  <2>1. CASE q.roles = {} /\ Goto(Seeder, "users")
    <3>1. n.pc = "users" /\ n.users = q.users
      BY <1>1, <2>1, GotoEffect
    <3> QED BY <1>1, <1>4, <2>1, <3>1
            DEF FindRole, Runs, tables, ScriptAt, SeedsPermissions, Seeded
  <2>2. ASSUME NEW x \in q.roles, NEW pc \in {"readPermissions", "insertRole"},
               Set(Seeder, [q EXCEPT !.role = x, !.roles = @ \ {x}, !.pc = pc])
        PROVE  ScriptAt(q)'
    <3>1. n = [q EXCEPT !.role = x, !.roles = @ \ {x}, !.pc = pc]
      BY <1>1, <2>2, SetEffect
    <3>2. /\ n.pc = pc /\ n.role = x /\ n.roles = q.roles \ {x}
          /\ n.users = q.users
      BY <1>1, <3>1 DEF Process
    <3> QED BY <1>1, <1>4, <3>2
            DEF FindRole, Runs, tables, ScriptAt, SeedsPermissions, Seeded
  <2> QED BY <1>4, <2>1, <2>2 DEF FindRole
<1>5. CASE InsertRole(Seeder)
  <2>1. /\ n.pc = "readPermissions" /\ n.role = q.role /\ n.roles = q.roles
        /\ n.users = q.users
    BY <1>1, <1>5, GotoEffect DEF InsertRole
  <2> QED BY <1>1, <1>5, <2>1
          DEF InsertRole, Runs, ScriptAt, SeedsPermissions, Seeded
<1>6. CASE ReadPermissions(Seeder)
  <2>1. n = [q EXCEPT !.codes = SeedCodes[q.role] \cap permissions,
                      !.pc = "readGrants"]
    BY <1>1, <1>6, SetEffect DEF ReadPermissions
  <2>2. /\ n.pc = "readGrants" /\ n.role = q.role /\ n.roles = q.roles
        /\ n.users = q.users /\ n.codes = SeedCodes[q.role] \cap permissions
    BY <1>1, <2>1 DEF Process
  <2>3. permissions = Codes /\ q.role \in Names
    BY <1>1, <1>6 DEF ReadPermissions, Runs, ScriptAt, SeedsPermissions, Shape
  <2> QED BY <1>1, <1>6, <2>2, <2>3
          DEF ReadPermissions, Runs, tables, ScriptAt, SeedsPermissions, Seeded
<1>7. CASE ReadGrants(Seeder)
  <2>1. n = [q EXCEPT !.pc = "grant", !.codes = @ \ Granted(q.role)]
    BY <1>1, <1>7, SetEffect DEF ReadGrants
  <2>2. /\ n.pc = "grant" /\ n.role = q.role /\ n.roles = q.roles
        /\ n.users = q.users /\ n.codes = q.codes \ Granted(q.role)
    BY <1>1, <2>1 DEF Process
  <2>3. \A c \in Codes : c \in Granted(q.role)' <=> c \in Granted(q.role)
    BY <1>7, <2>2 DEF ReadGrants, tables, Granted
  <2>4. q.role \in Names /\ q.pc = "readGrants" /\ UNCHANGED tables
    BY <1>1, <1>7 DEF ReadGrants, Runs, Shape
  <2>5. SeedCodes[q.role] \ n.codes \subseteq Granted(q.role)'
    BY <1>1, <2>2, <2>3, <2>4 DEF ScriptAt
  <2> QED BY <1>1, <2>2, <2>4, <2>5 DEF tables, ScriptAt, SeedsPermissions, Seeded
<1>8. CASE Grant(Seeder)
  <2>1. q.pc = "grant" /\ q.role \in Names /\ UNCHANGED <<permissions, links>>
    BY <1>1, <1>8 DEF Grant, Shape
  <2>2. CASE q.codes = {} /\ Goto(Seeder, "roles") /\ UNCHANGED grants
    <3>1. n.pc = "roles" /\ n.roles = q.roles /\ n.users = q.users
      BY <1>1, <2>2, GotoEffect
    <3>2. q.role # AdminRole => Seeded(q.role)
      BY <1>1, <2>1, <2>2 DEF ScriptAt, Seeded, Granted
    <3> QED BY <1>1, <2>1, <2>2, <3>1, <3>2 DEF ScriptAt, SeedsPermissions, Seeded
  <2>3. ASSUME NEW c \in q.codes \ Granted(q.role),
               grants' = grants \cup {<<q.role, c>>},
               Set(Seeder, [q EXCEPT !.codes = @ \ {c}])
        PROVE  ScriptAt(q)'
    <3>1. n = [q EXCEPT !.codes = @ \ {c}]
      BY <1>1, <2>3, SetEffect
    <3>2. /\ n.pc = "grant" /\ n.role = q.role /\ n.roles = q.roles
          /\ n.users = q.users /\ n.codes = q.codes \ {c}
      BY <1>1, <2>1, <3>1 DEF Process
    <3>3. c \in Codes /\ Granted(q.role)' = Granted(q.role) \cup {c}
      BY <1>1, <2>3, <3>2 DEF Process, Granted
    <3>4. \A x : Seeded(x) => Seeded(x)'
      BY <2>3 DEF Seeded
    <3> QED BY <1>1, <2>1, <3>2, <3>3, <3>4 DEF ScriptAt, SeedsPermissions
  <2> QED BY <1>8, <2>2, <2>3 DEF Grant
<1>9. ~DeleteGrants(Seeder) /\ ~InsertGrants(Seeder)
  BY <1>1, PhaseOwner DEF DeleteGrants, InsertGrants, Runs
<1>10. CASE FindUser(Seeder)
  <2>1. CASE Goto(Seeder, "done")
    BY <1>1, <2>1, GotoEffect DEF ScriptAt, SeedsPermissions
  <2>2. ASSUME NEW a \in q.users, NEW pc \in {"findLink", "insertUser"},
               Set(Seeder, [q EXCEPT !.user = a, !.users = @ \ {a},
                                     !.role = SeedRole[a], !.pc = pc])
        PROVE  ScriptAt(q)'
    <3>1. n = [q EXCEPT !.user = a, !.users = @ \ {a}, !.role = SeedRole[a], !.pc = pc]
      BY <1>1, <2>2, SetEffect
    <3>2. /\ n.pc = pc /\ n.role = SeedRole[a] /\ n.users = q.users \ {a}
          /\ n.user = a
      BY <1>1, <3>1 DEF Process
    <3> QED BY <1>1, <1>10, <3>2
            DEF FindUser, Runs, tables, ScriptAt, SeedsPermissions, Seeded
  <2> QED BY <1>10, <2>1, <2>2 DEF FindUser
<1>11. CASE InsertUser(Seeder)
  <2>1. /\ n.pc = "findLink" /\ n.role = q.role /\ n.user = q.user
        /\ n.users = q.users
    BY <1>1, <1>11, GotoEffect DEF InsertUser
  <2> QED BY <1>1, <1>11, <2>1
          DEF InsertUser, Runs, ScriptAt, SeedsPermissions, Seeded
<1>12. CASE FindLink(Seeder)
  <2>1. /\ n.pc = IF <<q.user, q.role>> \in links THEN "users" ELSE "insertLink"
        /\ n.role = q.role /\ n.user = q.user /\ n.users = q.users
    BY <1>1, <1>12, GotoEffect DEF FindLink, AfterLink
  <2> QED BY <1>1, <1>12, <2>1
          DEF FindLink, Runs, tables, ScriptAt, SeedsPermissions, Seeded
<1>13. CASE InsertLink(Seeder)
  <2>1. n.pc = "users" /\ n.users = q.users
    BY <1>1, <1>13, GotoEffect DEF InsertLink, AfterLink
  <2> QED BY <1>1, <1>13, <2>1
          DEF InsertLink, Runs, ScriptAt, SeedsPermissions, Seeded
<1>14. CASE Fail(Seeder)
  <2>1. n.pc = "failed"
    BY <1>1, <1>14, GotoEffect DEF Fail
  <2> QED BY <2>1, ScriptEnded DEF ScriptAt, SeedsPermissions
<1> QED BY <1>2, <1>3, <1>4, <1>5, <1>6, <1>7, <1>8, <1>9, <1>10, <1>11, <1>12,
           <1>13, <1>14 DEF Step

LEMMA RequestEnded ==
    ASSUME NEW q, q.pc \in Ended \cup {"idle"}, q.pc = "idle" => q.op = "none"
    PROVE  RequestAt(q)
  BY DEF RequestAt, Ended

\* A request relies on the rows of its own role only.
LEMMA RequestStable ==
    ASSUME NEW r \in RequestIds, TypeInv, RequestAt(procs[r]), procs'[r] = procs[r],
           InFlight(r) =>
              /\ Granted(procs[r].role) = Granted(procs[r].role)'
              /\ \A a \in Accounts : <<a, procs[r].role>> \in links' =>
                                        <<a, procs[r].role>> \in links
    PROVE  RequestAt(procs[r])'
<1> DEFINE q == procs[r]
<1>1. q.pc = "fill" => Granted(q.role) = Granted(q.role)'
  BY DEF InFlight, Ended
<1>2. q.pc = "insertLink" => q.user \in Accounts
  BY DEF TypeInv, Shape, Processes
<1>3. q.pc = "insertLink" => <<q.user, q.role>> \notin links'
  BY <1>2 DEF RequestAt, InFlight, Ended
<1> QED BY <1>1, <1>3 DEF RequestAt

\* How a request begins.
LEMMA StartEffect ==
    ASSUME TypeInv, NEW r \in RequestIds, Start(r)
    PROVE  /\ UNCHANGED <<tables, faults>>
           /\ \A o \in Processes \ {r} : procs'[o] = procs[o]
           /\ procs'[r].pc \notin Ended /\ RequestAt(procs[r])'
           /\ \E x \in Names : MayStart(r, x) /\ procs'[r].role = x
<1>1. ASSUME NEW op, NEW x \in Names, NEW q \in Process, Begin(r, op, x, q),
             q.pc \in {"insertRole", "clear", "findLink"}, q.codes = q.want
      PROVE  /\ UNCHANGED <<tables, faults>>
             /\ \A o \in Processes \ {r} : procs'[o] = procs[o]
             /\ procs'[r].pc \notin Ended /\ RequestAt(procs[r])'
             /\ MayStart(r, x) /\ procs'[r].role = x
  <2>1. Set(r, [q EXCEPT !.op = op, !.role = x]) /\ r \in Processes
        /\ MayStart(r, x) /\ UNCHANGED <<tables, faults>>
    BY <1>1 DEF Begin, Processes
  <2>2. procs'[r] = [q EXCEPT !.op = op, !.role = x]
        /\ \A o \in Processes \ {r} : procs'[o] = procs[o]
    BY <2>1, SetEffect
  <2>3. /\ procs'[r].pc = q.pc /\ procs'[r].role = x
        /\ procs'[r].codes = q.codes /\ procs'[r].want = q.want
    BY <2>2 DEF Process
  <2> QED BY <1>1, <2>1, <2>2, <2>3 DEF RequestAt, Ended
<1> DEFINE n(pc, list) == [Idle EXCEPT !.pc = pc, !.codes = list, !.want = list]
           m(a) == [Idle EXCEPT !.pc = "findLink", !.user = a]
<1>2. \A list \in SUBSET Codes, pc \in {"insertRole", "clear"} :
         n(pc, list) \in Process /\ n(pc, list).pc = pc
         /\ n(pc, list).codes = n(pc, list).want
  BY DEF Idle, Process, PcValues
<1>3. \A a \in Accounts : m(a) \in Process /\ m(a).pc = "findLink"
                          /\ m(a).codes = m(a).want
  BY DEF Idle, Process, PcValues
<1>4. \A x \in Names, list \in SUBSET Codes :
         /\ CreateRole(r, x, list) => Begin(r, "createRole", x, n("insertRole", list))
         /\ UpdateRolePermissions(r, x, list)
               => Begin(r, "updateRole", x, n("clear", list))
  BY DEF CreateRole, UpdateRolePermissions
<1>5. \A x \in Names, a \in Accounts :
         AssignRoleToUser(r, x, a) => Begin(r, "assign", x, m(a))
  BY DEF AssignRoleToUser
<1> HIDE DEF n, m
<1>6. \E op : \E x \in Names : \E q \in Process :
         /\ Begin(r, op, x, q)
         /\ q.pc \in {"insertRole", "clear", "findLink"} /\ q.codes = q.want
  BY <1>2, <1>3, <1>4, <1>5 DEF Start
<1> QED BY <1>1, <1>6

\* A request, statement by statement.
LEMMA RequestStep ==
    ASSUME TypeInv, NEW r \in RequestIds, RequestAt(procs[r]), Step(r)
    PROVE  /\ RequestAt(procs[r])'
           /\ procs'[r].pc \notin Ended => procs'[r].role = procs[r].role
           /\ procs'[r].pc = "failed" => Fail(r)
           /\ procs'[r].op = procs[r].op
<1> DEFINE q == procs[r]
           n == procs'[r]
<1>1. r \in Processes /\ r # Api /\ r # Seeder
      /\ q.pc \notin {"permissions", "insertPermission", "roles", "readPermissions",
                      "users", "insertUser", "readGrants", "grant"}
  BY PhaseOwner, PhaseOf, NullAssumption DEF Processes
<1>2. ~FindPermission(r) /\ ~InsertPermission(r) /\ ~FindRole(r)
      /\ ~ReadPermissions(r) /\ ~ReadGrants(r) /\ ~Grant(r) /\ ~FindUser(r)
      /\ ~InsertUser(r)
  BY <1>1 DEF FindPermission, InsertPermission, FindRole, ReadPermissions, ReadGrants,
              Grant, FindUser, InsertUser, Runs
<1>3. CASE InsertRole(r)
  <2>1. Goto(r, "clear")
    BY <1>3 DEF InsertRole
  <2>2. /\ n.pc = "clear" /\ n.op = q.op /\ n.role = q.role
        /\ n.codes = q.codes /\ n.want = q.want
    BY <1>1, <2>1, GotoEffect DEF Ended
  <2> QED BY <1>3, <2>2 DEF InsertRole, Runs, RequestAt, Ended
<1>4. CASE DeleteGrants(r)
  <2>1. Goto(r, IF q.codes = {} THEN "done" ELSE "fill")
    BY <1>1, <1>4 DEF DeleteGrants, AfterReplace
  <2>2. /\ n.pc = IF q.codes = {} THEN "done" ELSE "fill"
        /\ n.op = q.op
    BY <1>1, <2>1, GotoEffect
  <2>3. n.pc = "fill" =>
           n.role = q.role /\ n.codes = q.codes /\ n.want = q.want
    BY <1>1, <2>1, <2>2, GotoEffect DEF Ended
  <2>4. Granted(q.role)' = {} \/ n.pc = "done"
    BY <1>4, <2>2, <2>3 DEF DeleteGrants, Granted
  <2> QED BY <1>4, <2>2, <2>3, <2>4 DEF DeleteGrants, Runs, RequestAt, Ended
<1>5. CASE InsertGrants(r)
  <2>1. n.pc = "done" /\ n.op = q.op
    BY <1>1, <1>5, GotoEffect DEF InsertGrants, AfterReplace
  <2> QED BY <2>1 DEF RequestAt, Ended
<1>6. CASE FindLink(r)
  <2>1. Goto(r, IF <<q.user, q.role>> \in links THEN "done" ELSE "insertLink")
    BY <1>1, <1>6 DEF FindLink, AfterLink
  <2>2. /\ n.pc = IF <<q.user, q.role>> \in links THEN "done" ELSE "insertLink"
        /\ n.op = q.op
    BY <1>1, <2>1, GotoEffect
  <2>3. n.pc = "insertLink" =>
           n.role = q.role /\ n.user = q.user /\ n.codes = q.codes /\ n.want = q.want
    BY <1>1, <2>1, <2>2, GotoEffect DEF Ended
  <2> QED BY <1>6, <2>2, <2>3 DEF FindLink, Runs, tables, RequestAt, Ended
<1>7. CASE InsertLink(r)
  <2>1. n.pc = "done" /\ n.op = q.op
    BY <1>1, <1>7, GotoEffect DEF InsertLink, AfterLink
  <2> QED BY <2>1 DEF RequestAt, Ended
<1>8. CASE Fail(r)
  <2>1. n.pc = "failed" /\ n.op = q.op
    BY <1>1, <1>8, GotoEffect DEF Fail
  <2> QED BY <1>8, <2>1 DEF RequestAt, Ended
<1> QED BY <1>2, <1>3, <1>4, <1>5, <1>6, <1>7, <1>8 DEF Step

LEMMA InitRole == Init => RoleInv
<1> SUFFICES ASSUME Init PROVE RoleInv
  OBVIOUS
<1>1. \A p \in Processes : procs[p] = Idle /\ Idle.pc = "idle" /\ Idle.op = "none"
  BY DEF Init, Idle
<1>2. Seeder \in Processes /\ RequestIds \subseteq Processes
  BY DEF Processes
<1>3. BootInv
  BY InitBoot
<1>4. ScriptAt(procs[Seeder]) /\ \A r \in RequestIds : RequestAt(procs[r])
  BY <1>1, <1>2, ScriptEnded, RequestEnded
<1> QED BY <1>1, <1>2, <1>3, <1>4 DEF RoleInv, Apart, InFlight, AssignIdempotent

\* While no request is in flight, none is disturbed.
LEMMA NoRequest ==
    ASSUME RoleInv, \A r \in RequestIds : procs'[r] = procs[r] /\ ~InFlight(r),
           faults' = 0 => faults = 0
    PROVE  Apart' /\ (\A r \in RequestIds : RequestAt(procs[r])') /\ AssignIdempotent'
<1>1. \A r \in RequestIds : RequestAt(procs[r])'
  BY RequestStable DEF RoleInv, BootInv
<1>2. Apart' /\ AssignIdempotent'
  BY DEF RoleInv, Apart, InFlight, AssignIdempotent
<1> QED BY <1>1, <1>2

LEMMA StepFaults ==
    ASSUME TypeInv, NEW p \in Processes, Step(p)
    PROVE  /\ faults' = 0 => faults = 0
           /\ Fail(p) /\ faults' = 0 => Violates(p)
<1>1. faults \in Nat
  BY InputAssumption DEF TypeInv, TypeOK
<1>2. faults' = faults \/ (Fail(p) /\ faults' = faults + 1)
  BY DEF Step, FindPermission, InsertPermission, FindRole, InsertRole,
         ReadPermissions, ReadGrants, Grant, DeleteGrants, InsertGrants, FindUser,
         InsertUser, FindLink, InsertLink, Fail
<1>3. Fail(p) => Violates(p) \/ faults' = faults + 1
  BY DEF Fail
<1> QED BY <1>1, <1>2, <1>3

LEMMA NextRole ==
    ASSUME Isolation = "role", RoleInv, [Next]_vars
    PROVE  RoleInv'
<1>1. /\ TypeInv /\ TypeInv' /\ BootInv /\ BootInv' /\ Apart
      /\ ScriptAt(procs[Seeder]) /\ AssignIdempotent
      /\ \A r \in RequestIds : RequestAt(procs[r])
      /\ Api \in Processes /\ Seeder \in Processes /\ Api # Seeder
      /\ RequestIds \subseteq Processes
      /\ Api \notin RequestIds /\ Seeder \notin RequestIds
  BY NextBoot, NextTypeInv, NullAssumption DEF RoleInv, BootInv, Processes, Api, Seeder
<1>2. ASSUME UNCHANGED tables, procs'[Seeder] = procs[Seeder]
      PROVE  ScriptAt(procs[Seeder])'
  BY <1>1, <1>2, ScriptStable DEF tables, Granted
<1>3. CASE UNCHANGED vars
  <2>1. UNCHANGED tables /\ UNCHANGED procs /\ UNCHANGED faults
    BY <1>3 DEF vars, tables
  <2>2. \A r \in RequestIds : RequestAt(procs[r])'
    BY <1>1, <2>1, RequestStable DEF tables, Granted
  <2> QED BY <1>1, <1>2, <2>1, <2>2 DEF RoleInv, Apart, InFlight, AssignIdempotent
<1>4. CASE StartApi
  <2>1. /\ UNCHANGED tables /\ UNCHANGED faults
        /\ \A o \in Processes \ {Api} : procs'[o] = procs[o]
    BY <1>1, <1>4, SetEffect DEF StartApi
  <2>2. \A r \in RequestIds : RequestAt(procs[r])'
    BY <1>1, <2>1, RequestStable DEF tables, Granted
  <2> QED BY <1>1, <1>2, <2>1, <2>2 DEF RoleInv, Apart, InFlight, AssignIdempotent
<1>5. CASE StartSeeder
  <2> DEFINE n == [Idle EXCEPT !.pc = "permissions", !.op = "seed", !.codes = Codes,
                               !.roles = SeedRoles, !.users = Accounts]
  <2>1. /\ UNCHANGED tables /\ UNCHANGED faults /\ procs'[Seeder] = n
        /\ \A o \in Processes \ {Seeder} : procs'[o] = procs[o]
    BY <1>1, <1>5, SetEffect DEF StartSeeder
  <2>2. \A r \in RequestIds : ~InFlight(r)
    BY <1>5 DEF StartSeeder, MayStart
  <2>3. n.pc = "permissions" /\ n.codes = Codes /\ n.roles = SeedRoles
        /\ n.users = Accounts
    BY DEF Idle
  <2> HIDE DEF n
  <2>4. ScriptAt(procs[Seeder])'
    BY <2>1, <2>3 DEF ScriptAt, SeedsPermissions, AtSeedRole, AtUser, Ended
  <2> QED BY <1>1, <2>1, <2>2, <2>4, NoRequest DEF RoleInv
<1>6. ASSUME NEW r \in RequestIds, Start(r) PROVE RoleInv'
  <2>1. /\ UNCHANGED <<tables, faults>>
        /\ \A o \in Processes \ {r} : procs'[o] = procs[o]
        /\ procs'[r].pc \notin Ended /\ RequestAt(procs[r])'
    BY <1>1, <1>6, StartEffect
  <2>2. PICK x \in Names : MayStart(r, x) /\ procs'[r].role = x
    BY <1>1, <1>6, StartEffect
  <2>3. ~InFlight(Seeder) /\ \A o \in RequestIds : InFlight(o) => procs[o].role # x
    BY <2>2 DEF MayStart
  <2>4. \A o \in RequestIds : RequestAt(procs[o])'
    BY <1>1, <2>1, RequestStable DEF tables, Granted
  <2>5. Apart'
    BY <1>1, <2>1, <2>2, <2>3 DEF Apart, InFlight
  <2>6. AssignIdempotent'
    BY <1>1, <2>1 DEF AssignIdempotent, Ended
  <2> QED BY <1>1, <1>2, <2>1, <2>4, <2>5, <2>6 DEF RoleInv
<1>7. CASE Crash
  <2>1. /\ UNCHANGED tables /\ faults' # 0 /\ procs'[Seeder] = procs[Seeder]
        /\ \A r \in RequestIds : procs'[r] = IF InFlight(r) THEN At(procs[r], "failed")
                                             ELSE procs[r]
    BY <1>1, <1>7, InputAssumption DEF Crash, Die, TypeInv, TypeOK
  <2>2. \A r \in RequestIds : InFlight(r) => procs'[r].pc = "failed"
    BY <2>1 DEF At, Idle, Ended
  <2>3. \A r \in RequestIds : ~InFlight(r)'
    BY <2>1, <2>2 DEF InFlight, Ended
  <2>4. \A r \in RequestIds : RequestAt(procs[r])'
    <3>1. ASSUME NEW r \in RequestIds PROVE RequestAt(procs[r])'
      <4>1. CASE InFlight(r)
        BY <2>2, <4>1 DEF RequestAt, Ended
      <4>2. CASE ~InFlight(r)
        BY <1>1, <2>1, <4>2, RequestStable
      <4> QED BY <4>1, <4>2
    <3> QED BY <3>1
  <2> QED BY <1>1, <1>2, <2>1, <2>3, <2>4 DEF RoleInv, Apart, AssignIdempotent
<1>8. CASE Step(Api)
  <2>1. \A r \in RequestIds : ~InFlight(r)
    BY <1>1, <1>8, StepInFlight DEF BootInv, Serving, InFlight, Ended
  <2>2. \A o \in Processes \ {Api} : procs'[o] = procs[o]
    BY <1>1, <1>8, <2>1, StepOthers
  <2>3. ScriptAt(procs[Seeder])'
    BY <1>1, <1>8, <2>2, ScriptStable, StepTouches, ApiSpares
  <2> QED BY <1>1, <1>8, <2>1, <2>2, <2>3, NoRequest, StepFaults DEF RoleInv
<1>9. CASE Step(Seeder)
  <2>1. \A r \in RequestIds : ~InFlight(r)
    BY <1>1, <1>9, StepInFlight DEF Apart
  <2>2. \A o \in Processes \ {Seeder} : procs'[o] = procs[o]
    BY <1>1, <1>9, StepOthers
  <2>3. ScriptAt(procs[Seeder])'
    BY <1>1, <1>9, ScriptStep
  <2> QED BY <1>1, <1>9, <2>1, <2>2, <2>3, NoRequest, StepFaults DEF RoleInv
<1>10. ASSUME NEW r \in RequestIds, Step(r) PROVE RoleInv'
  <2>1. r \in Processes /\ InFlight(r) /\ ~InFlight(Seeder)
    BY <1>1, <1>10, StepInFlight DEF Apart
  <2>2. \A o \in Processes \ {r} : procs'[o] = procs[o]
    BY <1>1, <1>10, <2>1, StepOthers
  <2>3. ScriptAt(procs[Seeder])'
    BY <1>1, <2>1, <2>2, ScriptEnded DEF InFlight, ScriptAt, SeedsPermissions,
       AtSeedRole, AtUser, Ended
  <2>4. /\ RequestAt(procs[r])'
        /\ procs'[r].pc \notin Ended => procs'[r].role = procs[r].role
        /\ procs'[r].pc = "failed" => Fail(r)
        /\ procs'[r].op = procs[r].op
    BY <1>1, <1>10, RequestStep
  <2>5. ASSUME NEW o \in RequestIds \ {r} PROVE RequestAt(procs[o])'
    <3>1. InFlight(o) => procs[o].role # procs[r].role
      BY <2>1, <1>1 DEF Apart
    <3>2. InFlight(o) => procs[o].role \in Names
      BY <1>1, PhaseOf DEF InFlight, Shape, RequestPhases, Ended
    <3> QED BY <1>1, <1>10, <2>1, <2>2, <3>1, <3>2, StepTouches, RequestStable
  <2>6. Apart'
    BY <1>1, <2>1, <2>2, <2>4 DEF Apart, InFlight
  <2>7. AssignIdempotent'
    <3>1. ASSUME faults' = 0, procs[r].op = "assign", Fail(r) PROVE FALSE
      <4>1. Violates(r)
        BY <1>1, <1>10, <2>1, <3>1, StepFaults
      <4>2. procs[r].pc \in {"findLink", "insertLink"} \cup Ended
        BY <1>1, <2>1, <3>1, PhaseOf DEF RequestPhases
      <4> QED BY <1>1, <4>1, <4>2 DEF Violates, RequestAt, Ended
    <3>2. faults' = 0 => faults = 0
      BY <1>1, <1>10, <2>1, StepFaults
    <3> QED BY <1>1, <2>2, <2>4, <3>1, <3>2 DEF AssignIdempotent
  <2> QED BY <1>1, <2>3, <2>4, <2>5, <2>6, <2>7 DEF RoleInv
<1> QED BY <1>3, <1>4, <1>5, <1>6, <1>7, <1>8, <1>9, <1>10
        DEF Next, Quiet, Processes

(***************************************************************************)
(* With one request for each role and none beside the script: the script   *)
(* leaves its roles with their permissions and its accounts with their     *)
(* roles, whatever the API's own seed and its crashes do meanwhile.        *)
(***************************************************************************)
THEOREM ScriptCompletes == Isolation = "role" => (Spec => SeedComplete)
<1> SUFFICES ASSUME Isolation = "role" PROVE Spec => SeedComplete
  OBVIOUS
<1>1. RoleInv /\ [Next]_vars =>
         [procs[Seeder].pc # "done" /\ procs'[Seeder].pc = "done" =>
             /\ \A x \in SeedRoles \ {AdminRole} :
                   {x} \X SeedCodes[x] \subseteq grants'
             /\ \A a \in Accounts : <<a, SeedRole[a]>> \in links']_vars
  <2> SUFFICES ASSUME RoleInv, [Next]_vars,
                      procs[Seeder].pc # "done", procs'[Seeder].pc = "done"
               PROVE  /\ \A x \in SeedRoles \ {AdminRole} :
                            {x} \X SeedCodes[x] \subseteq grants'
                      /\ \A a \in Accounts : <<a, SeedRole[a]>> \in links'
    OBVIOUS
  <2>1. Seeder \in Processes /\ Seeder \notin RequestIds /\ TypeInv
        /\ ScriptAt(procs[Seeder])
    BY NullAssumption DEF Processes, RoleInv, BootInv
  <2>2. FindUser(Seeder) /\ procs[Seeder].users = {}
    <3>1. ~DeleteGrants(Seeder) /\ ~InsertGrants(Seeder)
      BY <2>1, PhaseOwner DEF DeleteGrants, InsertGrants, Runs, Api, Seeder
    <3> QED BY <2>1, <3>1, DoneBy DEF AfterLink
  <2>3. procs[Seeder].pc = "users" /\ UNCHANGED tables
    BY <2>2 DEF FindUser, Runs
  <2> QED BY <2>1, <2>2, <2>3 DEF ScriptAt, Seeded, tables
<1>2. Init => RoleInv
  BY InitRole
<1>3. RoleInv /\ [Next]_vars => RoleInv'
  BY NextRole
<1> QED BY <1>1, <1>2, <1>3, PTL DEF Spec, SeedComplete

(***************************************************************************)
(* With one request for each role and none beside the script: a request    *)
(* that is answered has set the list it was given, and no permission of    *)
(* the former list is left.                                                *)
(***************************************************************************)
THEOREM ListsReplaced == Isolation = "role" => (Spec => ListAsAsked)
<1> SUFFICES ASSUME Isolation = "role" PROVE Spec => ListAsAsked
  OBVIOUS
<1>1. RoleInv /\ [Next]_vars =>
         [\A r \in RequestIds :
            /\ procs[r].op \in {"createRole", "updateRole"}
            /\ procs[r].pc # "done" /\ procs'[r].pc = "done"
            => {c \in Codes : <<procs[r].role, c>> \in grants'} = procs[r].want]_vars
  <2> SUFFICES ASSUME RoleInv, [Next]_vars, NEW r \in RequestIds,
                      procs[r].op \in {"createRole", "updateRole"},
                      procs[r].pc # "done", procs'[r].pc = "done"
               PROVE  {c \in Codes : <<procs[r].role, c>> \in grants'} = procs[r].want
    OBVIOUS
  <2> DEFINE q == procs[r]
  <2>1. r \in Processes /\ TypeInv /\ RequestAt(q) /\ q \in Process
    BY DEF Processes, RoleInv, BootInv, TypeInv, TypeOK
  <2>2. ~FindUser(r) /\ ~FindLink(r) /\ ~InsertLink(r)
    BY <2>1, PhaseOwner, PhaseOf DEF FindUser, FindLink, InsertLink, Runs
  <2>3. q.codes \subseteq Codes
    BY <2>1 DEF Process
  <2>4. CASE DeleteGrants(r) /\ q.codes = {}
    <3>1. grants' = {g \in grants : g[1] # q.role} /\ q.codes = q.want
      BY <2>1, <2>4 DEF DeleteGrants, Runs, RequestAt, Ended
    <3> QED BY <2>4, <3>1
  <2>5. CASE InsertGrants(r)
    <3>1. /\ grants' = grants \cup ({q.role} \X q.codes) /\ q.codes = q.want
          /\ Granted(q.role) = {}
      BY <2>1, <2>5 DEF InsertGrants, Runs, RequestAt, Ended
    <3> QED BY <2>3, <3>1 DEF Granted
  <2> QED BY <2>1, <2>2, <2>4, <2>5, DoneBy
<1>2. Init => RoleInv
  BY InitRole
<1>3. RoleInv /\ [Next]_vars => RoleInv'
  BY NextRole
<1> QED BY <1>1, <1>2, <1>3, PTL DEF Spec, ListAsAsked

(***************************************************************************)
(* With one request for each role and none beside the script: assigning a  *)
(* role that is assigned already never fails by itself.                    *)
(***************************************************************************)
THEOREM AssignmentsIdempotent == Isolation = "role" => (Spec => []AssignIdempotent)
<1> SUFFICES ASSUME Isolation = "role" PROVE Spec => []AssignIdempotent
  OBVIOUS
<1>1. Init => RoleInv
  BY InitRole
<1>2. RoleInv /\ [Next]_vars => RoleInv'
  BY NextRole
<1>3. RoleInv => AssignIdempotent
  BY DEF RoleInv
<1> QED BY <1>1, <1>2, <1>3, PTL DEF Spec

=============================================================================
