-------------------------------- MODULE Iam ---------------------------------
(***************************************************************************)
(* IamService (src/iam/iam.service.ts) and the seeding script              *)
(* (src/database/seeds/seed-all.ts) over the tables permissions, roles,    *)
(* role_permissions and user_roles.                                        *)
(*                                                                         *)
(* Three kinds of process write these tables, one awaited statement at a   *)
(* time and outside any transaction: the start-up of the API, which seeds  *)
(* the administrator before the first request is served, the seeding       *)
(* script, run by hand beside it, and the requests.  When the API dies its *)
(* requests die with it and the container restarts it (docker-compose,     *)
(* `restart: always').                                                     *)
(*                                                                         *)
(* Roles and accounts are never removed here, and their names are UNIQUE:  *)
(* a row is known by its name.                                             *)
(***************************************************************************)
EXTENDS Naturals, FiniteSets

CONSTANTS
    RequestIds,      \* the requests of the run, each handled once
    Codes,           \* SYSTEM_PERMISSIONS
    Names,           \* names of roles
    Accounts,        \* addresses of accounts
    SeedCodes,       \* [Names -> SUBSET Codes]: the roles of seed-all, {} for others
    SeedRole,        \* [Accounts -> Names]: the accounts of seed-all and their role
    AdminRole,       \* 'ADMIN'
    AdminAccount,    \* ADMIN_EMAIL
    Operations,      \* operations the clients of the run use
    Isolation,       \* "none" | "role": see MayStart
    MaxFaults,       \* bound on the failing statements and crashes of a run
    None

Api == "api"
Seeder == "seeder"
Processes == RequestIds \cup {Api, Seeder}
SeedRoles == {x \in Names : SeedCodes[x] # {}}

ASSUME NullAssumption ==
    /\ None \notin Names \cup Accounts \cup Codes
    /\ {Api, Seeder} \cap RequestIds = {}
ASSUME InputAssumption ==
    /\ AdminRole \in Names
    /\ AdminAccount \in Accounts
    /\ SeedCodes \in [Names -> SUBSET Codes]
    /\ SeedCodes[AdminRole] = Codes
    /\ SeedRole \in [Accounts -> Names]
    /\ SeedRole[AdminAccount] = AdminRole
    /\ Isolation \in {"none", "role"}
    /\ MaxFaults \in Nat

VARIABLES
    permissions,  \* SUBSET Codes
    roles,        \* SUBSET Names
    grants,       \* SUBSET (Names \X Codes): role_permissions
    accounts,     \* SUBSET Accounts: users
    links,        \* SUBSET (Accounts \X Names): user_roles
    procs,        \* [Processes -> progress]
    faults        \* the failing statements and crashes so far

tables == <<permissions, roles, grants, accounts, links>>
vars == <<permissions, roles, grants, accounts, links, procs, faults>>

Ended == {"done", "failed"}
PcValues == {"idle", "permissions", "insertPermission", "roles", "insertRole",
             "readPermissions", "readGrants", "grant", "clear", "fill",
             "users", "insertUser", "findLink", "insertLink"} \cup Ended

Process ==
    [pc : PcValues,                      \* the statement to run next
     op : {"none", "boot", "seed", "createRole", "updateRole", "assign"},
     code : Codes \cup {None},           \* the permission being seeded
     codes : SUBSET Codes,               \* permissions left to insert or grant
     roles : SUBSET Names,               \* roles left to seed
     role : Names \cup {None},           \* the role at hand
     users : SUBSET Accounts,            \* accounts left to seed
     user : Accounts \cup {None},        \* the account at hand
     want : SUBSET Codes]                \* the list a request asked for

Idle == [pc |-> "idle", op |-> "none", code |-> None, codes |-> {},
         roles |-> {}, role |-> None, users |-> {}, user |-> None,
         want |-> {}]

InFlight(p) == procs[p].pc \notin Ended \cup {"idle"}

Granted(x) == {c \in Codes : <<x, c>> \in grants}

Set(p, q) == procs' = [procs EXCEPT ![p] = q]

\* The process goes on at pc; once ended it only remembers what it was.
At(q, pc) == IF pc \in Ended THEN [Idle EXCEPT !.pc = pc, !.op = q.op]
             ELSE [q EXCEPT !.pc = pc]

Goto(p, pc) == Set(p, At(procs[p], pc))

-----------------------------------------------------------------------------
\* A database of any earlier release: some permissions, roles and accounts,
\* roles with all of those permissions or none, accounts with all roles or
\* none.  The API is not up yet.
Init ==
    /\ permissions \in SUBSET Codes
    /\ roles \in SUBSET Names
    /\ grants \in {{}, roles \X permissions}
    /\ accounts \in SUBSET Accounts
    /\ links \in {{}, accounts \X roles}
    /\ procs = [p \in Processes |-> Idle]
    /\ faults = 0

\* The API starts, or the container restarts it: onApplicationBootstrap.
StartApi ==
    /\ ~InFlight(Api) /\ procs[Api].pc # "done"
    /\ Set(Api, [Idle EXCEPT !.pc = "permissions", !.op = "boot",
                             !.codes = Codes, !.roles = {AdminRole},
                             !.users = {AdminAccount}])
    /\ UNCHANGED <<tables, faults>>

\* How far requests and the script overlap is the environment's choice:
\* freely, or one request for each role and none beside the script.
MayStart(p, x) ==
    /\ procs[p].pc = "idle"
    /\ Isolation = "role" =>
          /\ ~InFlight(Seeder)
          /\ \A q \in RequestIds : InFlight(q) => p # Seeder /\ procs[q].role # x

\* `npm run seed:all'
StartSeeder ==
    /\ "seed" \in Operations
    /\ MayStart(Seeder, None)
    /\ Set(Seeder, [Idle EXCEPT !.pc = "permissions", !.op = "seed",
                                !.codes = Codes, !.roles = SeedRoles,
                                !.users = Accounts])
    /\ UNCHANGED <<tables, faults>>

\* A request arrives; the API only listens once it has seeded.  A request
\* refused by its first reads (400, 404) changes nothing and is left out.
Begin(r, op, x, q) ==
    /\ op \in Operations
    /\ procs[Api].pc = "done"
    /\ MayStart(r, x)
    /\ Set(r, [q EXCEPT !.op = op, !.role = x])
    /\ UNCHANGED <<tables, faults>>

\* POST /iam/roles: no role of that name, and findPermissions
CreateRole(r, x, list) ==
    /\ x \notin roles
    /\ list # {} /\ list \subseteq permissions
    /\ Begin(r, "createRole", x,
             [Idle EXCEPT !.pc = "insertRole", !.codes = list, !.want = list])

\* PATCH /iam/roles/:roleId/permissions
UpdateRolePermissions(r, x, list) ==
    /\ x \in roles
    /\ list # {} /\ list \subseteq permissions
    /\ Begin(r, "updateRole", x,
             [Idle EXCEPT !.pc = "clear", !.codes = list, !.want = list])

\* POST /iam/roles/:roleId/users/:userId
AssignRoleToUser(r, x, a) ==
    /\ x \in roles /\ a \in accounts
    /\ Begin(r, "assign", x, [Idle EXCEPT !.pc = "findLink", !.user = a])

-----------------------------------------------------------------------------
\* The INSERT process p runs next (in a loop: one it may run next) violates a
\* UNIQUE constraint.
Violates(p) ==
    LET q == procs[p]
    IN  \/ q.pc = "insertPermission" /\ q.code \in permissions
        \/ q.pc = "insertRole" /\ q.role \in roles
        \/ q.pc = "fill" /\ q.codes \cap Granted(q.role) # {}
        \/ q.pc = "grant" /\ q.codes \cap Granted(q.role) # {}
        \/ q.pc = "insertUser" /\ q.user \in accounts
        \/ q.pc = "insertLink" /\ <<q.user, q.role>> \in links

Runs(p, pc) == procs[p].pc = pc /\ ~Violates(p)

(***************************************************************************)
(* seedSystemPermissions, and seedPermissions of the script: one lookup    *)
(* and one INSERT for each permission that is missing.                     *)
(***************************************************************************)
FindPermission(p) ==
    LET q == procs[p]
    IN  /\ Runs(p, "permissions")
        /\ \/ q.codes = {} /\ Goto(p, "roles")
           \/ \E c \in q.codes :
                 Set(p, IF c \in permissions THEN [q EXCEPT !.codes = @ \ {c}]
                        ELSE [q EXCEPT !.pc = "insertPermission", !.code = c])
        /\ UNCHANGED <<tables, faults>>

InsertPermission(p) ==
    LET q == procs[p]
    IN  /\ Runs(p, "insertPermission")
        /\ permissions' = permissions \cup {q.code}
        /\ Set(p, [q EXCEPT !.pc = "permissions", !.code = None,
                            !.codes = @ \ {q.code}])
        /\ UNCHANGED <<roles, grants, accounts, links, faults>>

(***************************************************************************)
(* seedAdminRole, and ensureRole of the script for each of its roles.      *)
(***************************************************************************)

\* Mutant: a role that exists is taken as it is.
FindRoleSkips(p) ==
    LET q == procs[p]
    IN  /\ Runs(p, "roles")
        /\ \/ q.roles = {} /\ Goto(p, "users")
           \/ \E x \in q.roles :
                 Set(p, IF x \in roles THEN [q EXCEPT !.roles = @ \ {x}]
                        ELSE [q EXCEPT !.role = x, !.pc = "insertRole",
                                       !.roles = @ \ {x}])
        /\ UNCHANGED <<tables, faults>>

FindRole(p) ==
    LET q == procs[p]
    IN  /\ Runs(p, "roles")
        /\ \/ q.roles = {} /\ Goto(p, "users")
           \/ \E x \in q.roles :
                 Set(p, [q EXCEPT !.role = x, !.roles = @ \ {x},
                           !.pc = IF x \in roles THEN "readPermissions"
                                  ELSE "insertRole"])
        /\ UNCHANGED <<tables, faults>>

InsertRole(p) ==
    /\ Runs(p, "insertRole")
    /\ roles' = roles \cup {procs[p].role}
    /\ Goto(p, IF p \in RequestIds THEN "clear" ELSE "readPermissions")
    /\ UNCHANGED <<permissions, grants, accounts, links, faults>>

\* permissionRepository.find(): all of them, or those of the script's role
ReadPermissions(p) ==
    LET q == procs[p]
    IN  /\ Runs(p, "readPermissions")
        /\ Set(p, IF p = Api THEN [q EXCEPT !.codes = permissions, !.pc = "clear"]
                  ELSE [q EXCEPT !.codes = SeedCodes[q.role] \cap permissions,
                                 !.pc = "readGrants"])
        /\ UNCHANGED <<tables, faults>>

\* Mutant: a role that has a permission is taken as it is.
ReadGrantsAny(p) ==
    LET q == procs[p]
    IN  /\ Runs(p, "readGrants")
        /\ Set(p, [q EXCEPT !.pc = "grant",
                     !.codes = IF Granted(q.role) = {} THEN @ ELSE {}])
        /\ UNCHANGED <<tables, faults>>

\* ensureRole: which of the permissions the role lacks
ReadGrants(p) ==
    LET q == procs[p]
    IN  /\ Runs(p, "readGrants")
        /\ Set(p, [q EXCEPT !.pc = "grant", !.codes = @ \ Granted(q.role)])
        /\ UNCHANGED <<tables, faults>>

\* Mutant: the two columns of the row are swapped.
GrantSwapped(p) ==
    LET q == procs[p]
    IN  /\ q.pc = "grant"
        /\ \E c \in q.codes \ Granted(q.role) :
              /\ grants' = grants \cup {<<c, q.role>>}
              /\ Set(p, [q EXCEPT !.codes = @ \ {c}])
        /\ UNCHANGED <<permissions, roles, accounts, links, faults>>

\* ensureRole: one INSERT for each of them
Grant(p) ==
    LET q == procs[p]
    IN  /\ q.pc = "grant"
        /\ \/ q.codes = {} /\ Goto(p, "roles") /\ UNCHANGED grants
           \/ \E c \in q.codes \ Granted(q.role) :
                 /\ grants' = grants \cup {<<q.role, c>>}
                 /\ Set(p, [q EXCEPT !.codes = @ \ {c}])
        /\ UNCHANGED <<permissions, roles, accounts, links, faults>>

(***************************************************************************)
(* replaceRolePermissions, called by the start-up for the administrator's  *)
(* role and by createRole and updateRolePermissions.                       *)
(***************************************************************************)
AfterReplace(p) == IF p = Api THEN "roles" ELSE "done"

\* Mutant: the old list is not deleted.
DeleteGrantsNot(p) ==
    LET q == procs[p]
    IN  /\ Runs(p, "clear")
        /\ Goto(p, IF q.codes = {} THEN AfterReplace(p) ELSE "fill")
        /\ UNCHANGED <<tables, faults>>

\* DELETE of the whole list
DeleteGrants(p) ==
    LET q == procs[p]
    IN  /\ Runs(p, "clear")
        /\ grants' = {g \in grants : g[1] # q.role}
        /\ Goto(p, IF q.codes = {} THEN AfterReplace(p) ELSE "fill")
        /\ UNCHANGED <<permissions, roles, accounts, links, faults>>

\* INSERT of the new one, a single statement
InsertGrants(p) ==
    LET q == procs[p]
    IN  /\ Runs(p, "fill")
        /\ grants' = grants \cup ({q.role} \X q.codes)
        /\ Goto(p, AfterReplace(p))
        /\ UNCHANGED <<permissions, roles, accounts, links, faults>>

(***************************************************************************)
(* seedAdminUser, ensureUser of the script, and assignRoleToUser.          *)
(***************************************************************************)
FindUser(p) ==
    LET q == procs[p]
    IN  /\ Runs(p, "users")
        /\ \/ q.users = {} /\ Goto(p, "done")
           \/ \E a \in q.users :
                 Set(p, [q EXCEPT !.user = a, !.users = @ \ {a},
                           !.role = SeedRole[a],
                           !.pc = IF a \in accounts THEN "findLink"
                                  ELSE "insertUser"])
        /\ UNCHANGED <<tables, faults>>

InsertUser(p) ==
    /\ Runs(p, "insertUser")
    /\ accounts' = accounts \cup {procs[p].user}
    /\ Goto(p, "findLink")
    /\ UNCHANGED <<permissions, roles, grants, links, faults>>

AfterLink(p) == IF p \in RequestIds THEN "done" ELSE "users"

\* Mutant: the link is inserted without looking for it.
FindLinkNever(p) ==
    /\ Runs(p, "findLink")
    /\ Goto(p, "insertLink")
    /\ UNCHANGED <<tables, faults>>

FindLink(p) ==
    /\ Runs(p, "findLink")
    /\ Goto(p, IF <<procs[p].user, procs[p].role>> \in links
               THEN AfterLink(p) ELSE "insertLink")
    /\ UNCHANGED <<tables, faults>>

InsertLink(p) ==
    /\ Runs(p, "insertLink")
    /\ links' = links \cup {<<procs[p].user, procs[p].role>>}
    /\ Goto(p, AfterLink(p))
    /\ UNCHANGED <<permissions, roles, grants, accounts, faults>>

-----------------------------------------------------------------------------
\* The API dies, and the requests it was handling with it.
Die ==
    procs' = [p \in Processes |->
        IF p = Api \/ (p \in RequestIds /\ InFlight(p))
        THEN At(procs[p], "failed") ELSE procs[p]]

\* A statement fails.  A request answers 500, the script exits; an error in
\* onApplicationBootstrap rejects bootstrap() and ends the API.
Fail(p) ==
    /\ InFlight(p)
    /\ \/ Violates(p) /\ UNCHANGED faults
       \/ faults < MaxFaults /\ faults' = faults + 1
    /\ IF p = Api THEN Die ELSE Goto(p, "failed")
    /\ UNCHANGED tables

\* The API is killed while it serves.
Crash ==
    /\ procs[Api].pc = "done"
    /\ faults < MaxFaults
    /\ faults' = faults + 1
    /\ Die
    /\ UNCHANGED tables

\* Nobody is at work and nobody will be.
Quiet == (\A p \in Processes : ~InFlight(p)) /\ UNCHANGED vars

Start(r) ==
    \E x \in Names :
        \/ \E list \in SUBSET Codes :
              CreateRole(r, x, list) \/ UpdateRolePermissions(r, x, list)
        \/ \E a \in Accounts : AssignRoleToUser(r, x, a)

\* The statement of process p that comes next.
Step(p) ==
    \/ FindPermission(p) \/ InsertPermission(p)
    \/ FindRole(p) \/ InsertRole(p) \/ ReadPermissions(p)
    \/ ReadGrants(p) \/ Grant(p) \/ DeleteGrants(p) \/ InsertGrants(p)
    \/ FindUser(p) \/ InsertUser(p) \/ FindLink(p) \/ InsertLink(p)
    \/ Fail(p)

Next ==
    \/ StartApi \/ StartSeeder \/ Crash
    \/ \E r \in RequestIds : Start(r)
    \/ \E p \in Processes : Step(p)
    \/ Quiet

Spec == Init /\ [][Next]_vars

\* Every statement ends, and the container restarts the API.
FairSpec == Spec /\ WF_vars(StartApi) /\ \A p \in Processes : WF_vars(Step(p))

-----------------------------------------------------------------------------
TypeOK ==
    /\ permissions \subseteq Codes
    /\ roles \subseteq Names
    /\ grants \subseteq Names \X Codes
    /\ accounts \subseteq Accounts
    /\ links \subseteq Accounts \X Names
    /\ procs \in [Processes -> Process]
    /\ faults \in 0..MaxFaults

(***************************************************************************)
(* Whatever database and crash it started from, and whatever the script    *)
(* does beside it, an API that serves has just given the administrator     *)
(* every permission (onApplicationBootstrap: "Bootstrapping IAM seed       *)
(* (permissions, admin role, admin user)").                                *)
(***************************************************************************)
BootRestoresAdmin ==
    [][procs[Api].pc # "done" /\ procs'[Api].pc = "done" =>
          /\ permissions' = Codes
          /\ {AdminRole} \X Codes \subseteq grants'
          /\ <<AdminAccount, AdminRole>> \in links']_vars

(***************************************************************************)
(* A request that sets the permissions of a role is answered when the role *)
(* has the list it asked for, and nothing else (iam.controller.ts:133,     *)
(* "Ecrase la liste actuelle des permissions du role avec la nouvelle      *)
(* liste.").                                                               *)
(***************************************************************************)
ListAsAsked ==
    [][\A r \in RequestIds :
          /\ procs[r].op \in {"createRole", "updateRole"}
          /\ procs[r].pc # "done" /\ procs'[r].pc = "done"
          => {c \in Codes : <<procs[r].role, c>> \in grants'} = procs[r].want]_vars

(***************************************************************************)
(* When the script ends well, its roles have at least its permissions and  *)
(* its accounts have their roles (ensureRole, ensureUser), whatever was    *)
(* there before; the administrator's role is the API's to restore.         *)
(***************************************************************************)
SeedComplete ==
    [][procs[Seeder].pc # "done" /\ procs'[Seeder].pc = "done" =>
          /\ \A x \in SeedRoles \ {AdminRole} : {x} \X SeedCodes[x] \subseteq grants'
          /\ \A a \in Accounts : <<a, SeedRole[a]>> \in links']_vars

(***************************************************************************)
(* "Operation idempotente." (iam.controller.ts:154): assigning a role to   *)
(* an account does not fail because the account has it, or just got it,    *)
(* unless a statement fails or the API dies.                               *)
(***************************************************************************)
AssignIdempotent ==
    faults = 0 =>
        \A r \in RequestIds : procs[r].op = "assign" => procs[r].pc # "failed"

(***************************************************************************)
(* Once the faults are over, the API comes up and stays up: no seed that   *)
(* was cut short makes the next start fail for ever.                       *)
(***************************************************************************)
BootCompletes == <>[](procs[Api].pc = "done")

=============================================================================
