CONSTANTS
    admin = admin
    staff = staff
    root = root
    agent = agent
    p1 = p1
    p2 = p2
    RequestIds = {q1}
    Codes = {p1, p2}
    Names = {admin, staff}
    Accounts = {root, agent}
    SeedCodes <- MCSeedCodes
    SeedRole <- MCSeedRole
    AdminRole = admin
    AdminAccount = root
    Operations = {"seed", "createRole", "updateRole", "assign"}
    Isolation = "role"
    MaxFaults = 2
    None = None
SPECIFICATION FairSpec
INVARIANTS TypeOK AssignIdempotent
PROPERTIES BootRestoresAdmin ListAsAsked SeedComplete BootCompletes
