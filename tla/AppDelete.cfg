CONSTANTS
    Workers = {w1}
    Ops = {"create", "delete", "deploy", "constants"}
    Faults = {"secret", "key", "mark", "prepare", "upfront", "sync",
        "persist", "apply", "eai", "stamp", "drop", "timeout", "fail",
        "record", "prune", "td_service", "td_role", "td_schema",
        "td_history", "td_pg", "quiesce", "td_row", "schema", "provision",
        "service", "role", "insert", "restart"}
    Pads = {"p1", "p2"}
    Tiers = {"t1"}
    Licenses = {}
    UserRoles = {}
    Slots = {}
    ConstNames = {"c1", "c2"}
    Images = {1}
    Keep = 1
    None = None
    Declares <- MCDeclares
    Defaulted <- MCDefaulted
    RolesIn <- MCRolesIn

SPECIFICATION Spec
INVARIANT NoOrphanHistory
INVARIANT MountedConstantsExist
PROPERTY DeleteIsComplete
