CONSTANTS
    Workers = {w1}
    Ops = {"create", "deploy", "spec", "rollback"}
    Faults = {"secret", "key", "mark", "prepare", "upfront", "sync",
        "persist", "apply", "eai", "stamp", "drop", "timeout", "fail",
        "record", "unstage"}
    Pads = {"p1", "p2"}
    Tiers = {"t1", "t2"}
    Licenses = {}
    UserRoles = {}
    Slots = {}
    ConstNames = {}
    Images = {1}
    Keep = 2
    None = None
    Declares <- MCDeclares
    Defaulted <- MCDefaulted
    RolesIn <- MCRolesIn

SPECIFICATION Spec
INVARIANT FailureExplained
INVARIANT ReadyMeansApplied
INVARIANT HistoryTellsTruth
