CONSTANTS
    Workers = {w1}
    Ops = {"create", "delete", "deploy", "constants", "spec", "license",
        "delete_license", "role_mapping", "delete_role_mapping",
        "external_access", "suspend", "resume"}
    Faults = {"key", "prepare", "sync", "persist", "apply", "eai", "stamp",
        "drop", "timeout", "td_role", "td_row"}
    Pads = {"p1"}
    Tiers = {"t1"}
    Licenses = {"l1", "l2"}
    UserRoles = {"r1"}
    Slots = {"s1"}
    ConstNames = {"c1"}
    Images = {1}
    Keep = 0
    None = None
    Declares <- MCDeclares
    Defaulted <- MCDefaulted
    RolesIn <- MCRolesIn

SPECIFICATION FairSpec
INVARIANT TypeOK
INVARIANT LicenseKeyMatches
PROPERTY StampTellsTruth
PROPERTY ImplementsStatusMachine
