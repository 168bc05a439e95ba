CONSTANTS
    Workers = {w1, w2}
    Ops = {"create", "delete", "deploy"}
    Faults = {"apply", "stamp", "timeout", "postgres"}
    Pads = {"p1"}
    Tiers = {"t1"}
    Licenses = {}
    UserRoles = {}
    Slots = {}
    ConstNames = {}
    Images = {1}
    Keep = 0
    None = None
    Declares <- MCDeclares
    Defaulted <- MCDefaulted
    RolesIn <- MCRolesIn

SPECIFICATION FairSpec
INVARIANT TransientHasTask
PROPERTY TransientResolves
