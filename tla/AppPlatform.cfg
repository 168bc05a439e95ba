CONSTANTS
    Workers = {w1, w2}
    Ops = {"create", "delete", "deploy", "platform_update"}
    Faults = {"restart", "refresh", "apply"}
    Pads = {"p1"}
    Tiers = {"t1"}
    Licenses = {}
    UserRoles = {}
    Slots = {}
    ConstNames = {}
    Images = {1, 2}
    Keep = 0
    None = None
    Declares <- MCDeclares
    Defaulted <- MCDefaulted
    RolesIn <- MCRolesIn

SPECIFICATION Spec
SYMMETRY Symmetry
INVARIANT PlatformImageTruthful
