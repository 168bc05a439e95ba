CONSTANTS
    Workers = {w1}
    Ops = {"create", "deploy", "spec", "resume"}
    Faults = {"timeout"}
    Pads = {"p1"}
    Tiers = {"t1", "t2"}
    Licenses = {}
    UserRoles = {}
    Slots = {}
    ConstNames = {}
    Images = {1}
    Keep = 0
    None = None
    Declares <- MCDeclares
    Defaulted <- MCDefaulted
    RolesIn <- MCRolesIn

SPECIFICATION Spec
INVARIANT ReadyMeansApplied
