CONSTANTS
    Threads = {t1, t2}
    MaxToken = 3
    None = None
    Requests = {r1, r2}
    Tokens = {k1}
    Roles = {"owner"}
    Privileged = {}
    OwnerRole = "owner"
    IdentityTtl = 2
    MaxTicks = 3
    NoEntry = NoEntry
    Apps = {a, b}
    Databases = {d}
    Faults = {"make", "postgres", "drop", "restart"}
    Nothing = Nothing
    Slots = {"app_eai_1"}
    Objects = {o1}
    Unbound = Unbound
    Callers = {c1, c2}
    MaxVersion = 2

SPECIFICATION ControllerSpec
INVARIANT ControllerTypeOK
INVARIANT ConnectionExclusive
INVARIANT RotationHidden
INVARIANT RevocationBounded
INVARIANT FailureNotRemembered
INVARIANT CredentialsWork
INVARIANT PublicShutOut
INVARIANT RepeatRepairs
INVARIANT TokensAgree
PROPERTY CallsEnd
