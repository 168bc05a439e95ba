CONSTANTS
    Apps = {a, b}
    Databases = {d}
    Faults = {"make"}
    Nothing = Nothing

SPECIFICATION ProvisioningSpec
PROPERTY RollbackSparesOthers
