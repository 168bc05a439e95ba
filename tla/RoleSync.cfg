CONSTANTS
    s1 = s1 s2 = s2 User = User Editor = Editor Viewer = Viewer Gone = Gone
    Logins = {l1}
    SfRoles = {s1, s2}
    UserRoles = {User, Editor, Viewer, Gone}
    Declared = {User, Editor, Viewer}
    Default = User
    AdminEdits = TRUE
    Mappings <- MCMappings

SPECIFICATION Spec
INVARIANT TypeOK
INVARIANT GrantsRemembered
INVARIANT SessionRoles
INVARIANT ManualRolesKept
