----------------------------- MODULE MCRoleSync -----------------------------
(***************************************************************************)
(* An instance of RoleSync: one of the mappings gives Editor and a role the*)
(* app does not declare, the other gives the default role itself.  Viewer  *)
(* is in no mapping.                                                       *)
(***************************************************************************)
EXTENDS RoleSync

CONSTANTS s1, s2, User, Editor, Viewer, Gone

MCMappings == {{}, {<<s1, Editor>>, <<s2, Gone>>}, {<<s1, User>>, <<s2, Editor>>}}
=============================================================================
