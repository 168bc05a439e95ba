---------------------------- MODULE MCController ----------------------------
(***************************************************************************)
(* An instance for TLC of four parts of the application that share no      *)
(* state: the procedures that install it, and of the Controller its        *)
(* Snowflake connection, the identity of its callers, and the Postgres     *)
(* objects of its apps.  Since a step of one part neither helps nor        *)
(* hinders another, every behaviour is one part's.                         *)
(***************************************************************************)
EXTENDS SqlClient, CallerIdentity, Provisioning, Installation

VARIABLE part

controllerVars ==
    <<part, sqlVars, identityVars, provisioningVars, installationVars>>

\* Parts that do not move start in one state.
ControllerInit ==
    /\ part \in {"sql", "identity", "provisioning", "installation"}
    /\ SqlInit /\ IdentityInit /\ ProvisioningInit /\ InstallationInit
    /\ part # "identity" => held = <<{}>>

ControllerNext ==
    /\ \/ /\ part = "sql" /\ SqlNext
          /\ UNCHANGED <<identityVars, provisioningVars, installationVars>>
       \/ /\ part = "identity" /\ IdentityNext
          /\ UNCHANGED <<sqlVars, provisioningVars, installationVars>>
       \/ /\ part = "provisioning" /\ ProvisioningNext
          /\ UNCHANGED <<sqlVars, identityVars, installationVars>>
       \/ /\ part = "installation" /\ InstallationNext
          /\ UNCHANGED <<sqlVars, identityVars, provisioningVars>>
    /\ UNCHANGED part

ControllerSpec ==
    ControllerInit /\ [][ControllerNext]_controllerVars
    /\ SqlFairness

\* The types of the parts: among others, no statement takes effect more than
\* twice, and no row is deleted that was not asked to be.
ControllerTypeOK ==
    SqlTypeOK /\ IdentityTypeOK /\ ProvisioningTypeOK /\ InstallationTypeOK
=============================================================================
