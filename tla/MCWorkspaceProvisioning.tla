---------------------- MODULE MCWorkspaceProvisioning ----------------------
EXTENDS WorkspaceProvisioning, TLC
CONSTANTS c1, c2
TwoCalls == {c1, c2}
LikeCalls == Permutations(TwoCalls)
\* Every step that can meet another; the skills are made as the connections
\* are, and connector_onboarding and mobile_access make nothing.
TenSteps == <<"workspace", "service_identity", "client_admin_membership",
    "primary_aimee", "team_computer", "openrouter_credential",
    "model_configuration", "default_routines", "intent_connection",
    "notification_preferences">>
\* Two calls at once are followed without faults, and calls that come one at a
\* time with as many as MaxFaults.
Bounded == "overlap" \in flaws => faults = 0 /\ runs <= 2
===========================================================================
