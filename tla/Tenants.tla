------------------------------- MODULE Tenants -------------------------------
(***************************************************************************)
(* What a workspace is to the rest of the system: absent, listed (its row  *)
(* is ACTIVE, so workers poll its schema and requests resolve to it), or   *)
(* usable (its tables are there).  It may stay listed for ever: creation   *)
(* can fail half-way and nothing resumes it.  Workspaces.tla implements    *)
(* this, Poller.tla relies on it.                                          *)
(***************************************************************************)
EXTENDS Naturals, FiniteSets

CONSTANTS
    Slugs,          \* names of workspaces of one organization
    Existing        \* the ones created before

ASSUME TenantsAssumption == Existing \subseteq Slugs

VARIABLE tenant

Register(s) ==
    /\ tenant[s] = "absent"
    /\ tenant' = [tenant EXCEPT ![s] = "listed"]

Provide(s) ==
    /\ tenant[s] = "listed"
    /\ tenant' = [tenant EXCEPT ![s] = "usable"]

TenantsInit == tenant = [s \in Slugs |-> IF s \in Existing THEN "usable" ELSE "absent"]

TenantsNext == \E s \in Slugs : Register(s) \/ Provide(s)

TenantsSpec == TenantsInit /\ [][TenantsNext]_tenant

TenantsTypeOK == tenant \in [Slugs -> {"absent", "listed", "usable"}]
=============================================================================
