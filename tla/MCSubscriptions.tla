--------------------------- MODULE MCSubscriptions ---------------------------
(* All users belong to one tenant *)
EXTENDS Subscriptions

MCTenantOf == [u \in User |-> CHOOSE t \in Tenant : TRUE]
=============================================================================
