------------------------- MODULE MCTenantMembership -------------------------
(* A small instance of TenantMembership for TLC.                           *)
EXTENDS TenantMembership

CONSTANTS u1, u2, u3, q1, q2
=============================================================================
