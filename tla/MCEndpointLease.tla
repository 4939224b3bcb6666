--------------------------- MODULE MCEndpointLease ---------------------------
(* Three processes: one that died with the lease, two that reclaim it.      *)
EXTENDS EndpointLease
=============================================================================
