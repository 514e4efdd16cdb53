-------------------------- MODULE MCSwarmAuthority --------------------------
(* Small instances of SwarmAuthority: model values for TLC. *)
EXTENDS SwarmAuthority
CONSTANTS p1, p2, k1, k2
=============================================================================
