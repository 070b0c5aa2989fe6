-------------------------- MODULE MCLeaseAuthority --------------------------
(* Model-checking instance of LeaseAuthority.                              *)
EXTENDS LeaseAuthority, TLC

\* Leases and sessions are interchangeable row identifiers.
RowSymmetry == Permutations(Leases) \cup Permutations(Sessions)
=============================================================================
