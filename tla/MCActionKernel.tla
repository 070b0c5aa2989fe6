--------------------------- MODULE MCActionKernel ---------------------------
(* Model-checking instance of ActionKernel.                                *)
EXTENDS ActionKernel, TLC

\* Row identifiers, keys and freshness tokens are interchangeable.
RowSymmetry == Permutations(Leases) \cup Permutations(Sessions)
                 \cup Permutations(Attempts) \cup Permutations(Keys)
                 \cup Permutations(Observations)
=============================================================================
