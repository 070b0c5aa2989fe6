--------------------------- MODULE MCRuntimeLink ---------------------------
(* Model-checking instance of RuntimeLink.                                 *)
EXTENDS RuntimeLink, TLC

\* Workers, keys and action identifiers are interchangeable.
LinkSymmetry == Permutations(Workers) \cup Permutations(Keys) \cup Permutations(Actions)
=============================================================================
