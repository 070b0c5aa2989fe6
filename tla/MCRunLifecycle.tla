--------------------------- MODULE MCRunLifecycle ---------------------------
(* Model-checking instance of RunLifecycle.                                *)
EXTENDS RunLifecycle, TLC

\* Devices and idempotency keys are interchangeable.
RunSymmetry == Permutations(Devices) \cup Permutations(Attempts)
=============================================================================
