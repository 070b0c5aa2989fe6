---------------------------- MODULE MCEdgeRunner ----------------------------
(* Model-checking instance of EdgeRunner.                                  *)
EXTENDS EdgeRunner

\* Attempts and serials are interchangeable, so the request of one delivery may be
\* fixed: the other one still has the same or another attempt and serial.
MCInit ==
    /\ EdgeInit
    /\ request[CHOOSE d \in Deliveries : TRUE] =
            [attempt |-> CHOOSE a \in Attempts : TRUE, serial |-> CHOOSE s \in Serials : TRUE]

MCSpec == MCInit /\ [][EdgeNext]_edgeVars /\ EdgeFairness
=============================================================================
