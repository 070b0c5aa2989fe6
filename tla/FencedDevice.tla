---------------------------- MODULE FencedDevice ----------------------------
(***************************************************************************)
(* What the lease authority promises to everything that acts on a device:  *)
(* grants are numbered per device, and a new grant fences off the old one. *)
(* LeaseAuthority implements this; RunLifecycle is written on top of it.   *)
(***************************************************************************)
EXTENDS Naturals

CONSTANTS Devices, Holders

VARIABLES
    granted,            \* every grant ever made
    live                \* the grants that may still be used

fencedVars == <<granted, live>>

GrantRecord == [device : Devices, holder : Holders, token : Nat \ {0}]

\* The numbers already given out for a device.
TokensOf(d) == {g.token : g \in {x \in granted : x.device = d}}

-----------------------------------------------------------------------------
FencedInit == granted = {} /\ live = {}

\* A holder is granted a device under the next number; whatever was live on
\* that device is not any more.
Grant(d, h, tok) ==
    LET g == [device |-> d, holder |-> h, token |-> tok] IN
    /\ \A t \in TokensOf(d) : t < tok
    /\ granted' = granted \cup {g}
    /\ live' = {x \in live : x.device # d} \cup {g}

\* Grants end: released, revoked, expired, or together with their session.
End(ended) ==
    /\ live' = live \ ended
    /\ UNCHANGED granted

FencedNext ==
    \/ \E d \in Devices, h \in Holders :
        \E tok \in {1} \cup {t + 1 : t \in TokensOf(d)} : Grant(d, h, tok)
    \/ \E ended \in SUBSET live : End(ended)

FencedSpec == FencedInit /\ [][FencedNext]_fencedVars

-----------------------------------------------------------------------------
\* At most one grant of a device is live, and it is the one with the highest
\* number: a comparison of tokens tells the live holder from all former ones.
LiveIsNewest ==
    \A g \in live, x \in granted :
        x.device = g.device /\ x # g => x.token < g.token

=============================================================================
