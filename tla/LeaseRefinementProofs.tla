----------------------- MODULE LeaseRefinementProofs -----------------------
(***************************************************************************)
(* LeaseAuthority implements FencedDevice.  A transaction that ends leases *)
(* is End, Acquire is Grant, and everything else leaves the grants as they *)
(* are.  FenceDominates is what makes the mapping work: two active rows    *)
(* never stand for the same grant, so ending one row ends one grant.       *)
(***************************************************************************)
EXTENDS LeaseAuthorityProofs

Granted == {GrantOf(l) : l \in GrantedLeases}
Live    == {GrantOf(l) : l \in ActiveLeases}

\* Different active rows stand for different grants.
LEMMA ActiveGrantsDiffer ==
    ASSUME LeaseInv, NEW l \in ActiveLeases, NEW x \in ActiveLeases,
           GrantOf(l) = GrantOf(x)
    PROVE  l = x
<1>1. SUFFICES ASSUME l # x PROVE FALSE
  OBVIOUS
<1>2. /\ l \in Leases /\ leases[l].state = "active"
      /\ x \in Leases /\ leases[x].state = "active"
  BY DEF ActiveLeases
<1>3. leases[l].device = leases[x].device /\ leases[l].token = leases[x].token
  BY DEF GrantOf
<1>4. leases[l].token \in Nat
  BY <1>2, GrantedLease DEF LeaseInv, Lease
<1>5. leases[x].token < leases[l].token
  BY <1>1, <1>2, <1>3 DEF LeaseInv, FenceDominates
<1> QED
  BY <1>3, <1>4, <1>5

\* Ending a set of active rows ends their grants and no others.
LEMMA FinishIsEnd ==
    ASSUME LeaseInv, NEW ended \in SUBSET Leases, NEW next \in LeaseFinal,
           \A l \in ended : leases[l].state = "active",
           FinishLeases(ended, next)
    PROVE  Fenced!FencedNext
<1>0. LeaseTypeOK
  BY DEF LeaseInv
<1>1. ASSUME NEW l \in Leases
      PROVE  /\ leases'[l].device = leases[l].device
             /\ leases'[l].holder = leases[l].holder
             /\ leases'[l].token = leases[l].token
             /\ leases'[l].state = "absent" <=> leases[l].state = "absent"
             /\ leases'[l].state = "active" <=> leases[l].state = "active" /\ l \notin ended
  <2>1. CASE l \in ended
    <3>1. leases[l] \in Lease
      BY <1>0, <2>1, GrantedLease
    <3>2. leases'[l] = [leases[l] EXCEPT !.state = next]
      BY <2>1 DEF FinishLeases
    <3> QED
      BY <2>1, <3>1, <3>2 DEF Lease, LeaseFinal, LeaseStates
  <2>2. CASE l \notin ended
    <3>1. leases'[l] = leases[l]
      BY <2>2 DEF FinishLeases
    <3> QED
      BY <2>2, <3>1
  <2> QED
    BY <2>1, <2>2
<1>2. \A l \in Leases : GrantOf(l)' = GrantOf(l)
  BY <1>1 DEF GrantOf
<1>3. GrantedLeases' = GrantedLeases /\ ActiveLeases' = ActiveLeases \ ended
  BY <1>1 DEF GrantedLeases, ActiveLeases
<1>4. Granted' = Granted
  BY <1>2, <1>3 DEF Granted, GrantedLeases
<1> DEFINE gone == {GrantOf(l) : l \in ended}
<1>5. gone \in SUBSET Live
  BY DEF Live, ActiveLeases
<1>6. Live' = Live \ gone
  <2>1. ASSUME NEW g \in Live'
        PROVE  g \in Live \ gone
    <3>1. PICK l \in ActiveLeases : l \notin ended /\ g = GrantOf(l)
      BY <1>2, <1>3 DEF Live, ActiveLeases
    <3>2. ASSUME NEW x \in ended PROVE GrantOf(x) # g
      <4>1. x \in ActiveLeases
        BY DEF ActiveLeases
      <4> QED
        BY <3>1, <4>1, ActiveGrantsDiffer
    <3> QED
      BY <3>1, <3>2 DEF Live
  <2>2. ASSUME NEW g \in Live \ gone
        PROVE  g \in Live'
    <3>1. PICK l \in ActiveLeases : g = GrantOf(l)
      BY DEF Live
    <3>2. l \notin ended
      BY <3>1
    <3> QED
      BY <1>2, <1>3, <3>1, <3>2 DEF Live, ActiveLeases
  <2> QED
    BY <2>1, <2>2
<1> QED
  BY <1>4, <1>5, <1>6 DEF Fenced!FencedNext, Fenced!End, Granted, Live

\* A step that changes neither state nor binding of any row changes no grant.
LEMMA SameRowsSameGrants ==
    ASSUME \A l \in Leases : /\ leases'[l].device = leases[l].device
                             /\ leases'[l].holder = leases[l].holder
                             /\ leases'[l].token = leases[l].token
                             /\ leases'[l].state = leases[l].state
    PROVE  UNCHANGED Fenced!fencedVars
<1>1. \A l \in Leases : GrantOf(l)' = GrantOf(l)
  BY DEF GrantOf
<1>2. GrantedLeases' = GrantedLeases /\ ActiveLeases' = ActiveLeases
  BY DEF GrantedLeases, ActiveLeases
<1>3. Granted' = Granted /\ Live' = Live
  BY <1>1, <1>2 DEF Granted, Live, GrantedLeases, ActiveLeases
<1> QED
  BY <1>3 DEF Fenced!fencedVars, Granted, Live

\* Acquire is Grant: every other grant of the device has a lower number, and
\* what was still active on the device has lapsed and is fenced off.
LEMMA AcquireIsGrant ==
    ASSUME LeaseInv, NEW l \in Leases, NEW d \in Devices, NEW s \in Sessions,
           NEW h \in Holders, NEW now \in Readings, Acquire(l, d, s, h, now)
    PROVE  Fenced!FencedNext
<1>0. LeaseTypeOK
  BY DEF LeaseInv
<1> DEFINE lapsed == Lapsed(d, now)
<1>1. leases[l].state = "absent" /\ ActiveOn(d) \subseteq lapsed
  BY DEF Acquire
<1>2. PICK tok \in {1} \cup {leases[x].token + 1 : x \in Leases} :
        /\ IsNextToken(d, tok)
        /\ leases' = [x \in Leases |->
                IF x = l THEN [state |-> "active", device |-> d, session |-> s,
                               holder |-> h, token |-> tok,
                               expires |-> Deadline(s, now)]
                ELSE IF x \in lapsed THEN [leases[x] EXCEPT !.state = "expired"]
                ELSE leases[x]]
  BY DEF Acquire
<1>3. lapsed = ActiveOn(d) /\ \A x \in lapsed : x \in Leases /\ leases[x].state = "active"
  BY <1>1 DEF Lapsed, ActiveOn
<1> DEFINE g == [device |-> d, holder |-> h, token |-> tok]
<1>4. ASSUME NEW x \in Leases, x # l
      PROVE  /\ leases'[x].device = leases[x].device
             /\ leases'[x].holder = leases[x].holder
             /\ leases'[x].token = leases[x].token
             /\ leases'[x].state = "absent" <=> leases[x].state = "absent"
             /\ leases'[x].state = "active" <=>
                    leases[x].state = "active" /\ leases[x].device # d
  <2>1. CASE x \in lapsed
    <3>1. leases[x] \in Lease
      BY <1>0, <1>3, <2>1, GrantedLease
    <3>2. leases'[x] = [leases[x] EXCEPT !.state = "expired"]
      BY <1>2, <1>4, <2>1
    <3>3. leases[x].state = "active" /\ leases[x].device = d
      BY <1>3, <2>1 DEF ActiveOn
    <3> QED
      BY <3>1, <3>2, <3>3 DEF Lease
  <2>2. CASE x \notin lapsed
    <3>1. leases'[x] = leases[x]
      BY <1>2, <1>4, <2>2
    <3>2. ~ (leases[x].state = "active" /\ leases[x].device = d)
      BY <1>3, <2>2 DEF ActiveOn
    <3> QED
      BY <3>1, <3>2
  <2> QED
    BY <2>1, <2>2
<1>5. \A x \in Leases : x # l => GrantOf(x)' = GrantOf(x)
  BY <1>4 DEF GrantOf
<1>6. GrantOf(l)' = g /\ leases'[l].state = "active"
  BY <1>2 DEF GrantOf
<1>7. l \notin GrantedLeases /\ l \notin ActiveLeases
  BY <1>1 DEF GrantedLeases, ActiveLeases
<1>8. /\ GrantedLeases' = GrantedLeases \cup {l}
      /\ ActiveLeases' = {x \in ActiveLeases : leases[x].device # d} \cup {l}
  BY <1>4, <1>6, <1>7 DEF GrantedLeases, ActiveLeases
<1>9. Granted' = Granted \cup {g}
  BY <1>5, <1>6, <1>7, <1>8 DEF Granted, GrantedLeases
<1>10. Live' = {x \in Live : x.device # d} \cup {g}
  <2>1. \A x \in ActiveLeases : GrantOf(x).device = leases[x].device
    BY DEF GrantOf
  <2>2. ASSUME NEW y \in Live' PROVE y \in {x \in Live : x.device # d} \cup {g}
    <3>1. PICK x \in ActiveLeases' : y = GrantOf(x)'
      BY DEF Live
    <3>2. CASE x = l
      BY <3>1, <3>2, <1>6
    <3>3. CASE x # l
      <4>1. x \in ActiveLeases /\ leases[x].device # d
        BY <3>3, <1>8
      <4> QED
        BY <3>1, <3>3, <4>1, <1>5, <2>1 DEF Live, ActiveLeases
    <3> QED
      BY <3>2, <3>3
  <2>3. ASSUME NEW y \in Live, y.device # d PROVE y \in Live'
    <3>1. PICK x \in ActiveLeases : y = GrantOf(x)
      BY DEF Live
    <3>2. x \in ActiveLeases' /\ x # l /\ x \in Leases
      BY <3>1, <2>1, <2>3, <1>7, <1>8 DEF ActiveLeases
    <3> QED
      BY <3>1, <3>2, <1>5 DEF Live
  <2>4. g \in Live'
    BY <1>6, <1>8 DEF Live
  <2> QED
    BY <2>2, <2>3, <2>4
<1>11. \A t \in Fenced!TokensOf(d) : t < tok
  <2> SUFFICES ASSUME NEW x \in GrantedLeases, GrantOf(x).device = d
               PROVE  GrantOf(x).token < tok
    BY DEF Fenced!TokensOf
  <2>1. x \in LeasesOn(d)
    BY DEF GrantedLeases, GrantOf, LeasesOn
  <2> QED
    BY <2>1, <1>2 DEF IsNextToken, GrantOf
<1>12. tok \in {1} \cup {t + 1 : t \in Fenced!TokensOf(d)}
  <2>1. CASE tok = 1
    BY <2>1
  <2>2. ASSUME NEW x \in LeasesOn(d), tok = leases[x].token + 1
        PROVE  tok \in {1} \cup {t + 1 : t \in Fenced!TokensOf(d)}
    <3>1. x \in GrantedLeases /\ GrantOf(x).device = d /\ GrantOf(x).token = leases[x].token
      BY DEF GrantedLeases, GrantOf, LeasesOn
    <3>2. GrantOf(x).token \in Fenced!TokensOf(d)
      BY <3>1 DEF Fenced!TokensOf
    <3> QED
      BY <2>2, <3>1, <3>2
  <2> QED
    BY <1>2, <2>1, <2>2 DEF IsNextToken
<1>13. Fenced!Grant(d, h, tok)
  BY <1>9, <1>10, <1>11 DEF Fenced!Grant, Granted, Live
<1> QED
  BY <1>12, <1>13 DEF Fenced!FencedNext

\* Every step of the two services is a step of the abstract authority or
\* leaves its grants alone.
LEMMA StepRefines ==
    ASSUME LeaseInv, [LeaseNext]_leaseVars
    PROVE  [Fenced!FencedNext]_Fenced!fencedVars
<1>0. LeaseTypeOK
  BY DEF LeaseInv
<1>1. ASSUME UNCHANGED leases PROVE UNCHANGED Fenced!fencedVars
  BY <1>1, SameRowsSameGrants
<1>2. ASSUME NEW s \in Sessions, Close(s) \/ RevokeSession(s)
      PROVE  Fenced!FencedNext
  <2>1. /\ SessionLeases(s) \in SUBSET Leases
        /\ \A x \in SessionLeases(s) : leases[x].state = "active"
    BY DEF SessionLeases
  <2>2. PICK next \in LeaseFinal : FinishLeases(SessionLeases(s), next)
    BY <1>2 DEF Close, RevokeSession, LeaseFinal
  <2> QED
    BY <2>1, <2>2, FinishIsEnd
<1>3. ASSUME NEW x \in Leases, leases[x].state = "active",
             NEW next \in LeaseFinal, FinishLeases({x}, next)
      PROVE  Fenced!FencedNext
  BY <1>3, FinishIsEnd
<1>4. ASSUME NEW x \in Leases,
             (\E h \in Holders, tok \in {leases[y].token : y \in Leases} :
                Release(x, h, tok)) \/ RevokeLease(x)
      PROVE  Fenced!FencedNext
  BY <1>3, <1>4 DEF Release, RevokeLease, Presents, LeaseFinal
<1>5. ASSUME NEW x \in Leases, NEW h \in Holders, NEW tok,
             NEW now \in Readings, Renew(x, h, tok, now)
      PROVE  UNCHANGED Fenced!fencedVars
  <2>1. leases[x] \in Lease
    BY <1>0, <1>5, GrantedLease DEF Renew, Presents
  <2>2. leases' = [leases EXCEPT ![x].expires = Deadline(leases[x].session, now)]
    BY <1>5 DEF Renew
  <2>3. leases'[x] = [leases[x] EXCEPT !.expires = Deadline(leases[x].session, now)]
    BY <1>0, <2>2 DEF LeaseTypeOK
  <2>4. ASSUME NEW l \in Leases
        PROVE  /\ leases'[l].device = leases[l].device
               /\ leases'[l].holder = leases[l].holder
               /\ leases'[l].token = leases[l].token
               /\ leases'[l].state = leases[l].state
    <3>1. CASE l = x
      BY <2>1, <2>3, <3>1 DEF Lease
    <3>2. CASE l # x
      BY <1>0, <2>2, <3>2 DEF LeaseTypeOK
    <3> QED
      BY <3>1, <3>2
  <2> QED
    BY <2>4, SameRowsSameGrants
<1>6. CASE Tick \/ (\E d \in Devices : Discover(d)) \/ UNCHANGED leaseVars
  BY <1>1, <1>6 DEF Tick, Discover, leaseVars
<1>7. ASSUME NEW s \in Sessions, NEW now,
             (\E h \in Holders : Request(s, h, now)) \/ Activate(s, now)
      PROVE  UNCHANGED Fenced!fencedVars
  BY <1>1, <1>7 DEF Request, Activate
<1> QED
  BY <1>2, <1>4, <1>5, <1>6, <1>7, AcquireIsGrant DEF LeaseNext

\* Sessions, deadlines, sweeps and stale clock readings together implement
\* numbered, fenced grants (ImplementsFencedDevice), for every set of rows.
THEOREM LeasesImplementFencedDevice == LeaseSpec => ImplementsFencedDevice
<1>1. LeaseInit => Fenced!FencedInit
  <2> SUFFICES ASSUME LeaseInit PROVE GrantedLeases = {} /\ ActiveLeases = {}
    BY DEF Fenced!FencedInit
  <2> QED
    BY DEF LeaseInit, NoLease, GrantedLeases, ActiveLeases
<1>2. LeaseInv /\ [LeaseNext]_leaseVars => [Fenced!FencedNext]_Fenced!fencedVars
  BY StepRefines
<1> QED
  BY <1>1, <1>2, LeaseInvariant, PTL
     DEF LeaseSpec, ImplementsFencedDevice, Fenced!FencedSpec
=============================================================================
