------------------------ MODULE LeaseAuthorityProofs ------------------------
(***************************************************************************)
(* Theorems about LeaseAuthority, for every set of devices, holders,       *)
(* sessions and leases, every time-to-live and every clock lag.            *)
(***************************************************************************)
EXTENDS LeaseAuthority, SequenceTheorems, TLAPS

\* The inductive invariant: fencing needs the session bound only for typing,
\* the session bound needs nothing but the types.
LeaseInv == LeaseTypeOK /\ FenceDominates /\ LeaseWithinSession

\* A clock reading is an instant.
LEMMA ReadingsAreInstants ==
    ASSUME NEW now \in Readings
    PROVE  now \in Instant
BY ResolutionAssumption DEF Readings, Instant

\* Adding whole seconds and moving the clock on give instants.
LEMMA InstantArithmetic ==
    ASSUME NEW t \in Instant, NEW n \in Nat
    PROVE  /\ AddSeconds(t, n) \in Instant
           /\ Successor(t) \in Instant
<1>1. AddSeconds(t, n) \in Instant
  BY DEF AddSeconds, Instant
<1>2. Successor(t) \in Instant
  BY ResolutionAssumption DEF Successor, Instant
<1> QED
  BY <1>1, <1>2

\* The clamped deadline is an instant and not after the limit.
LEMMA ClampBounds ==
    ASSUME NEW t \in Instant, NEW limit \in Instant
    PROVE  /\ Clamp(t, limit) \in Instant
           /\ ~ Before(limit, Clamp(t, limit))
BY DEF Clamp, Before, Instant

\* The deadline of a lease under a session row that exists.
LEMMA DeadlineBounds ==
    ASSUME LeaseTypeOK, NEW s \in Sessions, sessions[s].state = "active",
           NEW now \in Readings
    PROVE  /\ Deadline(s, now) \in Instant
           /\ ~ Before(sessions[s].expires, Deadline(s, now))
<1>1. sessions[s] \in Session
  BY DEF LeaseTypeOK, NoSession
<1>2. sessions[s].expires \in Instant
  BY <1>1 DEF Session
<1>3. AddSeconds(now, LeaseTTL) \in Instant
  BY ReadingsAreInstants, InstantArithmetic, LeaseAuthorityAssumption
<1> QED
  BY <1>2, <1>3, ClampBounds DEF Deadline

\* Text and time order agree across seconds, whatever the fractions.
LEMMA TextOrderRespectsSeconds ==
    ASSUME NEW a \in Instant, NEW b \in Instant
    PROVE  /\ TextBefore(a, b) => a.sec <= b.sec
           /\ ~ TextBefore(a, b) => b.sec <= a.sec
BY DEF TextBefore, Instant

\* A reading is at most the current second and at least ReadLag before it.
LEMMA ReadingsAreRecent ==
    ASSUME LeaseTypeOK, NEW now \in Readings
    PROVE  now.sec <= clock.sec /\ clock.sec <= now.sec + ReadLag
BY LeaseAuthorityAssumption
   DEF Readings, Before, AddSeconds, LeaseTypeOK, Instant

-----------------------------------------------------------------------------
\* A row that is not absent is a full lease row.
LEMMA GrantedLease ==
    ASSUME LeaseTypeOK, NEW l \in Leases, leases[l].state # "absent"
    PROVE  leases[l] \in Lease
BY DEF LeaseTypeOK, NoLease

\* Finishing active leases keeps the rows typed and the fence dominant: the
\* set of active leases shrinks and no token changes.
LEMMA FinishKeepsFence ==
    ASSUME LeaseInv, NEW ended \in SUBSET Leases, NEW next \in LeaseFinal,
           \A l \in ended : leases[l].state = "active",
           FinishLeases(ended, next)
    PROVE  /\ leases' \in [Leases -> Lease \cup {NoLease}]
           /\ leaseEvents' \in [Leases -> Seq(LeaseStates)]
           /\ FenceDominates'
           /\ \A l \in Leases : leases'[l].state = "active" =>
                    l \notin ended /\ leases'[l] = leases[l]
<1>0. LeaseTypeOK /\ FenceDominates
  BY DEF LeaseInv
<1>1. ASSUME NEW l \in Leases
      PROVE  /\ l \in ended => leases'[l] = [leases[l] EXCEPT !.state = next]
             /\ l \notin ended => leases'[l] = leases[l]
  BY DEF FinishLeases
<1>2. ASSUME NEW l \in Leases
      PROVE  leases'[l] \in Lease \cup {NoLease}
  <2>1. CASE l \in ended
    <3>1. leases[l] \in Lease
      BY <1>0, <2>1, GrantedLease
    <3> QED
      BY <3>1, <1>1, <2>1 DEF Lease, LeaseStates
  <2>2. CASE l \notin ended
    BY <1>0, <1>1, <2>2 DEF LeaseTypeOK
  <2> QED
    BY <2>1, <2>2
<1>3. leases' \in [Leases -> Lease \cup {NoLease}]
  BY <1>2 DEF FinishLeases
<1>4. leaseEvents' \in [Leases -> Seq(LeaseStates)]
  BY <1>0 DEF LeaseTypeOK, FinishLeases, EventsAfter, LeaseStates
<1>5. ASSUME NEW l \in Leases
      PROVE  /\ leases'[l].state = "active" => l \notin ended /\ leases'[l] = leases[l]
             /\ leases'[l].device = leases[l].device
             /\ leases'[l].token = leases[l].token
             /\ leases'[l].state = "absent" <=> leases[l].state = "absent"
  <2>1. CASE l \in ended
    <3>1. leases[l] \in Lease
      BY <1>0, <2>1, GrantedLease
    <3> QED
      BY <3>1, <1>1, <2>1 DEF Lease, LeaseFinal, LeaseStates
  <2>2. CASE l \notin ended
    BY <1>1, <2>2
  <2> QED
    BY <2>1, <2>2
<1>6. FenceDominates'
  BY <1>0, <1>5 DEF FenceDominates
<1> QED
  BY <1>3, <1>4, <1>5, <1>6

\* Closing and revoking a session: its leases end with it.
LEMMA EndSessionKeepsInv ==
    ASSUME LeaseInv, NEW s \in Sessions, NEW st \in SessionStates \ {"active"},
           NEW next \in LeaseFinal, sessions[s].state # "absent",
           sessions' = [sessions EXCEPT ![s].state = st],
           FinishLeases(SessionLeases(s), next),
           UNCHANGED <<clock, deviceState>>
    PROVE  LeaseInv'
<1>0. LeaseTypeOK /\ LeaseWithinSession
  BY DEF LeaseInv
<1>1. /\ SessionLeases(s) \in SUBSET Leases
      /\ \A l \in SessionLeases(s) : leases[l].state = "active"
  BY DEF SessionLeases
<1>2. /\ leases' \in [Leases -> Lease \cup {NoLease}]
      /\ leaseEvents' \in [Leases -> Seq(LeaseStates)]
      /\ FenceDominates'
      /\ \A l \in Leases : leases'[l].state = "active" =>
                    l \notin SessionLeases(s) /\ leases'[l] = leases[l]
  BY <1>1, FinishKeepsFence
<1>3. sessions' \in [Sessions -> Session \cup {NoSession}]
  <2>1. sessions[s] \in Session
    BY <1>0 DEF LeaseTypeOK, NoSession
  <2> QED
    BY <1>0, <2>1 DEF LeaseTypeOK, Session
<1>4. LeaseTypeOK'
  BY <1>0, <1>2, <1>3 DEF LeaseTypeOK
<1>5. LeaseWithinSession'
  <2> SUFFICES ASSUME NEW l \in Leases, leases'[l].state = "active"
               PROVE  /\ sessions'[leases'[l].session].state = "active"
                      /\ sessions'[leases'[l].session].holder = leases'[l].holder
                      /\ ~ Before(sessions'[leases'[l].session].expires, leases'[l].expires)
    BY DEF LeaseWithinSession, Before
  <2>1. leases'[l] = leases[l] /\ leases[l].session # s
    BY <1>2 DEF SessionLeases
  <2>2. leases[l].session \in Sessions
    BY <1>0, <2>1, GrantedLease DEF Lease
  <2>3. sessions'[leases[l].session] = sessions[leases[l].session]
    BY <1>0, <2>1, <2>2 DEF LeaseTypeOK
  <2> QED
    BY <1>0, <2>1, <2>3 DEF LeaseWithinSession, Before
<1> QED
  BY <1>2, <1>4, <1>5 DEF LeaseInv

\* Ending one lease, by its holder or by an operator.
LEMMA EndLeaseKeepsInv ==
    ASSUME LeaseInv, NEW l \in Leases, NEW next \in LeaseFinal,
           leases[l].state = "active", FinishLeases({l}, next),
           UNCHANGED <<clock, deviceState, sessions>>
    PROVE  LeaseInv'
<1>0. LeaseTypeOK /\ LeaseWithinSession
  BY DEF LeaseInv
<1>2. /\ leases' \in [Leases -> Lease \cup {NoLease}]
      /\ leaseEvents' \in [Leases -> Seq(LeaseStates)]
      /\ FenceDominates'
      /\ \A x \in Leases : leases'[x].state = "active" =>
                    x \notin {l} /\ leases'[x] = leases[x]
  BY FinishKeepsFence
<1>4. LeaseTypeOK'
  BY <1>0, <1>2 DEF LeaseTypeOK
<1>5. LeaseWithinSession'
  BY <1>0, <1>2 DEF LeaseWithinSession, Before
<1> QED
  BY <1>2, <1>4, <1>5 DEF LeaseInv

\* Acquire: the new row carries a token above every other of its device, and
\* whatever was active there has lapsed and is expired by the same transaction.
LEMMA AcquireKeepsInv ==
    ASSUME LeaseInv, NEW l \in Leases, NEW d \in Devices, NEW s \in Sessions,
           NEW h \in Holders, NEW now \in Readings, Acquire(l, d, s, h, now)
    PROVE  LeaseInv'
<1>0. LeaseTypeOK /\ FenceDominates /\ LeaseWithinSession
  BY DEF LeaseInv
<1> DEFINE lapsed == Lapsed(d, now)
<1>1. /\ leases[l].state = "absent"
      /\ sessions[s].state = "active" /\ sessions[s].holder = h
      /\ ActiveOn(d) \subseteq lapsed
      /\ leaseEvents' = [EventsAfter(lapsed, "expired") EXCEPT ![l] = <<"active">>]
      /\ UNCHANGED <<clock, deviceState, sessions>>
  BY DEF Acquire
<1>2. PICK tok \in {1} \cup {leases[x].token + 1 : x \in Leases} :
        /\ IsNextToken(d, tok)
        /\ leases' = [x \in Leases |->
                IF x = l THEN [state |-> "active", device |-> d, session |-> s,
                               holder |-> h, token |-> tok,
                               expires |-> Deadline(s, now)]
                ELSE IF x \in lapsed THEN [leases[x] EXCEPT !.state = "expired"]
                ELSE leases[x]]
  BY DEF Acquire
<1>3. lapsed \subseteq Leases /\ \A x \in lapsed : leases[x].state = "active"
  BY DEF Lapsed, ActiveOn
<1>4. tok \in Nat \ {0}
  BY <1>0 DEF LeaseTypeOK, Lease, NoLease
<1>5. /\ Deadline(s, now) \in Instant
      /\ ~ Before(sessions[s].expires, Deadline(s, now))
  BY <1>0, <1>1, DeadlineBounds
<1>6. ASSUME NEW x \in Leases
      PROVE  /\ leases'[x] \in Lease \cup {NoLease}
             /\ x = l => leases'[x] = [state |-> "active", device |-> d, session |-> s,
                               holder |-> h, token |-> tok,
                               expires |-> Deadline(s, now)]
             /\ x # l => /\ leases'[x].device = leases[x].device
                         /\ leases'[x].token = leases[x].token
                         /\ leases'[x].state = "absent" <=> leases[x].state = "absent"
                         /\ leases'[x].state = "active" =>
                                x \notin lapsed /\ leases'[x] = leases[x]
  <2>1. CASE x = l
    BY <1>2, <1>4, <1>5, <2>1 DEF Lease, LeaseStates
  <2>2. CASE x # l /\ x \in lapsed
    <3>1. leases[x] \in Lease
      BY <1>0, <1>3, <2>2, GrantedLease
    <3>2. leases'[x] = [leases[x] EXCEPT !.state = "expired"]
      BY <1>2, <2>2
    <3> QED
      BY <3>1, <3>2, <2>2 DEF Lease, LeaseStates, LeaseFinal
  <2>3. CASE x # l /\ x \notin lapsed
    <3>1. leases'[x] = leases[x]
      BY <1>2, <2>3
    <3> QED
      BY <3>1, <2>3, <1>0 DEF LeaseTypeOK
  <2> QED
    BY <2>1, <2>2, <2>3
<1>7. LeaseTypeOK'
  <2>1. leases' \in [Leases -> Lease \cup {NoLease}]
    BY <1>2, <1>6
  <2>2. EventsAfter(lapsed, "expired") \in [Leases -> Seq(LeaseStates)]
    BY <1>0 DEF LeaseTypeOK, EventsAfter, LeaseStates, LeaseFinal
  <2>3. <<"active">> \in Seq(LeaseStates)
    BY DEF LeaseStates
  <2>4. leaseEvents' \in [Leases -> Seq(LeaseStates)]
    BY <1>1, <2>2, <2>3
  <2> QED
    BY <1>0, <1>1, <2>1, <2>4 DEF LeaseTypeOK
<1>8. FenceDominates'
  <2> SUFFICES ASSUME NEW a \in Leases, NEW x \in Leases,
                      leases'[a].state = "active", x # a,
                      leases'[x].state # "absent",
                      leases'[x].device = leases'[a].device
               PROVE  leases'[x].token < leases'[a].token
    BY DEF FenceDominates
  <2>1. CASE a = l
    <3>1. x \in LeasesOn(d)
      BY <2>1, <1>6 DEF LeasesOn
    <3> QED
      BY <3>1, <2>1, <1>2, <1>6 DEF IsNextToken
  <2>2. CASE a # l /\ x = l
    \* impossible: a would be an active lease of d that has not lapsed
    <3>1. leases[a].state = "active" /\ leases[a].device = d /\ a \notin lapsed
      BY <2>2, <1>6
    <3> QED
      BY <3>1, <1>1 DEF ActiveOn
  <2>3. CASE a # l /\ x # l
    BY <2>3, <1>0, <1>6 DEF FenceDominates
  <2> QED
    BY <2>1, <2>2, <2>3
<1>9. LeaseWithinSession'
  <2> SUFFICES ASSUME NEW a \in Leases, leases'[a].state = "active"
               PROVE  /\ sessions[leases'[a].session].state = "active"
                      /\ sessions[leases'[a].session].holder = leases'[a].holder
                      /\ ~ Before(sessions[leases'[a].session].expires, leases'[a].expires)
    BY <1>1 DEF LeaseWithinSession, Before
  <2>1. CASE a = l
    BY <2>1, <1>1, <1>5, <1>6
  <2>2. CASE a # l
    BY <2>2, <1>0, <1>6 DEF LeaseWithinSession
  <2> QED
    BY <2>1, <2>2
<1> QED
  BY <1>7, <1>8, <1>9 DEF LeaseInv

\* Renew: only the deadline changes, and it stays clamped to the session's.
LEMMA RenewKeepsInv ==
    ASSUME LeaseInv, NEW l \in Leases, NEW h \in Holders, NEW tok,
           NEW now \in Readings, Renew(l, h, tok, now)
    PROVE  LeaseInv'
<1>0. LeaseTypeOK /\ FenceDominates /\ LeaseWithinSession
  BY DEF LeaseInv
<1> DEFINE s == leases[l].session
<1>1. /\ leases[l].state = "active"
      /\ sessions[s].state = "active"
      /\ leases' = [leases EXCEPT ![l].expires = Deadline(s, now)]
      /\ UNCHANGED <<clock, deviceState, sessions, leaseEvents>>
  BY DEF Renew, Presents
<1>2. leases[l] \in Lease /\ s \in Sessions
  BY <1>0, <1>1, GrantedLease DEF Lease
<1>3. /\ Deadline(s, now) \in Instant
      /\ ~ Before(sessions[s].expires, Deadline(s, now))
  BY <1>0, <1>1, <1>2, DeadlineBounds
<1>4. leases'[l] = [leases[l] EXCEPT !.expires = Deadline(s, now)]
  BY <1>0, <1>1 DEF LeaseTypeOK
<1>5. \A x \in Leases \ {l} : leases'[x] = leases[x]
  BY <1>0, <1>1 DEF LeaseTypeOK
<1>6. leases'[l] \in Lease
  BY <1>2, <1>3, <1>4 DEF Lease
<1>7. /\ leases'[l].state = "active" /\ leases'[l].device = leases[l].device
      /\ leases'[l].session = s /\ leases'[l].holder = leases[l].holder
      /\ leases'[l].token = leases[l].token
      /\ leases'[l].expires = Deadline(s, now)
  BY <1>1, <1>2, <1>4 DEF Lease
<1>8. LeaseTypeOK'
  <2>1. leases' \in [Leases -> Lease \cup {NoLease}]
    BY <1>0, <1>1, <1>6, <1>5 DEF LeaseTypeOK
  <2> QED
    BY <1>0, <1>1, <2>1 DEF LeaseTypeOK
<1>9. FenceDominates'
  BY <1>0, <1>1, <1>5, <1>7 DEF FenceDominates
<1>10. LeaseWithinSession'
  <2> SUFFICES ASSUME NEW a \in Leases, leases'[a].state = "active"
               PROVE  /\ sessions[leases'[a].session].state = "active"
                      /\ sessions[leases'[a].session].holder = leases'[a].holder
                      /\ ~ Before(sessions[leases'[a].session].expires, leases'[a].expires)
    BY <1>1 DEF LeaseWithinSession, Before
  <2>1. CASE a = l
    BY <2>1, <1>0, <1>1, <1>3, <1>7 DEF LeaseWithinSession
  <2>2. CASE a # l
    BY <2>2, <1>0, <1>5 DEF LeaseWithinSession
  <2> QED
    BY <2>1, <2>2
<1> QED
  BY <1>8, <1>9, <1>10 DEF LeaseInv

-----------------------------------------------------------------------------
\* The empty database satisfies the invariant.
LEMMA LeaseInitInv == LeaseInit => LeaseInv
<1> SUFFICES ASSUME LeaseInit PROVE LeaseInv
  OBVIOUS
<1>1. LeaseTypeOK
  BY ResolutionAssumption
     DEF LeaseInit, LeaseTypeOK, Instant, Zero, DeviceStates
<1>2. \A l \in Leases : leases[l].state = "absent"
  BY DEF LeaseInit, NoLease
<1> QED
  BY <1>1, <1>2 DEF LeaseInv, FenceDominates, LeaseWithinSession

\* Every transaction, clock tick and stutter preserves it.
LEMMA LeaseNextInv == LeaseInv /\ [LeaseNext]_leaseVars => LeaseInv'
<1> SUFFICES ASSUME LeaseInv, [LeaseNext]_leaseVars
             PROVE  LeaseInv'
  OBVIOUS
<1>0. LeaseTypeOK /\ FenceDominates /\ LeaseWithinSession
  BY DEF LeaseInv
<1>1. CASE Tick
  <2>1. clock' \in Instant
    BY <1>0, <1>1, InstantArithmetic DEF Tick, LeaseTypeOK
  <2> QED
    BY <1>0, <1>1, <2>1
       DEF Tick, LeaseInv, LeaseTypeOK, FenceDominates, LeaseWithinSession, Before
<1>2. ASSUME NEW d \in Devices, Discover(d)
      PROVE  LeaseInv'
  <2>1. deviceState' \in [Devices -> DeviceStates]
    BY <1>0, <1>2 DEF Discover, LeaseTypeOK, DeviceStates
  <2> QED
    BY <1>0, <1>2, <2>1
       DEF Discover, LeaseInv, LeaseTypeOK, FenceDominates, LeaseWithinSession, Before
<1>3. ASSUME NEW s \in Sessions, NEW h \in Holders, NEW now \in Readings,
             Request(s, h, now)
      PROVE  LeaseInv'
  <2>1. AddSeconds(now, SessionTTL) \in Instant
    BY ReadingsAreInstants, InstantArithmetic, LeaseAuthorityAssumption
  <2>2. LeaseTypeOK'
    BY <1>0, <1>3, <2>1 DEF Request, LeaseTypeOK, Session, SessionStates
  <2>3. LeaseWithinSession'
    <3> SUFFICES ASSUME NEW l \in Leases, leases[l].state = "active"
                 PROVE  sessions'[leases[l].session] = sessions[leases[l].session]
      BY <1>0, <1>3 DEF Request, LeaseWithinSession, Before
    <3>1. leases[l].session \in Sessions /\ leases[l].session # s
      BY <1>0, <1>3, GrantedLease DEF Request, Lease, LeaseWithinSession
    <3> QED
      BY <1>0, <1>3, <3>1 DEF Request, LeaseTypeOK
  <2> QED
    BY <1>0, <1>3, <2>2, <2>3 DEF Request, LeaseInv, FenceDominates
<1>4. ASSUME NEW s \in Sessions, NEW now \in Readings, Activate(s, now)
      PROVE  LeaseInv'
  <2>1. sessions[s] \in Session
    BY <1>0, <1>4 DEF Activate, LeaseTypeOK, NoSession
  <2>2. LeaseTypeOK'
    BY <1>0, <1>4, <2>1 DEF Activate, LeaseTypeOK, Session, SessionStates
  <2>3. LeaseWithinSession'
    <3> SUFFICES ASSUME NEW l \in Leases, leases[l].state = "active"
                 PROVE  sessions'[leases[l].session] = sessions[leases[l].session]
      BY <1>0, <1>4 DEF Activate, LeaseWithinSession, Before
    <3>1. leases[l].session \in Sessions /\ leases[l].session # s
      BY <1>0, <1>4, GrantedLease DEF Activate, Lease, LeaseWithinSession
    <3> QED
      BY <1>0, <1>4, <3>1 DEF Activate, LeaseTypeOK
  <2> QED
    BY <1>0, <1>4, <2>2, <2>3 DEF Activate, LeaseInv, FenceDominates
<1>5. ASSUME NEW s \in Sessions, Close(s)
      PROVE  LeaseInv'
  BY <1>5, EndSessionKeepsInv DEF Close, SessionStates, LeaseFinal
<1>6. ASSUME NEW s \in Sessions, RevokeSession(s)
      PROVE  LeaseInv'
  BY <1>6, EndSessionKeepsInv DEF RevokeSession, SessionStates, LeaseFinal
<1>7. ASSUME NEW l \in Leases, NEW d \in Devices, NEW s \in Sessions,
             NEW h \in Holders, NEW now \in Readings, Acquire(l, d, s, h, now)
      PROVE  LeaseInv'
  BY <1>7, AcquireKeepsInv
<1>8. ASSUME NEW l \in Leases, NEW h \in Holders, NEW tok,
             NEW now \in Readings, Renew(l, h, tok, now)
      PROVE  LeaseInv'
  BY <1>8, RenewKeepsInv
<1>9. ASSUME NEW l \in Leases, NEW h \in Holders, NEW tok, Release(l, h, tok)
      PROVE  LeaseInv'
  BY <1>9, EndLeaseKeepsInv DEF Release, Presents, LeaseFinal
<1>10. ASSUME NEW l \in Leases, RevokeLease(l)
       PROVE  LeaseInv'
  BY <1>10, EndLeaseKeepsInv DEF RevokeLease, LeaseFinal
<1>11. CASE UNCHANGED leaseVars
  BY <1>0, <1>11
     DEF leaseVars, LeaseInv, LeaseTypeOK, FenceDominates, LeaseWithinSession, Before
<1> QED
  BY <1>1, <1>2, <1>3, <1>4, <1>5, <1>6, <1>7, <1>8, <1>9, <1>10, <1>11
     DEF LeaseNext

\* The invariant holds in every reachable state.
THEOREM LeaseInvariant == LeaseSpec => []LeaseInv
BY LeaseInitInv, LeaseNextInv, PTL DEF LeaseSpec

\* Every row the services write is well formed.
THEOREM LeaseTypes == LeaseSpec => []LeaseTypeOK
BY LeaseInvariant, PTL DEF LeaseInv

\* One active lease per device, with the highest token ever issued for it.
THEOREM Fencing == LeaseSpec => []FenceDominates
BY LeaseInvariant, PTL DEF LeaseInv

\* An active lease never outlives its session.
THEOREM SessionBoundsLease == LeaseSpec => []LeaseWithinSession
BY LeaseInvariant, PTL DEF LeaseInv

-----------------------------------------------------------------------------
(* What one step may do to one lease row.  Both action properties follow.  *)

\* Finishing a set of active leases changes nothing but their state, and never
\* to "expired" unless that is what the caller asked for.
LEMMA FinishRow ==
    ASSUME NEW ended \in SUBSET Leases, NEW next, FinishLeases(ended, next),
           \A x \in ended : leases[x].state = "active", NEW l \in Leases
    PROVE  \/ leases'[l] = leases[l]
           \/ /\ leases[l].state = "active"
              /\ leases'[l] = [leases[l] EXCEPT !.state = next]
BY DEF FinishLeases

\* The four things that can happen to a lease row in one step: nothing, grant,
\* ending, renewal.  Expiry and renewal carry the clock facts of the deadline.
RowStep(l) ==
    \/ leases'[l] = leases[l]
    \/ leases[l].state = "absent"
    \/ /\ leases[l].state = "active"
       /\ \E next \in LeaseFinal :
            /\ leases'[l] = [leases[l] EXCEPT !.state = next]
            /\ next = "expired" => leases[l].expires.sec <= clock.sec
    \/ /\ leases[l].state = "active"
       /\ \E e \in Instant : leases'[l] = [leases[l] EXCEPT !.expires = e]
       /\ clock.sec <= leases[l].expires.sec + ReadLag

\* Every step is one of the four on every row.
LEMMA RowSteps ==
    ASSUME LeaseInv, [LeaseNext]_leaseVars, NEW l \in Leases
    PROVE  RowStep(l)
<1>0. LeaseTypeOK
  BY DEF LeaseInv
<1>1. CASE UNCHANGED leases
  BY <1>1 DEF RowStep
<1>2. ASSUME NEW s \in Sessions, Close(s) \/ RevokeSession(s)
      PROVE  RowStep(l)
  <2>1. /\ SessionLeases(s) \in SUBSET Leases
        /\ \A x \in SessionLeases(s) : leases[x].state = "active"
    BY DEF SessionLeases
  <2>2. PICK next \in {"released", "revoked"} : FinishLeases(SessionLeases(s), next)
    BY <1>2 DEF Close, RevokeSession
  <2> QED
    BY <2>1, <2>2, FinishRow DEF RowStep, LeaseFinal
<1>3. ASSUME NEW x \in Leases, leases[x].state = "active",
             NEW next \in {"released", "revoked"}, FinishLeases({x}, next)
      PROVE  RowStep(l)
  BY <1>3, FinishRow DEF RowStep, LeaseFinal
<1>4. ASSUME NEW x \in Leases, NEW d \in Devices, NEW s \in Sessions,
             NEW h \in Holders, NEW now \in Readings, Acquire(x, d, s, h, now)
      PROVE  RowStep(l)
  <2>1. CASE l = x
    BY <1>4, <2>1 DEF Acquire, RowStep
  <2>2. CASE l # x /\ l \in Lapsed(d, now)
    <3>1. /\ leases[l].state = "active"
          /\ leases'[l] = [leases[l] EXCEPT !.state = "expired"]
          /\ ~ TextBefore(now, leases[l].expires)
      BY <1>4, <2>2 DEF Acquire, Lapsed, ActiveOn
    <3>2. leases[l].expires \in Instant
      BY <1>0, <3>1, GrantedLease DEF Lease
    <3>3. leases[l].expires.sec <= now.sec /\ now.sec <= clock.sec
      BY <1>0, <3>1, <3>2, TextOrderRespectsSeconds, ReadingsAreInstants, ReadingsAreRecent
    <3>4. leases[l].expires.sec <= clock.sec
      BY <1>0, <3>2, <3>3, ReadingsAreInstants DEF Instant, LeaseTypeOK
    <3> QED
      BY <3>1, <3>4 DEF RowStep, LeaseFinal
  <2>3. CASE l # x /\ l \notin Lapsed(d, now)
    BY <1>4, <2>3 DEF Acquire, RowStep
  <2> QED
    BY <2>1, <2>2, <2>3
<1>5. ASSUME NEW x \in Leases, NEW h \in Holders, NEW tok,
             NEW now \in Readings, Renew(x, h, tok, now)
      PROVE  RowStep(l)
  <2>1. CASE l # x
    BY <1>0, <1>5, <2>1 DEF Renew, RowStep, LeaseTypeOK
  <2>2. CASE l = x
    <3>1. /\ leases[l].state = "active"
          /\ sessions[leases[l].session].state = "active"
          /\ TextBefore(now, leases[l].expires)
          /\ leases'[l] = [leases[l] EXCEPT !.expires = Deadline(leases[l].session, now)]
      BY <1>0, <1>5, <2>2 DEF Renew, Presents, Renewable, LeaseTypeOK
    <3>2. leases[l].expires \in Instant /\ leases[l].session \in Sessions
      BY <1>0, <3>1, GrantedLease DEF Lease
    <3>3. Deadline(leases[l].session, now) \in Instant
      BY <1>0, <3>1, <3>2, DeadlineBounds
    <3>4. now.sec <= leases[l].expires.sec /\ clock.sec <= now.sec + ReadLag
      BY <1>0, <3>1, <3>2, TextOrderRespectsSeconds, ReadingsAreInstants, ReadingsAreRecent
    <3>5. clock.sec <= leases[l].expires.sec + ReadLag
      BY <1>0, <3>2, <3>4, ReadingsAreInstants, LeaseAuthorityAssumption
         DEF Instant, LeaseTypeOK
    <3> QED
      BY <3>1, <3>3, <3>5 DEF RowStep
  <2> QED
    BY <2>1, <2>2
<1>6. CASE Tick \/ (\E d \in Devices : Discover(d)) \/ UNCHANGED leaseVars
  BY <1>1, <1>6 DEF Tick, Discover, leaseVars
<1>7. ASSUME NEW s \in Sessions, NEW now,
             (\E h \in Holders : Request(s, h, now)) \/ Activate(s, now)
      PROVE  RowStep(l)
  BY <1>1, <1>7 DEF Request, Activate
<1>8. ASSUME NEW x \in Leases,
             (\E h \in Holders, tok \in {leases[y].token : y \in Leases} :
                Release(x, h, tok)) \/ RevokeLease(x)
      PROVE  RowStep(l)
  BY <1>3, <1>8 DEF Release, RevokeLease, Presents
<1> QED
  BY <1>2, <1>4, <1>5, <1>6, <1>7, <1>8 DEF LeaseNext

\* What RowStep implies for the two action properties.
LEMMA RowStepKeepsFenced ==
    ASSUME LeaseTypeOK, NEW l \in Leases, RowStep(l)
    PROVE  /\ leases[l].state \in LeaseFinal => leases'[l] = leases[l]
           /\ leases[l].state = "active" =>
                 leases'[l] = [leases[l] EXCEPT !.state = leases'[l].state,
                                                !.expires = leases'[l].expires]
           /\ leases[l].state = "active" =>
                /\ leases'[l].state = "expired" => leases[l].expires.sec <= clock.sec
                /\ leases'[l].expires # leases[l].expires =>
                        clock.sec <= leases[l].expires.sec + ReadLag
<1>1. CASE leases[l].state = "active"
  <2>1. leases[l] \in Lease
    BY <1>1, GrantedLease
  <2> QED
    BY <1>1, <2>1 DEF RowStep, Lease, LeaseFinal
<1>2. CASE leases[l].state # "active"
  BY <1>2 DEF RowStep, LeaseFinal
<1> QED
  BY <1>1, <1>2

\* A lease that ended stays ended, and no token or binding ever changes.
THEOREM FencedForever == LeaseSpec => FencedStaysFenced
<1>1. LeaseInv /\ [LeaseNext]_leaseVars =>
        [\A l \in Leases :
            /\ leases[l].state \in LeaseFinal => leases'[l] = leases[l]
            /\ leases[l].state = "active" =>
                  leases'[l] = [leases[l] EXCEPT !.state = leases'[l].state,
                                                 !.expires = leases'[l].expires]
        ]_leaseVars
  BY RowSteps, RowStepKeepsFenced DEF LeaseInv
<1> QED
  BY <1>1, LeaseInvariant, PTL DEF LeaseSpec, FencedStaysFenced

\* Text comparison and stale readings never move a deadline by more than the
\* rest of its second, respectively the clock lag.
THEOREM DeadlinesToTheSecond == LeaseSpec => DeadlinesHoldToTheSecond
<1>1. LeaseInv /\ [LeaseNext]_leaseVars =>
        [\A l \in Leases : leases[l].state = "active" =>
            /\ leases'[l].state = "expired" => leases[l].expires.sec <= clock.sec
            /\ leases'[l].expires # leases[l].expires =>
                    clock.sec <= leases[l].expires.sec + ReadLag
        ]_leaseVars
  BY RowSteps, RowStepKeepsFenced DEF LeaseInv
<1> QED
  BY <1>1, LeaseInvariant, PTL DEF LeaseSpec, DeadlinesHoldToTheSecond

-----------------------------------------------------------------------------
(* The event log of a lease.                                               *)

\* What the events of a row with this state read.
EventsOf(state) ==
    CASE state = "absent" -> <<>>
      [] state = "active" -> <<"active">>
      [] OTHER -> <<"active", state>>

\* The step leaves events of l that read as its row.
Replayed(l) == leaseEvents'[l] = EventsOf(leases'[l].state)

\* An ending recorded after the grant.
LEMMA GrantThenEnding ==
    ASSUME NEW next \in LeaseFinal
    PROVE  Append(<<"active">>, next) = <<"active", next>>
<1>1. /\ <<"active">> \in Seq(LeaseStates) /\ Len(<<"active">>) = 1
      /\ <<"active", next>> \in Seq(LeaseStates) /\ Len(<<"active", next>>) = 2
      /\ next \in LeaseStates
  BY DEF LeaseStates
<1>2. /\ Append(<<"active">>, next) \in Seq(LeaseStates)
      /\ Len(Append(<<"active">>, next)) = 2
      /\ Append(<<"active">>, next)[1] = "active" /\ Append(<<"active">>, next)[2] = next
  BY <1>1
<1>3. \A i \in 1 .. 2 : Append(<<"active">>, next)[i] = <<"active", next>>[i]
  BY <1>2
<1> QED
  BY <1>1, <1>2, <1>3, SeqEqual

\* An active lease that ends gets its one ending appended.
LEMMA FinishedReplays ==
    ASSUME LeaseTypeOK, EventsReplayToRow, NEW ended \in SUBSET Leases,
           NEW next \in LeaseFinal, \A x \in ended : leases[x].state = "active",
           FinishLeases(ended, next), NEW l \in Leases
    PROVE  Replayed(l)
<1>1. leaseEvents[l] = EventsOf(leases[l].state)
  BY DEF EventsReplayToRow, EventsOf
<1>2. CASE l \notin ended
  <2>1. leases'[l] = leases[l] /\ leaseEvents'[l] = leaseEvents[l]
    BY <1>2 DEF FinishLeases, EventsAfter
  <2> QED
    BY <1>1, <2>1 DEF Replayed
<1>3. CASE l \in ended
  <2>1. leaseEvents[l] = <<"active">>
    BY <1>1, <1>3 DEF EventsOf
  <2>2. leaseEvents'[l] = Append(<<"active">>, next)
    BY <1>3, <2>1 DEF FinishLeases, EventsAfter
  <2>3. leases[l] \in Lease
    BY <1>3, GrantedLease
  <2>4. leases'[l].state = next
    BY <1>3, <2>3 DEF FinishLeases, Lease
  <2>5. next # "absent" /\ next # "active" /\ Append(<<"active">>, next) = <<"active", next>>
    BY GrantThenEnding DEF LeaseFinal
  <2> QED
    BY <2>2, <2>4, <2>5 DEF EventsOf, Replayed
<1> QED
  BY <1>2, <1>3

\* Acquire writes one ending for each lapsed lease and one grant.
LEMMA AcquireReplays ==
    ASSUME LeaseTypeOK, EventsReplayToRow, NEW x \in Leases, NEW d \in Devices,
           NEW s \in Sessions, NEW h \in Holders, NEW now \in Readings,
           Acquire(x, d, s, h, now), NEW l \in Leases
    PROVE  Replayed(l)
<1> DEFINE lapsed == Lapsed(d, now)
<1>1. leaseEvents[l] = EventsOf(leases[l].state)
  BY DEF EventsReplayToRow, EventsOf
<1>2. leaseEvents' = [EventsAfter(lapsed, "expired") EXCEPT ![x] = <<"active">>]
  BY DEF Acquire
<1>3. CASE l = x
  <2>1. leaseEvents'[l] = <<"active">>
    BY <1>2, <1>3 DEF EventsAfter
  <2>2. leases'[l].state = "active"
    BY <1>3 DEF Acquire
  <2> QED
    BY <2>1, <2>2 DEF EventsOf, Replayed
<1>4. CASE l # x /\ l \in lapsed
  <2>1. leases[l].state = "active" /\ leaseEvents[l] = <<"active">>
    BY <1>1, <1>4 DEF EventsOf, Lapsed, ActiveOn
  <2>2. leases[l] \in Lease
    BY <2>1, GrantedLease
  <2>3. leases'[l] = [leases[l] EXCEPT !.state = "expired"]
    BY <1>4 DEF Acquire
  <2>4. leaseEvents'[l] = Append(<<"active">>, "expired")
    BY <1>2, <1>4, <2>1 DEF EventsAfter
  <2>5. leases'[l].state = "expired"
    BY <2>2, <2>3 DEF Lease
  <2>6. leaseEvents'[l] = <<"active", "expired">>
    <3>1. "expired" \in LeaseFinal
      BY DEF LeaseFinal
    <3> QED
      BY <2>4, <3>1, GrantThenEnding
  <2> QED
    BY <2>5, <2>6 DEF EventsOf, Replayed
<1>5. CASE l # x /\ l \notin lapsed
  <2>1. leases'[l] = leases[l]
    BY <1>5 DEF Acquire
  <2>2. leaseEvents'[l] = leaseEvents[l]
    BY <1>2, <1>5 DEF EventsAfter
  <2> QED
    BY <1>1, <2>1, <2>2 DEF Replayed
<1> QED
  BY <1>3, <1>4, <1>5

\* Every step keeps the log of every lease in line with its row.
LEMMA ReplayStep ==
    LeaseInv /\ EventsReplayToRow /\ [LeaseNext]_leaseVars => EventsReplayToRow'
<1> SUFFICES ASSUME LeaseInv, EventsReplayToRow, [LeaseNext]_leaseVars, NEW l \in Leases
             PROVE  Replayed(l)
  BY DEF EventsReplayToRow, EventsOf, Replayed
<1>0. LeaseTypeOK /\ leaseEvents[l] = EventsOf(leases[l].state)
  BY DEF LeaseInv, EventsReplayToRow, EventsOf
<1>1. ASSUME UNCHANGED leaseEvents, leases'[l].state = leases[l].state PROVE Replayed(l)
  BY <1>0, <1>1 DEF Replayed
<1>2. ASSUME NEW s \in Sessions, Close(s) \/ RevokeSession(s) PROVE Replayed(l)
  <2>1. /\ SessionLeases(s) \in SUBSET Leases
        /\ \A x \in SessionLeases(s) : leases[x].state = "active"
    BY DEF SessionLeases
  <2>2. PICK next \in LeaseFinal : FinishLeases(SessionLeases(s), next)
    BY <1>2 DEF Close, RevokeSession, LeaseFinal
  <2> QED
    BY <1>0, <2>1, <2>2, FinishedReplays
<1>3. ASSUME NEW x \in Leases,
             (\E h \in Holders, tok \in {leases[y].token : y \in Leases} :
                Release(x, h, tok)) \/ RevokeLease(x)
      PROVE  Replayed(l)
  <2>1. leases[x].state = "active" /\ {x} \in SUBSET Leases
    BY <1>3 DEF Release, RevokeLease, Presents
  <2>2. PICK next \in LeaseFinal : FinishLeases({x}, next)
    BY <1>3 DEF Release, RevokeLease, LeaseFinal
  <2> QED
    BY <1>0, <2>1, <2>2, FinishedReplays
<1>4. ASSUME NEW x \in Leases, NEW d \in Devices, NEW s \in Sessions,
             NEW h \in Holders, NEW now \in Readings, Acquire(x, d, s, h, now)
      PROVE  Replayed(l)
  BY <1>0, <1>4, AcquireReplays
<1>5. ASSUME NEW x \in Leases, NEW h \in Holders, NEW tok,
             NEW now \in Readings, Renew(x, h, tok, now)
      PROVE  Replayed(l)
  <2>1. UNCHANGED leaseEvents
    BY <1>5 DEF Renew
  <2>2. leases' = [leases EXCEPT ![x].expires = Deadline(leases[x].session, now)]
    BY <1>5 DEF Renew
  <2>3. CASE l # x
    <3>1. leases'[l] = leases[l]
      BY <1>0, <2>2, <2>3 DEF LeaseTypeOK
    <3> QED
      BY <1>1, <2>1, <3>1
  <2>4. CASE l = x
    <3>1. leases[l] \in Lease
      BY <1>0, <1>5, <2>4, GrantedLease DEF Renew, Presents
    <3>2. leases'[l] = [leases[l] EXCEPT !.expires = Deadline(leases[l].session, now)]
      BY <1>0, <2>2, <2>4 DEF LeaseTypeOK
    <3>3. leases'[l].state = leases[l].state
      BY <3>1, <3>2 DEF Lease
    <3> QED
      BY <1>1, <2>1, <3>3
  <2> QED
    BY <2>3, <2>4
<1>6. CASE Tick \/ (\E d \in Devices : Discover(d)) \/ UNCHANGED leaseVars
  <2>1. UNCHANGED <<leases, leaseEvents>>
    BY <1>6 DEF Tick, Discover, leaseVars
  <2> QED
    BY <1>1, <2>1
<1>7. ASSUME NEW s \in Sessions, NEW now,
             (\E h \in Holders : Request(s, h, now)) \/ Activate(s, now)
      PROVE  Replayed(l)
  <2>1. UNCHANGED <<leases, leaseEvents>>
    BY <1>7 DEF Request, Activate
  <2> QED
    BY <1>1, <2>1
<1> QED
  BY <1>2, <1>3, <1>4, <1>5, <1>6, <1>7 DEF LeaseNext

\* The log of a lease replays to its row: one grant and, once the lease ended,
\* one ending, whichever of the five paths ended it.
THEOREM LogReplaysToRow == LeaseSpec => []EventsReplayToRow
<1>1. LeaseInit => EventsReplayToRow
  BY DEF LeaseInit, EventsReplayToRow, NoLease
<1> QED
  BY <1>1, ReplayStep, LeaseInvariant, PTL DEF LeaseSpec


-----------------------------------------------------------------------------
(* Taking over an abandoned device: every condition of Acquire that the    *)
(* caller does not bring along holds.                                      *)

\* A leased device is known, and Acquire finds a number for its next lease.
LeasedDeviceKnown ==
    \A l \in Leases : leases[l].state # "absent" =>
        deviceState[leases[l].device] \notin {"absent", "retired"}
HasNextToken(d) ==
    \E tok \in {1} \cup {leases[x].token + 1 : x \in Leases} : IsNextToken(d, tok)
TakeoverInv == LeasedDeviceKnown /\ \A d \in Devices : HasNextToken(d)

\* Past the second of the deadline nobody is refused the device, neither for its
\* row, nor for the lease that is still active, nor for want of a token.
AbandonedDeviceFree ==
    \A l \in Leases :
        leases[l].state = "active" /\ leases[l].expires.sec < clock.sec
        => /\ clock \in Readings
           /\ deviceState[leases[l].device] \notin {"absent", "retired"}
           /\ ActiveOn(leases[l].device) \subseteq Lapsed(leases[l].device, clock)
           /\ HasNextToken(leases[l].device)

\* Rows that are neither granted nor rebound leave the numbering as it is.
LEMMA SameNumbering ==
    ASSUME \A x \in Leases : /\ leases'[x].device = leases[x].device
                             /\ leases'[x].token = leases[x].token
                             /\ leases'[x].state = "absent" <=> leases[x].state = "absent",
           TakeoverInv,
           \A d \in Devices : deviceState[d] \notin {"absent", "retired"} =>
                                deviceState'[d] = deviceState[d],
           LeaseTypeOK
    PROVE  TakeoverInv'
<1>1. LeasedDeviceKnown'
  <2> SUFFICES ASSUME NEW l \in Leases, leases'[l].state # "absent"
               PROVE  deviceState'[leases'[l].device] \notin {"absent", "retired"}
    BY DEF LeasedDeviceKnown
  <2>1. leases[l].device \in Devices
    BY GrantedLease DEF Lease
  <2> QED
    BY <2>1 DEF TakeoverInv, LeasedDeviceKnown
<1>2. ASSUME NEW d \in Devices PROVE HasNextToken(d)'
  <2>1. PICK tok \in {1} \cup {leases[x].token + 1 : x \in Leases} : IsNextToken(d, tok)
    BY DEF TakeoverInv, HasNextToken
  <2>2. tok \in {1} \cup {leases'[x].token + 1 : x \in Leases}
    OBVIOUS
  <2>3. LeasesOn(d)' = LeasesOn(d) /\ \A x \in LeasesOn(d) : x \in Leases
    BY DEF LeasesOn
  <2>4. /\ \A x \in LeasesOn(d)' : leases'[x].token < tok
        /\ tok = 1 \/ \E x \in LeasesOn(d)' : tok = leases'[x].token + 1
    BY <2>1, <2>3 DEF IsNextToken
  <2> QED
    BY <2>2, <2>4 DEF HasNextToken, IsNextToken
<1> QED
  BY <1>1, <1>2 DEF TakeoverInv

\* The lease Acquire grants has the highest number, so the one after it is free.
LEMMA AcquireTakeover ==
    ASSUME LeaseInv, TakeoverInv, NEW l \in Leases, NEW d \in Devices, NEW s \in Sessions,
           NEW h \in Holders, NEW now \in Readings, Acquire(l, d, s, h, now)
    PROVE  TakeoverInv'
<1>0. LeaseTypeOK
  BY DEF LeaseInv
<1>1. /\ leases[l].state = "absent" /\ deviceState[d] \notin {"absent", "retired"}
      /\ UNCHANGED deviceState
  BY DEF Acquire
<1>2. PICK tok \in {1} \cup {leases[x].token + 1 : x \in Leases} :
        /\ IsNextToken(d, tok)
        /\ leases' = [x \in Leases |->
                IF x = l THEN [state |-> "active", device |-> d, session |-> s,
                               holder |-> h, token |-> tok,
                               expires |-> Deadline(s, now)]
                ELSE IF x \in Lapsed(d, now) THEN [leases[x] EXCEPT !.state = "expired"]
                ELSE leases[x]]
  BY DEF Acquire
<1>3. tok \in Nat
  BY <1>0 DEF LeaseTypeOK, Lease, NoLease
<1>4. leases'[l].state = "active" /\ leases'[l].device = d /\ leases'[l].token = tok
  BY <1>2
<1>5. ASSUME NEW x \in Leases \ {l}
      PROVE  /\ leases'[x].device = leases[x].device
             /\ leases'[x].token = leases[x].token
             /\ leases'[x].state = "absent" <=> leases[x].state = "absent"
  <2>1. CASE x \in Lapsed(d, now)
    <3>1. leases[x] \in Lease /\ leases[x].state = "active"
      BY <1>0, <2>1, GrantedLease DEF Lapsed, ActiveOn
    <3>2. leases'[x] = [leases[x] EXCEPT !.state = "expired"]
      BY <1>2, <2>1
    <3> QED
      BY <3>1, <3>2 DEF Lease
  <2>2. CASE x \notin Lapsed(d, now)
    BY <1>2, <2>2
  <2> QED
    BY <2>1, <2>2
<1>6. LeasedDeviceKnown'
  BY <1>1, <1>4, <1>5 DEF TakeoverInv, LeasedDeviceKnown
<1>7. LeasesOn(d)' = LeasesOn(d) \cup {l}
  BY <1>4, <1>5 DEF LeasesOn
<1>8. HasNextToken(d)'
  <2>1. ASSUME NEW x \in LeasesOn(d)' PROVE leases'[x].token < tok + 1
    <3>1. CASE x = l
      BY <1>3, <1>4, <3>1
    <3>2. CASE x # l
      <4>1. x \in LeasesOn(d) /\ x \in Leases
        BY <1>7, <3>2 DEF LeasesOn
      <4>2. leases[x].token < tok /\ leases'[x].token = leases[x].token
        BY <1>2, <1>5, <3>2, <4>1 DEF IsNextToken
      <4>3. leases[x].token \in Nat
        BY <1>0, <4>1 DEF LeaseTypeOK, Lease, NoLease
      <4> QED
        BY <1>3, <4>2, <4>3
    <3> QED
      BY <3>1, <3>2
  <2>2. l \in LeasesOn(d)' /\ tok + 1 = leases'[l].token + 1
    BY <1>4, <1>7
  <2>3. tok + 1 \in {1} \cup {leases'[x].token + 1 : x \in Leases}
    BY <2>2
  <2>4. IsNextToken(d, tok + 1)'
    BY <2>1, <2>2 DEF IsNextToken
  <2> QED
    BY <2>3, <2>4 DEF HasNextToken
<1>9. ASSUME NEW e \in Devices, e # d PROVE HasNextToken(e)'
  <2>1. PICK t \in {1} \cup {leases[x].token + 1 : x \in Leases} : IsNextToken(e, t)
    BY DEF TakeoverInv, HasNextToken
  <2>2. LeasesOn(e)' = LeasesOn(e) /\ \A x \in LeasesOn(e) : x \in Leases \ {l}
    BY <1>1, <1>4, <1>5, <1>9 DEF LeasesOn
  <2>3. /\ \A x \in LeasesOn(e)' : leases'[x].token < t
        /\ t = 1 \/ \E x \in LeasesOn(e)' : t = leases'[x].token + 1
    BY <1>5, <2>1, <2>2 DEF IsNextToken
  <2>4. t \in {1} \cup {leases'[x].token + 1 : x \in Leases}
    BY <2>2, <2>3
  <2> QED
    BY <2>3, <2>4 DEF HasNextToken, IsNextToken
<1> QED
  BY <1>6, <1>8, <1>9 DEF TakeoverInv

\* Ending or renewing a lease rebinds nothing.
LEMMA EndedOrRenewed ==
    ASSUME LeaseTypeOK, NEW x \in Leases, leases[x].state = "active",
           \/ \E next \in LeaseFinal : leases'[x] = [leases[x] EXCEPT !.state = next]
           \/ \E e : leases'[x] = [leases[x] EXCEPT !.expires = e]
    PROVE  /\ leases'[x].device = leases[x].device
           /\ leases'[x].token = leases[x].token
           /\ leases'[x].state = "absent" <=> leases[x].state = "absent"
<1>1. leases[x] \in Lease
  BY GrantedLease
<1> QED
  BY <1>1 DEF Lease, LeaseFinal

\* Every step keeps leased devices known and a number free.
LEMMA TakeoverStep == LeaseInv /\ TakeoverInv /\ [LeaseNext]_leaseVars => TakeoverInv'
<1> SUFFICES ASSUME LeaseInv, TakeoverInv, [LeaseNext]_leaseVars PROVE TakeoverInv'
  OBVIOUS
<1>0. LeaseTypeOK
  BY DEF LeaseInv
<1>1. ASSUME UNCHANGED leases,
             \A d \in Devices : deviceState[d] \notin {"absent", "retired"} =>
                                    deviceState'[d] = deviceState[d]
      PROVE  TakeoverInv'
  BY <1>0, <1>1, SameNumbering
<1>2. ASSUME NEW ended \in SUBSET Leases, NEW next \in LeaseFinal, FinishLeases(ended, next),
             \A x \in ended : leases[x].state = "active", UNCHANGED deviceState
      PROVE  TakeoverInv'
  <2>1. ASSUME NEW x \in Leases
        PROVE  /\ leases'[x].device = leases[x].device
               /\ leases'[x].token = leases[x].token
               /\ leases'[x].state = "absent" <=> leases[x].state = "absent"
    <3>1. CASE leases'[x] = leases[x]
      BY <3>1
    <3>2. CASE leases[x].state = "active" /\ leases'[x] = [leases[x] EXCEPT !.state = next]
      BY <1>0, <3>2, EndedOrRenewed
    <3> QED
      BY <1>2, <3>1, <3>2, FinishRow
  <2> QED
    BY <1>0, <1>2, <2>1, SameNumbering
<1>3. ASSUME NEW s \in Sessions, Close(s) \/ RevokeSession(s) PROVE TakeoverInv'
  <2>1. /\ SessionLeases(s) \in SUBSET Leases
        /\ \A x \in SessionLeases(s) : leases[x].state = "active"
    BY DEF SessionLeases
  <2>2. /\ \E next \in LeaseFinal : FinishLeases(SessionLeases(s), next)
        /\ UNCHANGED deviceState
    BY <1>3 DEF Close, RevokeSession, LeaseFinal
  <2> QED
    BY <1>2, <2>1, <2>2
<1>4. ASSUME NEW x \in Leases,
             (\E h \in Holders, tok \in {leases[y].token : y \in Leases} :
                Release(x, h, tok)) \/ RevokeLease(x)
      PROVE  TakeoverInv'
  <2>1. leases[x].state = "active" /\ {x} \in SUBSET Leases
    BY <1>4 DEF Release, RevokeLease, Presents
  <2>2. (\E next \in LeaseFinal : FinishLeases({x}, next)) /\ UNCHANGED deviceState
    BY <1>4 DEF Release, RevokeLease, LeaseFinal
  <2> QED
    BY <1>2, <2>1, <2>2
<1>5. ASSUME NEW x \in Leases, NEW d \in Devices, NEW s \in Sessions,
             NEW h \in Holders, NEW now \in Readings, Acquire(x, d, s, h, now)
      PROVE  TakeoverInv'
  BY <1>5, AcquireTakeover
<1>6. ASSUME NEW x \in Leases, NEW h \in Holders, NEW tok,
             NEW now \in Readings, Renew(x, h, tok, now)
      PROVE  TakeoverInv'
  <2>1. /\ leases[x].state = "active" /\ UNCHANGED deviceState
        /\ leases' = [leases EXCEPT ![x].expires = Deadline(leases[x].session, now)]
    BY <1>6 DEF Renew, Presents
  <2>2. leases'[x] = [leases[x] EXCEPT !.expires = Deadline(leases[x].session, now)]
    BY <1>0, <2>1 DEF LeaseTypeOK
  <2>3. \A y \in Leases \ {x} : leases'[y] = leases[y]
    BY <1>0, <2>1 DEF LeaseTypeOK
  <2>4. /\ leases'[x].device = leases[x].device
        /\ leases'[x].token = leases[x].token
        /\ leases'[x].state = "absent" <=> leases[x].state = "absent"
    BY <1>0, <2>1, <2>2, EndedOrRenewed
  <2>5. \A y \in Leases : /\ leases'[y].device = leases[y].device
                          /\ leases'[y].token = leases[y].token
                          /\ leases'[y].state = "absent" <=> leases[y].state = "absent"
    BY <2>3, <2>4
  <2> QED
    BY <1>0, <2>1, <2>5, SameNumbering
<1>7. CASE Tick \/ (\E d \in Devices : Discover(d)) \/ UNCHANGED leaseVars
  BY <1>0, <1>1, <1>7 DEF Tick, Discover, leaseVars, LeaseTypeOK
<1>8. ASSUME NEW s \in Sessions, NEW now,
             (\E h \in Holders : Request(s, h, now)) \/ Activate(s, now)
      PROVE  TakeoverInv'
  BY <1>1, <1>8 DEF Request, Activate
<1> HIDE DEF TakeoverInv
<1> QED
  BY <1>3, <1>4, <1>5, <1>6, <1>7, <1>8 DEF LeaseNext

\* The invariants give every condition of a takeover.
LEMMA TakeoverConditions ==
    ASSUME LeaseInv, TakeoverInv
    PROVE  AbandonedDeviceFree
<1> SUFFICES ASSUME NEW l \in Leases,
                    leases[l].state = "active", leases[l].expires.sec < clock.sec
             PROVE  /\ clock \in Readings
                    /\ deviceState[leases[l].device] \notin {"absent", "retired"}
                    /\ ActiveOn(leases[l].device) \subseteq Lapsed(leases[l].device, clock)
                    /\ HasNextToken(leases[l].device)
  BY DEF AbandonedDeviceFree
<1>1. LeaseTypeOK /\ FenceDominates
  BY DEF LeaseInv
<1>2. leases[l] \in Lease /\ leases[l].device \in Devices /\ leases[l].expires \in Instant
  BY <1>1, GrantedLease DEF Lease
<1>3. clock \in Instant
  BY <1>1 DEF LeaseTypeOK
<1>4. clock \in Readings
  <2>1. clock \in [sec : 0 .. clock.sec, frac : 0 .. Resolution - 1]
    BY <1>3, ResolutionAssumption DEF Instant
  <2>2. ~ Before(clock, clock) /\ ~ Before(AddSeconds(clock, ReadLag), clock)
    BY <1>3, LeaseAuthorityAssumption DEF Before, AddSeconds, Instant
  <2> QED
    BY <2>1, <2>2 DEF Readings
<1>5. ASSUME NEW x \in ActiveOn(leases[l].device) PROVE x \in Lapsed(leases[l].device, clock)
  <2>1. x = l
    <3>1. x \in Leases /\ leases[x].state = "active" /\ leases[x].device = leases[l].device
      BY DEF ActiveOn
    <3>2. leases[x].token \in Nat /\ leases[l].token \in Nat
      BY <1>1, <3>1, GrantedLease DEF Lease
    <3>3. x # l => leases[x].token < leases[l].token /\ leases[l].token < leases[x].token
      BY <1>1, <3>1 DEF FenceDominates
    <3> QED
      BY <3>2, <3>3
  <2>2. ~ TextBefore(clock, leases[l].expires)
    <3>1. TextBefore(clock, leases[l].expires) => clock.sec <= leases[l].expires.sec
      BY <1>2, <1>3, TextOrderRespectsSeconds
    <3> QED
      BY <1>2, <1>3, <3>1 DEF Instant
  <2> QED
    BY <2>1, <2>2 DEF Lapsed
<1>6. deviceState[leases[l].device] \notin {"absent", "retired"}
  BY DEF TakeoverInv, LeasedDeviceKnown
<1>7. HasNextToken(leases[l].device)
  BY <1>2 DEF TakeoverInv
<1> QED
  BY <1>4, <1>5, <1>6, <1>7

\* A device whose holder went away is free once the second of the deadline has
\* passed: of the conditions of Acquire only those on the caller's own session and
\* on a free row are left, and an up-to-date clock reading meets the others.
THEOREM AbandonedDeviceIsFree == LeaseSpec => []AbandonedDeviceFree
<1>1. LeaseInit => TakeoverInv
  <2> SUFFICES ASSUME LeaseInit PROVE TakeoverInv
    OBVIOUS
  <2>1. \A l \in Leases : leases[l].state = "absent"
    BY DEF LeaseInit, NoLease
  <2>2. \A d \in Devices : IsNextToken(d, 1)
    BY <2>1 DEF IsNextToken, LeasesOn
  <2> QED
    BY <2>1, <2>2 DEF TakeoverInv, LeasedDeviceKnown, HasNextToken
<1> QED
  BY <1>1, TakeoverStep, TakeoverConditions, LeaseInvariant, PTL DEF LeaseSpec

=============================================================================
