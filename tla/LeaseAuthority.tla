--------------------------- MODULE LeaseAuthority ---------------------------
(***************************************************************************)
(* Control sessions and fenced device leases: SessionService and           *)
(* LeaseService of internal/store/sqlite/control.go, for one workspace.    *)
(*                                                                         *)
(* Every operation is one SQLite write transaction, so it is one action.   *)
(* What is not atomic is the clock: an operation reads it before it waits  *)
(* for the write reservation, so the transaction may run with a reading    *)
(* that is ReadLag seconds old.  Operations that refuse roll back and are  *)
(* the states in which their action is not enabled.                        *)
(***************************************************************************)
EXTENDS Instants, Sequences, FiniteSets

CONSTANTS
    Devices, Holders,
    Sessions, Leases,   \* the row identifiers the ID generator may hand out
    None,               \* the value of a column of a row that is not there
    SessionTTL,         \* seconds
    LeaseTTL,           \* seconds
    ReadLag,            \* seconds a clock reading may be old at commit
    Horizon             \* bound: the last second of the clock

ASSUME LeaseAuthorityAssumption ==
    /\ SessionTTL \in Nat /\ SessionTTL > 0
    /\ LeaseTTL \in Nat /\ LeaseTTL > 0
    /\ ReadLag \in Nat
    /\ Horizon \in Nat

VARIABLES
    clock,              \* wall clock
    deviceState,        \* devices.state
    sessions,           \* control_sessions
    leases,             \* device_leases
    leaseEvents         \* lease_events, per lease, in order

leaseVars == <<clock, deviceState, sessions, leases, leaseEvents>>

DeviceStates  == {"absent", "registered", "active", "unavailable", "retired"}
SessionStates == {"requested", "active", "closing", "closed", "expired", "revoked"}
LeaseFinal    == {"released", "expired", "revoked"}
LeaseStates   == {"active"} \cup LeaseFinal

NoSession == [state |-> "absent", holder |-> None, expires |-> Zero]
NoLease   == [state |-> "absent", device |-> None, session |-> None,
              holder |-> None, token |-> 0, expires |-> Zero]

Session == [state : SessionStates, holder : Holders, expires : Instant]
Lease   == [state : LeaseStates, device : Devices, session : Sessions,
            holder : Holders, token : Nat \ {0}, expires : Instant]

-----------------------------------------------------------------------------
(* The clock readings a transaction that commits now may have been given.  *)

Readings == {t \in [sec : 0 .. clock.sec, frac : 0 .. Resolution - 1] :
                /\ ~ Before(clock, t)
                /\ ~ Before(AddSeconds(t, ReadLag), clock)}

LeasesOn(d) == {l \in Leases : leases[l].state # "absent" /\ leases[l].device = d}

ActiveOn(d) == {l \in Leases : leases[l].state = "active" /\ leases[l].device = d}

\* Mutants of Lapsed: every active row counts as lapsed; none does.
LapsedIgnoringDeadline(d, now) == ActiveOn(d)
LapsedNever(d, now) == {}

\* expireActiveLeasesTx: the rows with state='active' AND expires_at<=now, as text.
Lapsed(d, now) == {l \in ActiveOn(d) : ~ TextBefore(now, leases[l].expires)}

\* finishSessionLeasesTx: the active leases of a session.
SessionLeases(s) ==
    {l \in Leases : leases[l].state = "active" /\ leases[l].session = s}

\* Mutant of IsNextToken: the maximum is taken over active rows only.
IsNextTokenOfActive(d, tok) ==
    /\ \A l \in ActiveOn(d) : leases[l].token < tok
    /\ tok = 1 \/ \E l \in ActiveOn(d) : tok = leases[l].token + 1

\* COALESCE(MAX(fencing_token), 0) + 1 over all rows of the device.
IsNextToken(d, tok) ==
    /\ \A l \in LeasesOn(d) : leases[l].token < tok
    /\ tok = 1 \/ \E l \in LeasesOn(d) : tok = leases[l].token + 1

\* Mutant of Deadline: the session's deadline does not bound the lease's.
DeadlineUnclamped(s, now) == AddSeconds(now, LeaseTTL)

Deadline(s, now) == Clamp(AddSeconds(now, LeaseTTL), sessions[s].expires)

\* Mutant of EventsAfter: the transition is not recorded.
EventsAfterDropped(ended, next) == leaseEvents

\* recordLeaseEventTx for each lease a transaction finishes.
EventsAfter(ended, next) ==
    [l \in Leases |-> IF l \in ended THEN Append(leaseEvents[l], next)
                                     ELSE leaseEvents[l]]

\* Finish the leases of a set, with their events.
FinishLeases(ended, next) ==
    /\ leases' = [l \in Leases |-> IF l \in ended
                                   THEN [leases[l] EXCEPT !.state = next]
                                   ELSE leases[l]]
    /\ leaseEvents' = EventsAfter(ended, next)

-----------------------------------------------------------------------------
(* The environment: time passes; discovery inserts a device row.           *)

Tick == /\ clock.sec < Horizon
        /\ clock' = Successor(clock)
        /\ UNCHANGED <<deviceState, sessions, leases, leaseEvents>>

Discover(d) ==
    /\ deviceState[d] = "absent"
    /\ deviceState' = [deviceState EXCEPT ![d] = "active"]
    /\ UNCHANGED <<clock, sessions, leases, leaseEvents>>

-----------------------------------------------------------------------------
(* SessionService.                                                         *)

Request(s, h, now) ==
    /\ sessions[s].state = "absent"
    /\ sessions' = [sessions EXCEPT ![s] =
            [state |-> "requested", holder |-> h,
             expires |-> AddSeconds(now, SessionTTL)]]
    /\ UNCHANGED <<clock, deviceState, leases, leaseEvents>>

\* The UPDATE repeats the deadline test on the text and its row count is not
\* checked: when only the text test fails, the row stays requested.
Activate(s, now) ==
    /\ sessions[s].state = "requested"
    /\ Before(now, sessions[s].expires)
    /\ TextBefore(now, sessions[s].expires)
    /\ sessions' = [sessions EXCEPT ![s].state = "active"]
    /\ UNCHANGED <<clock, deviceState, leases, leaseEvents>>

\* Mutant of Close: the state of the session is written into its leases.
CloseWithSessionState(s) ==
    /\ sessions[s].state \in {"active", "closing"}
    /\ sessions' = [sessions EXCEPT ![s].state = "closed"]
    /\ FinishLeases(SessionLeases(s), "closed")
    /\ UNCHANGED <<clock, deviceState>>

Close(s) ==
    /\ sessions[s].state \in {"active", "closing"}
    /\ sessions' = [sessions EXCEPT ![s].state = "closed"]
    /\ FinishLeases(SessionLeases(s), "released")
    /\ UNCHANGED <<clock, deviceState>>

RevokeSession(s) ==
    /\ sessions[s].state \in {"requested", "active", "closing"}
    /\ sessions' = [sessions EXCEPT ![s].state = "revoked"]
    /\ FinishLeases(SessionLeases(s), "revoked")
    /\ UNCHANGED <<clock, deviceState>>

-----------------------------------------------------------------------------
(* LeaseService.                                                           *)

\* Lapsed leases are fenced off, then the row is inserted; a lease that is left
\* active makes the insert fail on device_leases_one_active_idx and the
\* transaction roll back.
Acquire(l, d, s, h, now) ==
    /\ leases[l].state = "absent"
    /\ sessions[s].state = "active" /\ sessions[s].holder = h
    /\ Before(now, sessions[s].expires)
    /\ deviceState[d] \notin {"absent", "retired"}
    /\ ActiveOn(d) \subseteq Lapsed(d, now)
    /\ \E tok \in {1} \cup {leases[x].token + 1 : x \in Leases} :
        /\ IsNextToken(d, tok)
        /\ leases' = [x \in Leases |->
                IF x = l THEN [state |-> "active", device |-> d, session |-> s,
                               holder |-> h, token |-> tok,
                               expires |-> Deadline(s, now)]
                ELSE IF x \in Lapsed(d, now) THEN [leases[x] EXCEPT !.state = "expired"]
                ELSE leases[x]]
    /\ leaseEvents' = [EventsAfter(Lapsed(d, now), "expired") EXCEPT ![l] = <<"active">>]
    /\ UNCHANGED <<clock, deviceState, sessions>>

\* The holder and token a caller presents, tested by the UPDATEs of renew and finish.
Presents(l, h, tok) ==
    /\ leases[l].state = "active"
    /\ leases[l].holder = h
    /\ leases[l].token = tok

\* expires_at>now in the renewing UPDATE, as text.
Renewable(l, now) == TextBefore(now, leases[l].expires)

Renew(l, h, tok, now) ==
    LET s == leases[l].session IN
    /\ Presents(l, h, tok)
    /\ sessions[s].state = "active"
    /\ Before(now, sessions[s].expires)
    /\ Renewable(l, now)
    /\ leases' = [leases EXCEPT ![l].expires = Deadline(s, now)]
    /\ UNCHANGED <<clock, deviceState, sessions, leaseEvents>>

Release(l, h, tok) ==
    /\ Presents(l, h, tok)
    /\ FinishLeases({l}, "released")
    /\ UNCHANGED <<clock, deviceState, sessions>>

\* Mutant of RevokeLease: a lease that is not active is revoked again.
RevokeLeaseTwice(l) ==
    /\ leases[l].state # "absent"
    /\ FinishLeases({l}, "revoked")
    /\ UNCHANGED <<clock, deviceState, sessions>>

RevokeLease(l) ==
    /\ leases[l].state = "active"
    /\ FinishLeases({l}, "revoked")
    /\ UNCHANGED <<clock, deviceState, sessions>>

-----------------------------------------------------------------------------
LeaseInit ==
    /\ clock = Zero
    /\ deviceState = [d \in Devices |-> "absent"]
    /\ sessions = [s \in Sessions |-> NoSession]
    /\ leases = [l \in Leases |-> NoLease]
    /\ leaseEvents = [l \in Leases |-> <<>>]

LeaseNext ==
    \/ Tick
    \/ \E d \in Devices : Discover(d)
    \/ \E s \in Sessions :
        \/ \E h \in Holders, now \in Readings : Request(s, h, now)
        \/ \E now \in Readings : Activate(s, now)
        \/ Close(s)
        \/ RevokeSession(s)
    \/ \E l \in Leases :
        \/ \E d \in Devices, s \in Sessions, h \in Holders, now \in Readings :
                Acquire(l, d, s, h, now)
        \/ \E h \in Holders, tok \in {leases[x].token : x \in Leases} :
            \/ \E now \in Readings : Renew(l, h, tok, now)
            \/ Release(l, h, tok)
        \/ RevokeLease(l)

LeaseSpec == LeaseInit /\ [][LeaseNext]_leaseVars

-----------------------------------------------------------------------------
(* Properties.                                                             *)

\* Every row is one the services could have written.
LeaseTypeOK ==
    /\ clock \in Instant
    /\ deviceState \in [Devices -> DeviceStates]
    /\ sessions \in [Sessions -> Session \cup {NoSession}]
    /\ leases \in [Leases -> Lease \cup {NoLease}]
    /\ leaseEvents \in [Leases -> Seq(LeaseStates)]

\* Fencing: the active lease of a device carries a token strictly above that
\* of every other lease the device ever had (Acquire's MAX+1 under the unique
\* index, with expiry, release, revocation and session closing in between).
\* So two leases of a device are never active at once, and a holder that was
\* fenced off never presents the highest token.
FenceDominates ==
    \A l, x \in Leases :
        /\ leases[l].state = "active"
        /\ x # l
        /\ leases[x].state # "absent"
        /\ leases[x].device = leases[l].device
        => leases[x].token < leases[l].token

\* An active lease lives inside an active session of the same holder and never
\* outlasts it: closing or revoking the session ends its leases in the same
\* transaction, and acquire and renew clamp the deadline.
LeaseWithinSession ==
    \A l \in Leases :
        leases[l].state = "active" =>
            LET s == leases[l].session IN
            /\ sessions[s].state = "active"
            /\ sessions[s].holder = leases[l].holder
            /\ ~ Before(sessions[s].expires, leases[l].expires)

\* lease_events replays to the row: a lease that was granted has exactly one
\* grant event and, once ended, exactly one ending, whichever path ended it.
EventsReplayToRow ==
    \A l \in Leases :
        leaseEvents[l] =
            CASE leases[l].state = "absent" -> <<>>
              [] leases[l].state = "active" -> <<"active">>
              [] OTHER -> <<"active", leases[l].state>>

\* A lease that ended stays ended and is never rewritten, and the token and
\* binding of a granted lease never change: an expired or revoked holder
\* cannot come back through renew, release or a second acquire.
FencedStaysFenced ==
    [][\A l \in Leases :
        /\ leases[l].state \in LeaseFinal => leases'[l] = leases[l]
        /\ leases[l].state = "active" =>
              leases'[l] = [leases[l] EXCEPT !.state = leases'[l].state,
                                             !.expires = leases'[l].expires]
      ]_leaseVars

\* Deadlines hold to the second, in spite of the text comparison and of stale
\* readings: Acquire expires a lease only in or after the second of its
\* deadline, and Renew extends one only if some reading the caller may have
\* taken lies in or before that second.
DeadlinesHoldToTheSecond ==
    [][\A l \in Leases : leases[l].state = "active" =>
        /\ leases'[l].state = "expired" => leases[l].expires.sec <= clock.sec
        /\ leases'[l].expires # leases[l].expires =>
                clock.sec <= leases[l].expires.sec + ReadLag
      ]_leaseVars

\* A device whose holder went away can be taken over: past the second of the
\* deadline, any live session can acquire it without waiting for a release.
AbandonedDeviceRecoverable ==
    \A l, x \in Leases, s \in Sessions :
        /\ leases[l].state = "active" /\ leases[l].expires.sec < clock.sec
        /\ leases[x].state = "absent"
        /\ sessions[s].state = "active" /\ Before(clock, sessions[s].expires)
        => ENABLED Acquire(x, leases[l].device, s, sessions[s].holder, clock)

\* The refinement mapping: every lease row ever written is a grant, an active
\* row is a live one.
GrantOf(l) == [device |-> leases[l].device, holder |-> leases[l].holder,
               token |-> leases[l].token]
GrantedLeases == {l \in Leases : leases[l].state # "absent"}
ActiveLeases  == {l \in Leases : leases[l].state = "active"}

Fenced == INSTANCE FencedDevice
            WITH granted <- {GrantOf(l) : l \in GrantedLeases},
                 live    <- {GrantOf(l) : l \in ActiveLeases}

\* Sessions, deadlines, sweeps and stale clock readings together implement
\* numbered grants: no transaction of the two services hands out a number
\* twice or out of order, leaves an earlier grant live beside a new one, or
\* brings an ended grant back.
ImplementsFencedDevice == Fenced!FencedSpec

=============================================================================
