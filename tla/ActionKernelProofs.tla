------------------------- MODULE ActionKernelProofs -------------------------
(***************************************************************************)
(* Theorems about ActionKernel, for every set of attempts, keys, leases,   *)
(* sessions, devices and holders, and every clock lag.                     *)
(***************************************************************************)
EXTENDS ActionKernel, LeaseRefinementProofs

\* The inductive invariant.  Fencing of attempts rests on the lease invariant
\* and on the binding of an attempt to a granted lease; the emergency stop and
\* the idempotency table are inductive beside it.
KernelInv ==
    /\ LeaseInv
    /\ KernelTypeOK
    /\ HaltDrains
    /\ BoundToGrantedLease
    /\ KeyTellsAttempt
    /\ SuccessHasEvidence

\* An attempt row that is not absent is a full attempt row.
LEMMA MadeAttempt ==
    ASSUME KernelTypeOK, NEW a \in Attempts, attempts[a].state # "absent"
    PROVE  attempts[a] \in Attempt
BY DEF KernelTypeOK, NoAttempt

\* The states in which an attempt may be finished: finishAttemptTx's guard.
Open == InFlight \cup {"indeterminate"}

\* finishAttemptTx on a set of open attempts keeps everything but the halt.
LEMMA FinishKeepsInv ==
    ASSUME KernelInv, NEW done \in SUBSET Attempts,
           \A a \in done : attempts[a].state \in Open,
           NEW st \in Decided \cup {"indeterminate"}, NEW post \in Posts,
           st = "verified" <=> post = "passed",
           st \in {"verified", "indeterminate"} => \A a \in done : attempts[a].sent,
           Finish(done, st, post), UNCHANGED leaseVars,
           halt' \in {"clear", "emergency_stop"}
    PROVE  /\ LeaseInv' /\ KernelTypeOK' /\ BoundToGrantedLease'
           /\ KeyTellsAttempt' /\ SuccessHasEvidence'
<1>0. /\ LeaseInv /\ KernelTypeOK /\ BoundToGrantedLease
      /\ KeyTellsAttempt /\ SuccessHasEvidence
  BY DEF KernelInv
<1>1. LeaseInv'
  BY <1>0, LeaseNextInv
<1>2. ASSUME NEW a \in Attempts
      PROVE  /\ attempts'[a] \in Attempt \cup {NoAttempt}
             /\ attempts'[a].key = attempts[a].key
             /\ attempts'[a].device = attempts[a].device
             /\ attempts'[a].lease = attempts[a].lease
             /\ attempts'[a].token = attempts[a].token
             /\ attempts'[a].sent = attempts[a].sent
             /\ a \in done => attempts'[a].state = st /\ attempts'[a].post = post
             /\ a \notin done => attempts'[a] = attempts[a]
             /\ attempts'[a].state = "absent" <=> attempts[a].state = "absent"
  <2>1. CASE a \in done
    <3>1. attempts[a] \in Attempt
      BY <1>0, <2>1, MadeAttempt DEF Open, InFlight
    <3>2. attempts'[a] = [attempts[a] EXCEPT !.state = st, !.post = post]
      BY <2>1 DEF Finish
    <3> QED
      BY <2>1, <3>1, <3>2 DEF Attempt, Open, InFlight, Decided
  <2>2. CASE a \notin done
    BY <1>0, <2>2 DEF Finish, KernelTypeOK
  <2> QED
    BY <2>1, <2>2
<1>3. ASSUME NEW k \in Keys
      PROVE  /\ (\E a \in done : attempts[a].key = k) => keyOutcome'[k] = OutcomeOf(st)
             /\ ~ (\E a \in done : attempts[a].key = k) => keyOutcome'[k] = keyOutcome[k]
             /\ keyOutcome'[k] \in KeyOutcomes
  <2>1. OutcomeOf(st) \in KeyOutcomes
    BY DEF OutcomeOf, KeyOutcomes, Decided
  <2> QED
    BY <1>0, <2>1 DEF Finish, KernelTypeOK
<1>4. KernelTypeOK'
  <2>1. attempts' \in [Attempts -> Attempt \cup {NoAttempt}]
    BY <1>2 DEF Finish
  <2>2. keyOutcome' \in [Keys -> KeyOutcomes]
    BY <1>3 DEF Finish
  <2> QED
    BY <2>1, <2>2 DEF KernelTypeOK
<1>5. BoundToGrantedLease'
  <2>1. leases' = leases
    BY DEF leaseVars
  <2> QED
    BY <1>0, <1>2, <2>1 DEF BoundToGrantedLease
<1>6. KeyTellsAttempt'
  <2>1. OutcomeOf(st) # "free" /\ OutcomeOf(st) # "reserved"
    BY DEF OutcomeOf, Decided
  <2>2. ASSUME NEW k \in Keys
        PROVE  keyOutcome'[k] = "free" <=> \A a \in Attempts : attempts'[a].key # k
    BY <1>0, <1>2, <1>3, <2>1 DEF KeyTellsAttempt
  <2>3. ASSUME NEW a \in Attempts, attempts'[a].state # "absent"
        PROVE  /\ keyOutcome'[attempts'[a].key] =
                      IF attempts'[a].state \in InFlight THEN "reserved"
                      ELSE OutcomeOf(attempts'[a].state)
               /\ \A b \in Attempts \ {a} : attempts'[b].key # attempts'[a].key
    <3>1. attempts[a].state # "absent" /\ attempts[a].key \in Keys
      BY <1>0, <1>2, <2>3, MadeAttempt DEF Attempt
    <3>2. \A b \in Attempts \ {a} : attempts[b].key # attempts[a].key
      BY <1>0, <3>1 DEF KeyTellsAttempt
    <3>3. CASE a \in done
      <4>1. keyOutcome'[attempts[a].key] = OutcomeOf(st) /\ attempts'[a].state = st
        BY <1>2, <1>3, <3>1, <3>3
      <4>2. st \notin InFlight
        BY DEF InFlight, Decided
      <4> QED
        BY <4>1, <4>2, <1>2, <3>2
    <3>4. CASE a \notin done
      <4>1. ~ \E b \in done : attempts[b].key = attempts[a].key
        BY <3>2, <3>4
      <4>2. keyOutcome'[attempts[a].key] = keyOutcome[attempts[a].key]
        BY <1>3, <3>1, <4>1
      <4>3. attempts'[a] = attempts[a]
        BY <1>2, <3>4
      <4>4. keyOutcome[attempts[a].key] =
                IF attempts[a].state \in InFlight THEN "reserved"
                ELSE OutcomeOf(attempts[a].state)
        BY <1>0, <3>1 DEF KeyTellsAttempt
      <4> QED
        BY <4>2, <4>3, <4>4, <1>2, <3>2
    <3> QED
      BY <3>3, <3>4
  <2> QED
    BY <2>2, <2>3 DEF KeyTellsAttempt, OutcomeOf
<1>7. SuccessHasEvidence'
  <2> SUFFICES ASSUME NEW a \in Attempts
               PROVE  /\ attempts'[a].state \in {"dispatched", "acknowledged", "verified", "indeterminate"}
                            => attempts'[a].sent
                      /\ attempts'[a].state = "verified" <=> attempts'[a].post = "passed"
    BY DEF SuccessHasEvidence
  <2>1. CASE a \in done
    BY <2>1, <1>2 DEF Decided
  <2>2. CASE a \notin done
    BY <2>2, <1>0, <1>2 DEF SuccessHasEvidence
  <2> QED
    BY <2>1, <2>2
<1> QED
  BY <1>1, <1>4, <1>5, <1>6, <1>7

\* Ending one open attempt while the halt stays as it is.
LEMMA FinishOneKeepsInv ==
    ASSUME KernelInv, NEW a \in Attempts, attempts[a].state \in Open,
           NEW st \in Decided \cup {"indeterminate"}, NEW post \in Posts,
           st = "verified" <=> post = "passed",
           st \in {"verified", "indeterminate"} => attempts[a].sent,
           Finish({a}, st, post), UNCHANGED <<halt, leaseVars>>
    PROVE  KernelInv'
<1>1. /\ LeaseInv' /\ KernelTypeOK' /\ BoundToGrantedLease'
      /\ KeyTellsAttempt' /\ SuccessHasEvidence'
  <2>1. halt' \in {"clear", "emergency_stop"}
    BY DEF KernelInv, KernelTypeOK
  <2> QED
    BY <2>1, FinishKeepsInv
<1>2. HaltDrains'
  <2> SUFFICES ASSUME halt' = "emergency_stop", NEW b \in Attempts
               PROVE  attempts'[b].state \notin InFlight
    BY DEF HaltDrains
  <2>1. CASE b = a
    <3>1. attempts[a] \in Attempt
      BY MadeAttempt DEF KernelInv, Open, InFlight
    <3>2. attempts'[a] = [attempts[a] EXCEPT !.state = st, !.post = post]
      BY DEF Finish
    <3> QED
      BY <2>1, <3>1, <3>2 DEF Attempt, Decided, InFlight
  <2>2. CASE b # a
    <3>1. attempts'[b] = attempts[b]
      BY <2>2 DEF Finish
    <3> QED
      BY <3>1 DEF KernelInv, HaltDrains
  <2> QED
    BY <2>1, <2>2
<1> QED
  BY <1>1, <1>2 DEF KernelInv

-----------------------------------------------------------------------------
(* HaltService.                                                            *)

\* The emergency stop cancels every attempt in flight in its own transaction.
LEMMA EmergencyStopKeepsInv ==
    ASSUME KernelInv, EmergencyStop
    PROVE  KernelInv'
<1>1. /\ Dispatchable \in SUBSET Attempts
      /\ \A a \in Dispatchable : attempts[a].state \in Open
  BY DEF Dispatchable, Open
<1>2. /\ LeaseInv' /\ KernelTypeOK' /\ BoundToGrantedLease'
      /\ KeyTellsAttempt' /\ SuccessHasEvidence'
  <2>1. /\ Finish(Dispatchable, "cancelled", "unknown")
        /\ halt' \in {"clear", "emergency_stop"} /\ UNCHANGED leaseVars
    BY DEF EmergencyStop
  <2> QED
    BY <1>1, <2>1, FinishKeepsInv DEF Decided, Posts
<1>3. HaltDrains'
  <2> SUFFICES ASSUME NEW b \in Attempts
               PROVE  attempts'[b].state \notin InFlight
    BY DEF HaltDrains
  <2>1. CASE b \in Dispatchable
    <3>1. attempts[b] \in Attempt
      BY <2>1, MadeAttempt DEF KernelInv, Dispatchable, InFlight
    <3>2. attempts'[b] = [attempts[b] EXCEPT !.state = "cancelled", !.post = "unknown"]
      BY <2>1 DEF EmergencyStop, Finish
    <3> QED
      BY <3>1, <3>2 DEF Attempt, InFlight
  <2>2. CASE b \notin Dispatchable
    BY <2>2 DEF EmergencyStop, Finish, Dispatchable
  <2> QED
    BY <2>1, <2>2
<1> QED
  BY <1>2, <1>3 DEF KernelInv

\* Clearing the stop touches no attempt.
LEMMA ClearHaltKeepsInv ==
    ASSUME KernelInv, ClearHalt
    PROVE  KernelInv'
<1>1. LeaseInv'
  BY LeaseNextInv DEF KernelInv, ClearHalt
<1>2. UNCHANGED <<attempts, keyOutcome, leases>> /\ halt' = "clear"
  BY DEF ClearHalt, leaseVars
<1> QED
  BY <1>1, <1>2 DEF KernelInv, KernelTypeOK, HaltDrains, BoundToGrantedLease,
                    KeyTellsAttempt, SuccessHasEvidence

-----------------------------------------------------------------------------
(* ActionService.                                                          *)

\* A valid tuple names a granted lease of the device, with the presented token.
LEMMA ValidLeaseGranted ==
    ASSUME NEW l \in Leases, NEW d, NEW h, NEW tok, NEW now, ValidLease(l, d, h, tok, now)
    PROVE  leases[l].state = "active" /\ leases[l].device = d /\ leases[l].token = tok
BY DEF ValidLease

\* A new attempt takes a key no attempt has, under a valid lease.
LEMMA AuthorizeKeepsInv ==
    ASSUME KernelInv, NEW a \in Attempts, NEW k \in Keys, NEW l \in Leases,
           NEW d \in Devices, NEW h, NEW tok, NEW obs \in Observations \cup {None},
           NEW now, Authorize(a, k, l, d, h, tok, obs, now)
    PROVE  KernelInv'
<1>0. /\ LeaseInv /\ KernelTypeOK /\ HaltDrains /\ BoundToGrantedLease
      /\ KeyTellsAttempt /\ SuccessHasEvidence
  BY DEF KernelInv
<1>1. /\ leases[l].state = "active" /\ leases[l].device = d /\ leases[l].token = tok
  BY ValidLeaseGranted DEF Authorize
<1>2. tok \in Nat \ {0}
  BY <1>0, <1>1, GrantedLease DEF LeaseInv, Lease
<1>3. /\ UNCHANGED <<halt, leases, leaseVars>>
      /\ halt # "emergency_stop"
  BY DEF Authorize, PolicyAllows, leaseVars
<1>4. LeaseInv'
  BY <1>0, <1>3, LeaseNextInv
<1>5. /\ attempts'[a] = [NoAttempt EXCEPT !.state = "authorized", !.key = k, !.device = d,
                              !.lease = l, !.token = tok, !.observed = obs]
      /\ \A b \in Attempts \ {a} : attempts'[b] = attempts[b]
      /\ DOMAIN attempts' = Attempts /\ attempts' = [b \in Attempts |-> attempts'[b]]
  BY <1>0 DEF Authorize, KernelTypeOK
<1>6. attempts'[a] \in Attempt
  BY <1>2, <1>5 DEF Attempt, NoAttempt, InFlight
<1>7. /\ attempts'[a].state = "authorized" /\ attempts'[a].key = k
      /\ attempts'[a].device = d /\ attempts'[a].lease = l /\ attempts'[a].token = tok
      /\ attempts'[a].post = "pending"
  BY <1>5 DEF NoAttempt
<1>8. /\ keyOutcome'[k] = "reserved"
      /\ \A x \in Keys \ {k} : keyOutcome'[x] = keyOutcome[x]
      /\ keyOutcome' \in [Keys -> KeyOutcomes]
  BY <1>0 DEF Authorize, KernelTypeOK, KeyOutcomes
<1>9. KernelTypeOK'
  <2>1. attempts' \in [Attempts -> Attempt \cup {NoAttempt}]
    BY <1>0, <1>5, <1>6 DEF KernelTypeOK
  <2> QED
    BY <1>0, <1>3, <1>8, <2>1 DEF KernelTypeOK
<1>10. HaltDrains'
  BY <1>3 DEF HaltDrains
<1>11. BoundToGrantedLease'
  <2> SUFFICES ASSUME NEW b \in Attempts, attempts'[b].state # "absent"
               PROVE  /\ leases[attempts'[b].lease].state # "absent"
                      /\ leases[attempts'[b].lease].device = attempts'[b].device
                      /\ leases[attempts'[b].lease].token = attempts'[b].token
    BY <1>3 DEF BoundToGrantedLease
  <2>1. CASE b = a
    BY <2>1, <1>1, <1>7
  <2>2. CASE b # a
    BY <2>2, <1>0, <1>5 DEF BoundToGrantedLease
  <2> QED
    BY <2>1, <2>2
<1>12. KeyTellsAttempt'
  <2>1. \A b \in Attempts : attempts[b].key # k
    BY DEF Authorize, KeyUnused
  <2>2. attempts[a].key = None
    BY <1>0 DEF Authorize, KernelTypeOK, Attempt, NoAttempt, InFlight, Decided
  <2>3. ASSUME NEW x \in Keys
        PROVE  keyOutcome'[x] = "free" <=> \A b \in Attempts : attempts'[b].key # x
    <3>1. CASE x = k
      BY <3>1, <1>7, <1>8
    <3>2. CASE x # k
      <4>1. attempts[a].key # x
        BY <2>2, KernelAssumption
      <4>2. \A b \in Attempts : attempts'[b].key # x <=> attempts[b].key # x
        BY <3>2, <4>1, <1>5, <1>7
      <4>3. keyOutcome'[x] = keyOutcome[x]
        BY <3>2, <1>8
      <4>4. keyOutcome[x] = "free" <=> \A b \in Attempts : attempts[b].key # x
        BY <1>0 DEF KeyTellsAttempt
      <4> QED
        BY <4>2, <4>3, <4>4
    <3> QED
      BY <3>1, <3>2
  <2>4. ASSUME NEW b \in Attempts, attempts'[b].state # "absent"
        PROVE  /\ keyOutcome'[attempts'[b].key] =
                      IF attempts'[b].state \in InFlight THEN "reserved"
                      ELSE OutcomeOf(attempts'[b].state)
               /\ \A c \in Attempts \ {b} : attempts'[c].key # attempts'[b].key
    <3>1. CASE b = a
      BY <3>1, <2>1, <1>5, <1>7, <1>8 DEF InFlight
    <3>2. CASE b # a
      <4>1. attempts'[b] = attempts[b] /\ attempts[b].state # "absent"
        BY <3>2, <2>4, <1>5
      <4>2. attempts[b].key \in Keys \ {k}
        BY <4>1, <2>1, <1>0, MadeAttempt DEF Attempt
      <4>3. /\ keyOutcome[attempts[b].key] =
                    IF attempts[b].state \in InFlight THEN "reserved"
                    ELSE OutcomeOf(attempts[b].state)
            /\ \A c \in Attempts \ {b} : attempts[c].key # attempts[b].key
        BY <4>1, <1>0 DEF KeyTellsAttempt
      <4>4. \A c \in Attempts \ {b} : attempts'[c].key # attempts[b].key
        BY <4>2, <4>3, <1>5, <1>7
      <4> QED
        BY <4>1, <4>2, <4>3, <4>4, <1>8
    <3> QED
      BY <3>1, <3>2
  <2> QED
    BY <2>3, <2>4 DEF KeyTellsAttempt, OutcomeOf
<1>13. SuccessHasEvidence'
  <2> SUFFICES ASSUME NEW b \in Attempts
               PROVE  /\ attempts'[b].state \in {"dispatched", "acknowledged", "verified", "indeterminate"}
                            => attempts'[b].sent
                      /\ attempts'[b].state = "verified" <=> attempts'[b].post = "passed"
    BY DEF SuccessHasEvidence
  <2>1. CASE b = a
    BY <2>1, <1>7
  <2>2. CASE b # a
    BY <2>2, <1>0, <1>5 DEF SuccessHasEvidence
  <2> QED
    BY <2>1, <2>2
<1> QED
  BY <1>4, <1>9, <1>10, <1>11, <1>12, <1>13 DEF KernelInv

\* A dispatch either sends the attempt under a clear halt or fails it for good.
LEMMA DispatchKeepsInv ==
    ASSUME KernelInv, NEW a \in Attempts, NEW h, NEW tok, NEW now, Dispatch(a, h, tok, now)
    PROVE  KernelInv'
<1>0. /\ LeaseInv /\ KernelTypeOK /\ HaltDrains /\ BoundToGrantedLease
      /\ KeyTellsAttempt /\ SuccessHasEvidence
  BY DEF KernelInv
<1>1. attempts[a].state = "authorized" /\ attempts[a] \in Attempt
  BY <1>0, MadeAttempt DEF Dispatch
<1>2. CASE Finish({a}, "failed", "unknown")
  <2>1. attempts[a].state \in Open /\ UNCHANGED <<halt, leaseVars>>
    BY <1>1 DEF Open, InFlight, Dispatch
  <2> QED
    BY <1>2, <2>1, FinishOneKeepsInv DEF Decided, Posts
<1>3. CASE /\ halt # "emergency_stop"
           /\ attempts' = [attempts EXCEPT ![a].state = "dispatched", ![a].sent = TRUE]
           /\ UNCHANGED keyOutcome
  <2>1. UNCHANGED <<halt, keyOutcome, leases, leaseVars>>
    BY <1>3 DEF Dispatch, leaseVars
  <2>2. /\ attempts'[a] = [attempts[a] EXCEPT !.state = "dispatched", !.sent = TRUE]
        /\ \A b \in Attempts \ {a} : attempts'[b] = attempts[b]
    BY <1>0, <1>3 DEF KernelTypeOK
  <2>3. /\ attempts'[a] \in Attempt
        /\ attempts'[a].state = "dispatched" /\ attempts'[a].sent = TRUE
        /\ attempts'[a].key = attempts[a].key /\ attempts'[a].lease = attempts[a].lease
        /\ attempts'[a].device = attempts[a].device
        /\ attempts'[a].token = attempts[a].token
        /\ attempts'[a].post = attempts[a].post
    BY <1>1, <2>2 DEF Attempt, InFlight
  <2>4. LeaseInv'
    BY <1>0, <2>1, LeaseNextInv
  <2>5. KernelTypeOK'
    BY <1>0, <1>3, <2>1, <2>2, <2>3 DEF KernelTypeOK
  <2>6. HaltDrains'
    BY <1>3, <2>1 DEF HaltDrains
  <2>7. BoundToGrantedLease'
    <3> SUFFICES ASSUME NEW b \in Attempts, attempts'[b].state # "absent"
                 PROVE  /\ leases[attempts'[b].lease].state # "absent"
                        /\ leases[attempts'[b].lease].device = attempts'[b].device
                        /\ leases[attempts'[b].lease].token = attempts'[b].token
      BY <2>1 DEF BoundToGrantedLease
    <3>1. CASE b = a
      BY <3>1, <1>0, <1>1, <2>3 DEF BoundToGrantedLease
    <3>2. CASE b # a
      BY <3>2, <1>0, <2>2 DEF BoundToGrantedLease
    <3> QED
      BY <3>1, <3>2
  <2>8. \A b \in Attempts :
            /\ attempts'[b].key = attempts[b].key
            /\ attempts'[b].state = "absent" <=> attempts[b].state = "absent"
            /\ attempts'[b].state \in InFlight <=> attempts[b].state \in InFlight
            /\ attempts'[b].state \notin InFlight => attempts'[b].state = attempts[b].state
    BY <1>1, <2>2, <2>3 DEF InFlight
  <2>9. KeyTellsAttempt'
    <3>1. ASSUME NEW b \in Attempts, attempts'[b].state # "absent"
          PROVE  /\ keyOutcome[attempts'[b].key] =
                        IF attempts'[b].state \in InFlight THEN "reserved"
                        ELSE OutcomeOf(attempts'[b].state)
                 /\ \A c \in Attempts \ {b} : attempts'[c].key # attempts'[b].key
      BY <1>0, <2>8, <3>1 DEF KeyTellsAttempt
    <3>2. \A x \in Keys :
            keyOutcome[x] = "free" <=> \A b \in Attempts : attempts'[b].key # x
      BY <1>0, <2>8 DEF KeyTellsAttempt
    <3> QED
      BY <2>1, <3>1, <3>2 DEF KeyTellsAttempt, OutcomeOf
  <2>10. SuccessHasEvidence'
    <3>1. attempts[a].post # "passed"
      BY <1>0, <1>1 DEF SuccessHasEvidence
    <3>2. \A b \in Attempts \ {a} : attempts'[b] = attempts[b]
      BY <2>2
    <3> SUFFICES ASSUME NEW b \in Attempts
                 PROVE  /\ attempts'[b].state \in {"dispatched", "acknowledged", "verified", "indeterminate"}
                              => attempts'[b].sent
                        /\ attempts'[b].state = "verified" <=> attempts'[b].post = "passed"
      BY DEF SuccessHasEvidence
    <3>3. CASE b = a
      BY <3>1, <3>3, <2>3
    <3>4. CASE b # a
      BY <1>0, <3>2, <3>4 DEF SuccessHasEvidence
    <3> QED
      BY <3>3, <3>4
  <2> QED
    BY <2>4, <2>5, <2>6, <2>7, <2>9, <2>10 DEF KernelInv
<1> QED
  BY <1>2, <1>3 DEF Dispatch

\* Complete, MarkIndeterminate, Reconcile, Cancel and Timeout end one open attempt;
\* success and doubt are recorded only for an attempt that was sent.
LEMMA EndingsKeepInv ==
    ASSUME KernelInv, NEW a \in Attempts, NEW h, NEW tok, NEW obs, NEW now,
           NEW post \in Posts,
           \/ Complete(a, h, obs, post, now) \/ MarkIndeterminate(a)
           \/ Reconcile(a, h, obs, post, now) \/ Cancel(a, h, tok) \/ Timeout(a, h, tok)
    PROVE  KernelInv'
<1>1. attempts[a].state \in Open /\ UNCHANGED <<halt, leaseVars>>
  BY DEF Complete, MarkIndeterminate, Reconcile, Cancel, Timeout, Awaiting,
         CanTimeOut, Open, InFlight
<1>2. ASSUME NEW st \in {"failed", "cancelled", "timed_out"}, Finish({a}, st, "unknown")
      PROVE  KernelInv'
  BY <1>1, <1>2, FinishOneKeepsInv DEF Decided, Posts
<1>3. CASE Finish({a}, "indeterminate", "unknown") /\ attempts[a].sent
  BY <1>1, <1>3, FinishOneKeepsInv DEF Posts
<1>4. CASE Finish({a}, Verdict[post], post) /\ attempts[a].sent
  <2>1. /\ Verdict[post] \in Decided \cup {"indeterminate"}
        /\ Verdict[post] = "verified" <=> post = "passed"
    BY DEF Verdict, Posts, Decided
  <2> QED
    BY <1>1, <1>4, <2>1, FinishOneKeepsInv
<1>5. attempts[a].state \in {"dispatched", "acknowledged", "indeterminate"} => attempts[a].sent
  BY DEF KernelInv, SuccessHasEvidence
<1> QED
  BY <1>2, <1>3, <1>4, <1>5
     DEF Complete, MarkIndeterminate, Reconcile, Cancel, Timeout, Awaiting

\* Cleanup writes its own column only.
LEMMA CleanupKeepsInv ==
    ASSUME KernelInv, NEW a \in Attempts, NEW result \in {"succeeded", "failed"},
           Cleanup(a, result)
    PROVE  KernelInv'
<1>0. /\ LeaseInv /\ KernelTypeOK /\ HaltDrains /\ BoundToGrantedLease
      /\ KeyTellsAttempt /\ SuccessHasEvidence
  BY DEF KernelInv
<1>1. UNCHANGED <<halt, keyOutcome, leases, leaseVars>>
  BY DEF Cleanup, leaseVars
<1>2. LeaseInv'
  BY <1>0, <1>1, LeaseNextInv
<1>3. attempts[a] \in Attempt
  BY <1>0, MadeAttempt DEF Cleanup, Decided
<1>4. /\ attempts'[a] = [attempts[a] EXCEPT !.cleanup = result]
      /\ \A b \in Attempts \ {a} : attempts'[b] = attempts[b]
  BY <1>0 DEF Cleanup, KernelTypeOK
<1>5. ASSUME NEW b \in Attempts
      PROVE  /\ attempts'[b] \in Attempt \cup {NoAttempt}
             /\ attempts'[b].state = attempts[b].state
             /\ attempts'[b].key = attempts[b].key
             /\ attempts'[b].lease = attempts[b].lease
             /\ attempts'[b].device = attempts[b].device
             /\ attempts'[b].token = attempts[b].token
             /\ attempts'[b].sent = attempts[b].sent
             /\ attempts'[b].post = attempts[b].post
  <2>1. CASE b = a
    BY <2>1, <1>3, <1>4 DEF Attempt
  <2>2. CASE b # a
    BY <2>2, <1>0, <1>4 DEF KernelTypeOK
  <2> QED
    BY <2>1, <2>2
<1>6. KernelTypeOK'
  <2>1. attempts' \in [Attempts -> Attempt \cup {NoAttempt}]
    BY <1>0, <1>5 DEF Cleanup, KernelTypeOK
  <2> QED
    BY <1>0, <1>1, <2>1 DEF KernelTypeOK
<1>7. HaltDrains'
  BY <1>0, <1>1, <1>5 DEF HaltDrains
<1>8. BoundToGrantedLease'
  BY <1>0, <1>1, <1>5 DEF BoundToGrantedLease
<1>9. KeyTellsAttempt'
  BY <1>0, <1>1, <1>5 DEF KeyTellsAttempt, OutcomeOf
<1>10. SuccessHasEvidence'
  BY <1>0, <1>5 DEF SuccessHasEvidence
<1> QED
  BY <1>2, <1>6, <1>7, <1>8, <1>9, <1>10 DEF KernelInv

-----------------------------------------------------------------------------
\* A session or lease operation keeps every attempt bound to its lease: a granted
\* row never changes its device or token and never disappears.
LEMMA LeaseStepKeepsInv ==
    ASSUME KernelInv, [LeaseNext]_leaseVars, UNCHANGED actionVars
    PROVE  KernelInv'
<1>0. /\ LeaseInv /\ LeaseTypeOK /\ KernelTypeOK /\ HaltDrains /\ BoundToGrantedLease
      /\ KeyTellsAttempt /\ SuccessHasEvidence
  BY DEF KernelInv, LeaseInv
<1>1. LeaseInv'
  BY <1>0, LeaseNextInv
<1>2. UNCHANGED <<halt, attempts, keyOutcome>>
  BY DEF actionVars
<1>3. KernelTypeOK' /\ HaltDrains' /\ KeyTellsAttempt' /\ SuccessHasEvidence'
  BY <1>0, <1>2 DEF KernelTypeOK, HaltDrains, KeyTellsAttempt, SuccessHasEvidence, OutcomeOf
<1>4. BoundToGrantedLease'
  <2> SUFFICES ASSUME NEW a \in Attempts, attempts[a].state # "absent"
               PROVE  /\ leases'[attempts[a].lease].state # "absent"
                      /\ leases'[attempts[a].lease].device = attempts[a].device
                      /\ leases'[attempts[a].lease].token = attempts[a].token
    BY <1>2 DEF BoundToGrantedLease
  <2> DEFINE l == attempts[a].lease
  <2>1. l \in Leases
    BY <1>0, MadeAttempt DEF Attempt
  <2>2. /\ leases[l].state # "absent" /\ leases[l].device = attempts[a].device
        /\ leases[l].token = attempts[a].token
    BY <1>0 DEF BoundToGrantedLease
  <2> HIDE DEF l
  <2>3. leases[l] \in Lease /\ RowStep(l)
    BY <1>0, <2>1, <2>2, GrantedLease, RowSteps
  <2>4. /\ leases'[l].state # "absent" /\ leases'[l].device = leases[l].device
        /\ leases'[l].token = leases[l].token
    BY <2>2, <2>3 DEF RowStep, Lease, LeaseFinal
  <2> QED
    BY <2>2, <2>4 DEF l
<1> QED
  BY <1>1, <1>3, <1>4 DEF KernelInv

\* The empty database satisfies the invariant.
LEMMA KernelInitInv == KernelInit => KernelInv
<1> SUFFICES ASSUME KernelInit PROVE KernelInv
  OBVIOUS
<1>1. LeaseInv
  BY LeaseInitInv DEF KernelInit
<1>2. \A a \in Attempts : /\ attempts[a].state = "absent" /\ attempts[a].key = None
                          /\ attempts[a].post = "pending"
  BY DEF KernelInit, NoAttempt
<1>3. KernelTypeOK
  BY DEF KernelInit, KernelTypeOK, KeyOutcomes
<1>4. KeyTellsAttempt
  BY <1>2, KernelAssumption DEF KeyTellsAttempt, KernelInit
<1> QED
  BY <1>1, <1>2, <1>3, <1>4
     DEF KernelInv, HaltDrains, BoundToGrantedLease, SuccessHasEvidence, InFlight

\* Every transaction of either service, clock tick and stutter preserves it.
LEMMA KernelNextInv == KernelInv /\ [KernelNext]_kernelVars => KernelInv'
<1> SUFFICES ASSUME KernelInv, [KernelNext]_kernelVars
             PROVE  KernelInv'
  OBVIOUS
<1>1. CASE LeaseNext /\ UNCHANGED actionVars
  BY <1>1, LeaseStepKeepsInv
<1>2. CASE UNCHANGED kernelVars
  BY <1>2, LeaseStepKeepsInv DEF kernelVars
<1>3. CASE ActionNext
  BY <1>3, EmergencyStopKeepsInv, ClearHaltKeepsInv, AuthorizeKeepsInv, DispatchKeepsInv,
     EndingsKeepInv, CleanupKeepsInv DEF ActionNext, Posts
<1> QED
  BY <1>1, <1>2, <1>3 DEF KernelNext

\* The kernel invariant holds in every reachable state.
THEOREM KernelInvariant == KernelSpec => []KernelInv
BY KernelInitInv, KernelNextInv, PTL DEF KernelSpec

\* Every attempt row the services write is well formed.
THEOREM KernelTypes == KernelSpec => []KernelTypeOK
BY KernelInvariant, PTL DEF KernelInv

\* Under the emergency stop nothing is authorized or on its way.
THEOREM EmergencyStopDrains == KernelSpec => []HaltDrains
BY KernelInvariant, PTL DEF KernelInv

\* An attempt is bound to a lease that was granted for its device.
THEOREM AttemptsAreBound == KernelSpec => []BoundToGrantedLease
BY KernelInvariant, PTL DEF KernelInv

\* The idempotency table and the attempts agree, one attempt per key.
THEOREM KeysTellAttempts == KernelSpec => []KeyTellsAttempt
BY KernelInvariant, PTL DEF KernelInv

\* Success is never claimed for an action that was not sent.
THEOREM SuccessIsEvidenced == KernelSpec => []SuccessHasEvidence
BY KernelInvariant, PTL DEF KernelInv

-----------------------------------------------------------------------------
(* What one step may do to one attempt row.                                *)

\* The lease an attempt is bound to is still the device's active lease.
HoldsDevice(a) == /\ leases[attempts[a].lease].state = "active"
                  /\ leases[attempts[a].lease].device = attempts[a].device

\* Nothing, authorization, dispatch, an ending or cleanup; dispatch and
\* verification happen only under the active lease.
AttemptStep(a) ==
    \/ attempts'[a] = attempts[a]
    \/ attempts[a].state = "absent" /\ attempts'[a].state = "authorized"
    \/ /\ attempts[a].state = "authorized" /\ HoldsDevice(a)
       /\ attempts'[a] = [attempts[a] EXCEPT !.state = "dispatched", !.sent = TRUE]
    \/ /\ attempts[a].state \in Open
       /\ \E st \in Decided \cup {"indeterminate"}, post \in Posts :
            /\ attempts'[a] = [attempts[a] EXCEPT !.state = st, !.post = post]
            /\ st = "verified" => HoldsDevice(a)
    \/ /\ attempts[a].state # "absent"
       /\ \E result \in {"succeeded", "failed"} :
            attempts'[a] = [attempts[a] EXCEPT !.cleanup = result]

\* finishAttemptTx leaves the rows outside the set alone and ends those in it.
LEMMA FinishStep ==
    ASSUME KernelTypeOK, NEW done \in SUBSET Attempts, NEW st \in Decided \cup {"indeterminate"},
           NEW post \in Posts, Finish(done, st, post),
           \A x \in done : /\ attempts[x].state \in Open
                           /\ st = "verified" => HoldsDevice(x),
           NEW a \in Attempts
    PROVE  AttemptStep(a)
<1>1. CASE a \in done
  BY <1>1 DEF Finish, AttemptStep
<1>2. CASE a \notin done
  BY <1>2 DEF Finish, AttemptStep
<1> QED
  BY <1>1, <1>2

\* Every step is one of the five on every attempt row.
LEMMA AttemptSteps ==
    ASSUME KernelInv, [KernelNext]_kernelVars, NEW a \in Attempts
    PROVE  AttemptStep(a)
<1>0. KernelTypeOK
  BY DEF KernelInv
<1>1. CASE UNCHANGED attempts
  BY <1>1 DEF AttemptStep
<1>2. CASE EmergencyStop
  <2>1. /\ Dispatchable \in SUBSET Attempts
        /\ \A x \in Dispatchable : attempts[x].state \in Open
    BY DEF Dispatchable, Open
  <2>2. Finish(Dispatchable, "cancelled", "unknown")
    BY <1>2 DEF EmergencyStop
  <2> QED
    BY <1>0, <2>1, <2>2, FinishStep DEF Decided, Posts
<1>3. ASSUME NEW x \in Attempts, NEW k, NEW l, NEW d, NEW h, NEW tok, NEW obs, NEW now,
             Authorize(x, k, l, d, h, tok, obs, now)
      PROVE  AttemptStep(a)
  <2>1. CASE a = x
    BY <1>0, <1>3, <2>1 DEF Authorize, AttemptStep, KernelTypeOK, NoAttempt
  <2>2. CASE a # x
    BY <1>0, <1>3, <2>2 DEF Authorize, AttemptStep, KernelTypeOK
  <2> QED
    BY <2>1, <2>2
<1>4. ASSUME NEW x \in Attempts, attempts[x].state \in Open,
             NEW st \in (Decided \cup {"indeterminate"}) \ {"verified"}, NEW post \in Posts,
             Finish({x}, st, post)
      PROVE  AttemptStep(a)
  BY <1>0, <1>4, FinishStep
<1>5. ASSUME NEW x \in Attempts, attempts[x].state \in Open, NEW post \in Posts,
             HoldsDevice(x), Finish({x}, Verdict[post], post)
      PROVE  AttemptStep(a)
  <2>1. Verdict[post] \in Decided \cup {"indeterminate"}
    BY DEF Verdict, Posts, Decided
  <2> QED
    BY <1>0, <1>5, <2>1, FinishStep
<1>6. ASSUME NEW x \in Attempts, NEW h, NEW tok, NEW now, Dispatch(x, h, tok, now)
      PROVE  AttemptStep(a)
  <2>1. attempts[x].state = "authorized" /\ attempts[x].state \in Open
    BY <1>6 DEF Dispatch, Open, InFlight
  <2>2. CASE Finish({x}, "failed", "unknown")
    BY <1>4, <2>1, <2>2 DEF Decided, Posts
  <2>3. CASE /\ ValidLease(attempts[x].lease, attempts[x].device, h, tok, now)
             /\ attempts' = [attempts EXCEPT ![x].state = "dispatched", ![x].sent = TRUE]
    <3>1. HoldsDevice(x)
      BY <2>3 DEF ValidLease, HoldsDevice
    <3>2. CASE a = x
      BY <1>0, <2>1, <2>3, <3>1, <3>2 DEF AttemptStep, KernelTypeOK
    <3>3. CASE a # x
      BY <1>0, <2>3, <3>3 DEF AttemptStep, KernelTypeOK
    <3> QED
      BY <3>2, <3>3
  <2> QED
    BY <1>6, <2>2, <2>3 DEF Dispatch
<1>7. ASSUME NEW x \in Attempts, NEW h, NEW obs, NEW post \in Posts, NEW now,
             Complete(x, h, obs, post, now) \/ Reconcile(x, h, obs, post, now)
      PROVE  AttemptStep(a)
  <2>1. attempts[x].state \in Open
    BY <1>7 DEF Complete, Reconcile, Awaiting, Open, InFlight
  <2>2. CASE Finish({x}, "failed", "unknown")
    BY <1>4, <2>1, <2>2 DEF Decided, Posts
  <2>3. CASE /\ ValidLease(attempts[x].lease, attempts[x].device, h, attempts[x].token, now)
             /\ Finish({x}, Verdict[post], post)
    <3>1. HoldsDevice(x)
      BY <2>3 DEF ValidLease, HoldsDevice
    <3> QED
      BY <1>5, <2>1, <2>3, <3>1
  <2> QED
    BY <1>7, <2>2, <2>3 DEF Complete, Reconcile
<1>8. ASSUME NEW x \in Attempts, NEW h, NEW tok,
             MarkIndeterminate(x) \/ Cancel(x, h, tok) \/ Timeout(x, h, tok)
      PROVE  AttemptStep(a)
  <2>1. attempts[x].state \in Open
    BY <1>8 DEF MarkIndeterminate, Cancel, Timeout, Awaiting, CanTimeOut, Open, InFlight
  <2>2. \E st \in {"indeterminate", "cancelled", "timed_out"} : Finish({x}, st, "unknown")
    BY <1>8 DEF MarkIndeterminate, Cancel, Timeout
  <2> QED
    BY <1>4, <2>1, <2>2 DEF Decided, Posts
<1>9. ASSUME NEW x \in Attempts, NEW result \in {"succeeded", "failed"}, Cleanup(x, result)
      PROVE  AttemptStep(a)
  <2>1. CASE a = x
    <3>1. attempts[a].state # "absent"
      BY <1>9, <2>1 DEF Cleanup, Decided
    <3>2. attempts'[a] = [attempts[a] EXCEPT !.cleanup = result]
      BY <1>0, <1>9, <2>1 DEF Cleanup, KernelTypeOK
    <3> QED
      BY <3>1, <3>2 DEF AttemptStep
  <2>2. CASE a # x
    BY <1>0, <1>9, <2>2 DEF Cleanup, AttemptStep, KernelTypeOK
  <2> QED
    BY <2>1, <2>2
<1>10. CASE ClearHalt \/ UNCHANGED kernelVars \/ (LeaseNext /\ UNCHANGED actionVars)
  BY <1>1, <1>10 DEF ClearHalt, kernelVars, actionVars
<1>11. CASE ActionNext /\ ~ ClearHalt
  BY <1>2, <1>3, <1>6, <1>7, <1>8, <1>9, <1>11 DEF ActionNext
<1> QED
  BY <1>10, <1>11 DEF KernelNext

\* The active lease of a device outranks every lease the device had, so an
\* attempt that holds the device carries the highest token.
LEMMA HolderOutranks ==
    ASSUME KernelInv, NEW a \in Attempts, attempts[a].state # "absent", HoldsDevice(a),
           NEW l \in LeasesOn(attempts[a].device)
    PROVE  leases[l].token <= attempts[a].token
<1> DEFINE m == attempts[a].lease
<1>1. m \in Leases /\ attempts[a].token \in Nat
  BY MadeAttempt DEF KernelInv, Attempt
<1>2. leases[m].state = "active" /\ leases[m].device = attempts[a].device
      /\ leases[m].token = attempts[a].token
  BY DEF HoldsDevice, KernelInv, BoundToGrantedLease
<1> HIDE DEF m
<1>3. /\ l \in Leases /\ leases[l].state # "absent" /\ leases[l].device = leases[m].device
  BY <1>2 DEF LeasesOn
<1>4. leases[l].token \in Nat
  BY <1>3, GrantedLease DEF KernelInv, LeaseInv, Lease
<1>5. CASE l = m
  BY <1>1, <1>2, <1>5
<1>6. CASE l # m
  <2>1. leases[l].token < leases[m].token
    BY <1>1, <1>2, <1>3, <1>6 DEF KernelInv, LeaseInv, FenceDominates
  <2> QED
    BY <2>1, <1>1, <1>2, <1>4
<1> QED
  BY <1>5, <1>6

\* A holder that was fenced off can neither send an input nor have an old one
\* recorded as done.
THEOREM StaleFence == KernelSpec => StaleFenceNeverActs
<1>1. ASSUME KernelInv, [KernelNext]_kernelVars, NEW a \in Attempts,
             attempts'[a].state # attempts[a].state,
             attempts'[a].state \in {"dispatched", "verified"}
      PROVE  \A l \in LeasesOn(attempts[a].device) : leases[l].token <= attempts[a].token
  <2>1. attempts[a].state # "absent" /\ AttemptStep(a)
    BY <1>1, AttemptSteps DEF AttemptStep, Open, InFlight
  <2>2. attempts[a] \in Attempt
    BY <1>1, <2>1, MadeAttempt DEF KernelInv
  <2>3. HoldsDevice(a)
    BY <1>1, <2>1, <2>2 DEF AttemptStep, Attempt, Decided
  <2> QED
    BY <1>1, <2>1, <2>3, HolderOutranks
<1>2. KernelInv /\ [KernelNext]_kernelVars =>
        [\A a \in Attempts :
            /\ attempts'[a].state # attempts[a].state
            /\ attempts'[a].state \in {"dispatched", "verified"}
            => \A l \in LeasesOn(attempts[a].device) : leases[l].token <= attempts[a].token
        ]_kernelVars
  BY <1>1
<1> QED
  BY <1>2, KernelInvariant, PTL DEF KernelSpec, StaleFenceNeverActs

\* A decided attempt is never decided again, and no attempt changes what it was
\* authorized with.
THEOREM Decisions == KernelSpec => DecidedOnce
<1>1. ASSUME KernelInv, [KernelNext]_kernelVars, NEW a \in Attempts,
             attempts[a].state # "absent"
      PROVE  /\ attempts[a].state \in Decided => attempts'[a].state = attempts[a].state
             /\ attempts'[a].key = attempts[a].key
             /\ attempts'[a].lease = attempts[a].lease
             /\ attempts'[a].token = attempts[a].token
             /\ attempts'[a].observed = attempts[a].observed
  <2>1. attempts[a] \in Attempt
    BY <1>1, MadeAttempt DEF KernelInv
  <2>2. AttemptStep(a)
    BY <1>1, AttemptSteps
  <2> QED
    BY <1>1, <2>1, <2>2 DEF AttemptStep, Attempt, Decided, Open, InFlight
<1>2. KernelInv /\ [KernelNext]_kernelVars =>
        [\A a \in Attempts : attempts[a].state # "absent" =>
            /\ attempts[a].state \in Decided => attempts'[a].state = attempts[a].state
            /\ attempts'[a].key = attempts[a].key
            /\ attempts'[a].lease = attempts[a].lease
            /\ attempts'[a].token = attempts[a].token
            /\ attempts'[a].observed = attempts[a].observed
        ]_kernelVars
  BY <1>1
<1> QED
  BY <1>2, KernelInvariant, PTL DEF KernelSpec, DecidedOnce

-----------------------------------------------------------------------------
(* The attempts of the action service live as AttemptLife says.            *)

\* A transaction that writes the state of one row moves one life.
LEMMA OneLifeMoves ==
    ASSUME NEW x \in Attempts, NEW st, st # "acknowledged",
           \A a \in Attempts : attempts'[a].state = IF a = x THEN st ELSE attempts[a].state
    PROVE  Lives' = [Lives EXCEPT ![x] = st]
BY DEF Lives, LifeOf

\* finishAttemptTx on one row decides its attempt.
LEMMA FinishSettles ==
    ASSUME KernelTypeOK, NEW x \in Attempts, attempts[x].state # "absent",
           NEW st, NEW post, Finish({x}, st, post),
           st \in Life!LifeOutcomes(LifeOf(attempts[x].state))
    PROVE  Life!LifeNext
<1>1. st # "acknowledged"
  BY DEF Life!LifeOutcomes, Life!LifeDecided
<1>2. \A a \in Attempts : attempts'[a].state = IF a = x THEN st ELSE attempts[a].state
  BY MadeAttempt DEF Finish, Attempt
<1>3. Lives' = [Lives EXCEPT ![x] = st]
  BY <1>1, <1>2, OneLifeMoves
<1>4. Life!Settled(x)
  BY <1>3 DEF Life!Settled, Lives
<1> QED
  BY <1>4 DEF Life!LifeNext

\* finishAttemptTx with indeterminate puts an attempt that was sent in doubt.
LEMMA FinishDoubts ==
    ASSUME KernelTypeOK, NEW x \in Attempts, Awaiting(x), NEW post,
           Finish({x}, "indeterminate", post)
    PROVE  Life!LifeNext
<1>1. attempts[x] \in Attempt
  BY MadeAttempt DEF Awaiting
<1>2. \A a \in Attempts :
        attempts'[a].state = IF a = x THEN "indeterminate" ELSE attempts[a].state
  BY <1>1 DEF Finish, Attempt
<1>3. Lives' = [Lives EXCEPT ![x] = "indeterminate"]
  BY <1>2, OneLifeMoves
<1>4. Life!Doubted(x)
  BY <1>3 DEF Life!Doubted, Lives, LifeOf, Awaiting
<1> QED
  BY <1>4 DEF Life!LifeNext

\* cancelDispatchableAttemptsTx interrupts every attempt in flight.
LEMMA EmergencyStopInterrupts ==
    ASSUME KernelTypeOK, EmergencyStop
    PROVE  Life!LifeNext
<1>1. Finish(Dispatchable, "cancelled", "unknown")
  BY DEF EmergencyStop
<1>2. ASSUME NEW a \in Attempts
      PROVE  attempts'[a].state = IF a \in Dispatchable THEN "cancelled"
                                  ELSE attempts[a].state
  <2>1. CASE a \in Dispatchable
    <3>1. attempts[a] \in Attempt
      BY <2>1, MadeAttempt DEF Dispatchable, InFlight
    <3> QED
      BY <1>1, <2>1, <3>1 DEF Finish, Attempt
  <2>2. CASE a \notin Dispatchable
    BY <1>1, <2>2 DEF Finish
  <2> QED
    BY <2>1, <2>2
<1>3. \A a \in Dispatchable : Lives[a] \in Life!LifeInFlight
  BY DEF Lives, LifeOf, Dispatchable, InFlight, Life!LifeInFlight
<1>4. Lives' = [a \in Attempts |-> IF a \in Dispatchable THEN "cancelled"
                                   ELSE IF a \in {} THEN "indeterminate" ELSE Lives[a]]
  <2>1. ASSUME NEW a \in Attempts
        PROVE  LifeOf(attempts'[a].state) =
                    IF a \in Dispatchable THEN "cancelled"
                    ELSE IF a \in {} THEN "indeterminate" ELSE Lives[a]
    BY <1>2 DEF Lives, LifeOf
  <2> QED
    BY <2>1 DEF Lives
<1>5. Life!Interrupted(Dispatchable, {})
  BY <1>3, <1>4 DEF Life!Interrupted
<1>6. Dispatchable \in SUBSET Attempts /\ {} \in SUBSET Attempts
  BY DEF Dispatchable
<1> QED
  BY <1>5, <1>6 DEF Life!LifeNext

\* A transaction of the kernel is a step in the life of one attempt, an
\* interruption, or leaves every life as it is.
LEMMA KernelLifeStep ==
    ASSUME KernelInv, [KernelNext]_kernelVars
    PROVE  [Life!LifeNext]_Life!lifeVars
<1>0. KernelTypeOK
  BY DEF KernelInv
<1>1. CASE UNCHANGED attempts
  BY <1>1 DEF Life!lifeVars, Lives
<1>2. ASSUME NEW x \in Attempts, NEW k, NEW l, NEW d, NEW h, NEW tok, NEW obs, NEW now,
             Authorize(x, k, l, d, h, tok, obs, now)
      PROVE  Life!LifeNext
  <2>1. attempts[x].state = "absent"
    BY <1>2 DEF Authorize
  <2>2. \A a \in Attempts :
            attempts'[a].state = IF a = x THEN "authorized" ELSE attempts[a].state
    BY <1>0, <1>2 DEF Authorize, KernelTypeOK, NoAttempt
  <2>3. Lives' = [Lives EXCEPT ![x] = "authorized"]
    BY <2>2, OneLifeMoves
  <2>4. Life!Authorized(x)
    BY <2>1, <2>3 DEF Life!Authorized, Lives, LifeOf
  <2> QED
    BY <2>4 DEF Life!LifeNext
<1>3. ASSUME NEW x \in Attempts, NEW h, NEW tok, NEW now, Dispatch(x, h, tok, now)
      PROVE  Life!LifeNext
  <2>1. attempts[x].state = "authorized"
    BY <1>3 DEF Dispatch
  <2>2. CASE Finish({x}, "failed", "unknown")
    BY <1>0, <2>1, <2>2, FinishSettles DEF LifeOf, Life!LifeOutcomes
  <2>3. CASE attempts' = [attempts EXCEPT ![x].state = "dispatched", ![x].sent = TRUE]
    <3>1. attempts[x] \in Attempt
      BY <1>0, <2>1, MadeAttempt
    <3>2. \A a \in Attempts :
              attempts'[a].state = IF a = x THEN "dispatched" ELSE attempts[a].state
      BY <1>0, <2>3, <3>1 DEF KernelTypeOK, Attempt
    <3>3. Lives' = [Lives EXCEPT ![x] = "dispatched"]
      BY <3>2, OneLifeMoves
    <3>4. Life!Sent(x)
      BY <2>1, <3>3 DEF Life!Sent, Lives, LifeOf
    <3> QED
      BY <3>4 DEF Life!LifeNext
  <2> QED
    BY <1>3, <2>2, <2>3 DEF Dispatch
<1>4. ASSUME NEW x \in Attempts, NEW h, NEW obs, NEW post \in Posts, NEW now,
             Complete(x, h, obs, post, now)
      PROVE  Life!LifeNext
  <2>1. Awaiting(x) /\ attempts[x].state # "absent"
        /\ Life!LifeOutcomes(LifeOf(attempts[x].state)) = Life!LifeDecided
    BY <1>4 DEF Complete, Awaiting, LifeOf, Life!LifeOutcomes
  <2>2. CASE Finish({x}, "failed", "unknown")
    BY <1>0, <2>1, <2>2, FinishSettles DEF Life!LifeDecided
  <2>3. CASE Finish({x}, Verdict[post], post)
    <3>1. Verdict[post] \in {"verified", "failed", "indeterminate"}
      BY DEF Verdict, Posts
    <3>2. CASE Verdict[post] = "indeterminate"
      BY <1>0, <2>1, <2>3, <3>2, FinishDoubts
    <3>3. CASE Verdict[post] \in {"verified", "failed"}
      BY <1>0, <2>1, <2>3, <3>3, FinishSettles DEF Life!LifeDecided
    <3> QED
      BY <3>1, <3>2, <3>3
  <2> QED
    BY <1>4, <2>2, <2>3 DEF Complete
<1>5. ASSUME NEW x \in Attempts, NEW h, NEW obs, NEW post \in Posts, NEW now,
             Reconcile(x, h, obs, post, now)
      PROVE  Life!LifeNext
  <2>1. attempts[x].state = "indeterminate" /\ Finish({x}, Verdict[post], post)
    BY <1>5 DEF Reconcile
  <2>2. Verdict[post] \in {"verified", "failed"}
    BY <1>5 DEF Reconcile, Verdict
  <2>3. Verdict[post] \in Life!LifeOutcomes(LifeOf(attempts[x].state))
    BY <2>1, <2>2 DEF LifeOf, Life!LifeOutcomes
  <2> QED
    BY <1>0, <2>1, <2>3, FinishSettles
<1>6. ASSUME NEW x \in Attempts, MarkIndeterminate(x)
      PROVE  Life!LifeNext
  BY <1>0, <1>6, FinishDoubts DEF MarkIndeterminate
<1>7. ASSUME NEW x \in Attempts, NEW h, NEW tok, Cancel(x, h, tok)
      PROVE  Life!LifeNext
  <2>1. /\ attempts[x].state \in {"authorized", "dispatched", "indeterminate"}
        /\ Finish({x}, "cancelled", "unknown")
    BY <1>7 DEF Cancel
  <2>2. "cancelled" \in Life!LifeOutcomes(LifeOf(attempts[x].state))
    BY <2>1 DEF LifeOf, Life!LifeOutcomes, Life!LifeDecided
  <2> QED
    BY <1>0, <2>1, <2>2, FinishSettles
<1>8. ASSUME NEW x \in Attempts, NEW h, NEW tok, Timeout(x, h, tok)
      PROVE  Life!LifeNext
  <2>1. /\ attempts[x].state \in InFlight
        /\ Finish({x}, "timed_out", "unknown")
    BY <1>8 DEF Timeout, CanTimeOut
  <2>2. "timed_out" \in Life!LifeOutcomes(LifeOf(attempts[x].state))
    BY <2>1 DEF InFlight, LifeOf, Life!LifeOutcomes, Life!LifeDecided
  <2> QED
    BY <1>0, <2>1, <2>2, FinishSettles DEF InFlight
<1>9. ASSUME NEW x \in Attempts, NEW result, Cleanup(x, result)
      PROVE  UNCHANGED Life!lifeVars
  <2>1. attempts[x] \in Attempt
    BY <1>0, <1>9, MadeAttempt DEF Cleanup, Decided
  <2>2. \A a \in Attempts : attempts'[a].state = attempts[a].state
    BY <1>0, <1>9, <2>1 DEF Cleanup, KernelTypeOK, Attempt
  <2> QED
    BY <2>2 DEF Life!lifeVars, Lives
<1>10. CASE ActionNext /\ ~ ClearHalt
  BY <1>0, <1>2, <1>3, <1>4, <1>5, <1>6, <1>7, <1>8, <1>9, <1>10, EmergencyStopInterrupts
  DEF ActionNext
<1> QED
  BY <1>1, <1>10 DEF KernelNext, ClearHalt, kernelVars, actionVars

\* The action service tells the life of its attempts as the edge and the runs do
\* (KernelImplementsAttemptLife), the emergency stop over many rows included.
THEOREM KernelTellsAttemptLife == KernelSpec => KernelImplementsAttemptLife
<1>1. KernelInit => Life!LifeInit
  BY DEF KernelInit, NoAttempt, Life!LifeInit, Lives, LifeOf
<1>2. KernelInv /\ [KernelNext]_kernelVars => [Life!LifeNext]_Life!lifeVars
  BY KernelLifeStep
<1> QED
  BY <1>1, <1>2, KernelInvariant, PTL
  DEF KernelSpec, KernelImplementsAttemptLife, Life!LifeSpec

-----------------------------------------------------------------------------
(* The kernel beside the lease authority.                                  *)

\* No operation of the action service writes a session, a lease or a clock.
LEMMA ActionsLeaveLeases ==
    ASSUME [KernelNext]_kernelVars
    PROVE  [LeaseNext]_leaseVars
<1>1. CASE ActionNext
  <2>1. EmergencyStop \/ ClearHalt => UNCHANGED leaseVars
    BY DEF EmergencyStop, ClearHalt
  <2>2. ASSUME NEW a, NEW k, NEW l, NEW d, NEW h, NEW tok, NEW obs, NEW now,
               Authorize(a, k, l, d, h, tok, obs, now) \/ Dispatch(a, h, tok, now)
        PROVE  UNCHANGED leaseVars
    BY <2>2 DEF Authorize, Dispatch
  <2>3. ASSUME NEW a, NEW h, NEW obs, NEW post, NEW now,
               Complete(a, h, obs, post, now) \/ Reconcile(a, h, obs, post, now)
        PROVE  UNCHANGED leaseVars
    BY <2>3 DEF Complete, Reconcile
  <2>4. ASSUME NEW a, NEW h, NEW tok, NEW result,
               \/ MarkIndeterminate(a) \/ Cancel(a, h, tok) \/ Timeout(a, h, tok)
               \/ Cleanup(a, result)
        PROVE  UNCHANGED leaseVars
    BY <2>4 DEF MarkIndeterminate, Cancel, Timeout, Cleanup
  <2> QED
    BY <1>1, <2>1, <2>2, <2>3, <2>4 DEF ActionNext
<1>2. CASE UNCHANGED kernelVars
  BY <1>2 DEF kernelVars
<1> QED
  BY <1>1, <1>2 DEF KernelNext

\* The safety kernel runs the lease authority as it is: whatever is proved of
\* sessions and leases alone holds while attempts are made, sent and stopped.
THEOREM KernelRunsLeases == KernelSpec => LeaseSpec
<1>1. KernelInit => LeaseInit
  BY DEF KernelInit
<1>2. [KernelNext]_kernelVars => [LeaseNext]_leaseVars
  BY ActionsLeaveLeases
<1> QED
  BY <1>1, <1>2, PTL DEF KernelSpec, LeaseSpec

\* So the leases the kernel validates against are those of a fenced device, and a
\* lease that ended while an attempt was on its way stays ended.
THEOREM KernelIsFenced == KernelSpec => ImplementsFencedDevice /\ FencedStaysFenced
BY KernelRunsLeases, LeasesImplementFencedDevice, FencedForever, PTL

\* When Dispatch sends an attempt, no attempt of its device is bound to a newer
\* lease: inputs of a former holder never arrive after those of its successor.
THEOREM FenceOrder == KernelSpec => InputsInFenceOrder
<1>1. ASSUME KernelInv, [KernelNext]_kernelVars, NEW a \in Attempts, NEW b \in Attempts,
             attempts[a].state # "absent", attempts[a].device = attempts[b].device,
             attempts[b].state # "dispatched", attempts'[b].state = "dispatched"
      PROVE  attempts[a].token <= attempts[b].token
  <2>1. attempts[b].state # "absent" /\ AttemptStep(b)
    BY <1>1, AttemptSteps DEF AttemptStep, Open, InFlight
  <2>2. attempts[b] \in Attempt /\ attempts[a] \in Attempt
    BY <1>1, <2>1, MadeAttempt DEF KernelInv
  <2>3. HoldsDevice(b)
    BY <1>1, <2>1, <2>2 DEF AttemptStep, Attempt, Decided
  <2>4. /\ attempts[a].lease \in LeasesOn(attempts[b].device)
        /\ leases[attempts[a].lease].token = attempts[a].token
    BY <1>1, <2>2 DEF KernelInv, BoundToGrantedLease, LeasesOn, Attempt
  <2> QED
    BY <1>1, <2>1, <2>3, <2>4, HolderOutranks
<1>2. KernelInv /\ [KernelNext]_kernelVars =>
        [\A a, b \in Attempts :
            /\ attempts[a].state # "absent" /\ attempts[a].device = attempts[b].device
            /\ attempts[b].state # "dispatched" /\ attempts'[b].state = "dispatched"
            => attempts[a].token <= attempts[b].token
        ]_kernelVars
  BY <1>1
<1> QED
  BY <1>2, KernelInvariant, PTL DEF KernelSpec, InputsInFenceOrder

\* Out of doubt leads only the active lease of the attempt.
LEMMA DoubtNeedsLease ==
    ASSUME KernelInv, [KernelNext]_kernelVars, NEW a \in Attempts, Stranded(a)
    PROVE  /\ attempts'[a].state = "indeterminate"
           /\ attempts'[a].lease = attempts[a].lease
<1>0. /\ KernelTypeOK /\ attempts[a].state = "indeterminate" /\ attempts[a] \in Attempt
      /\ leases[attempts[a].lease].state # "active"
  BY MadeAttempt DEF KernelInv, Stranded
<1>1. CASE UNCHANGED attempts
  BY <1>0, <1>1
<1>2. ASSUME NEW done \in SUBSET Attempts, NEW st, NEW post, Finish(done, st, post),
             a \notin done
      PROVE  attempts'[a] = attempts[a]
  BY <1>2 DEF Finish
<1>3. CASE EmergencyStop
  <2>1. a \notin Dispatchable /\ Dispatchable \in SUBSET Attempts
    BY <1>0 DEF Dispatchable, InFlight
  <2> QED
    BY <1>0, <1>2, <1>3, <2>1 DEF EmergencyStop
<1>4. ASSUME NEW x \in Attempts, NEW k, NEW l, NEW d, NEW h, NEW tok, NEW obs, NEW now,
             Authorize(x, k, l, d, h, tok, obs, now)
      PROVE  attempts'[a] = attempts[a]
  BY <1>0, <1>4 DEF Authorize, KernelTypeOK
<1>5. ASSUME NEW x \in Attempts, NEW h, NEW tok, NEW now, Dispatch(x, h, tok, now)
      PROVE  attempts'[a] = attempts[a]
  <2>1. a # x
    BY <1>0, <1>5 DEF Dispatch
  <2>2. CASE Finish({x}, "failed", "unknown")
    BY <1>2, <2>1, <2>2
  <2>3. CASE attempts' = [attempts EXCEPT ![x].state = "dispatched", ![x].sent = TRUE]
    BY <1>0, <2>1, <2>3 DEF KernelTypeOK
  <2> QED
    BY <1>5, <2>2, <2>3 DEF Dispatch
<1>6. ASSUME NEW x \in Attempts, NEW h, NEW obs, NEW post, NEW tok, NEW now,
             \/ Complete(x, h, obs, post, now) \/ Reconcile(x, h, obs, post, now)
             \/ MarkIndeterminate(x) \/ Cancel(x, h, tok) \/ Timeout(x, h, tok)
      PROVE  attempts'[a] = attempts[a]
  <2>1. a # x
    BY <1>0, <1>6 DEF Complete, Reconcile, MarkIndeterminate, Cancel, Timeout, Awaiting,
                      CanTimeOut, InFlight, ValidLease
  <2>2. \E st, p : Finish({x}, st, p)
    BY <1>6 DEF Complete, Reconcile, MarkIndeterminate, Cancel, Timeout
  <2> QED
    BY <1>2, <2>1, <2>2
<1>7. ASSUME NEW x \in Attempts, NEW result, Cleanup(x, result)
      PROVE  /\ attempts'[a].state = "indeterminate"
             /\ attempts'[a].lease = attempts[a].lease
  BY <1>0, <1>7 DEF Cleanup, KernelTypeOK, Attempt
<1>8. CASE ActionNext /\ ~ ClearHalt
  BY <1>0, <1>3, <1>4, <1>5, <1>6, <1>7, <1>8 DEF ActionNext
<1> QED
  BY <1>1, <1>8 DEF KernelNext, ClearHalt, kernelVars, actionVars

\* An attempt that is in doubt when its lease ends stays in doubt for good: no
\* later call of Reconcile, Cancel, Timeout or the emergency stop decides it.
THEOREM StrandedForGood ==
    ASSUME NEW a \in Attempts
    PROVE  KernelSpec => [](Stranded(a) => []Stranded(a))
<1>1. ASSUME KernelInv, [KernelNext]_kernelVars, Stranded(a)
      PROVE  Stranded(a)'
  <2> DEFINE l == attempts[a].lease
  <2>1. /\ attempts'[a].state = "indeterminate" /\ attempts'[a].lease = l
    BY <1>1, DoubtNeedsLease
  <2>2. l \in Leases /\ leases[l].state # "absent" /\ leases[l].state # "active"
    BY <1>1, MadeAttempt DEF Stranded, KernelInv, BoundToGrantedLease, Attempt
  <2>3. RowStep(l)
    BY <1>1, <2>2, ActionsLeaveLeases, RowSteps DEF KernelInv
  <2>4. leases'[l].state # "active"
    BY <2>2, <2>3 DEF RowStep
  <2> QED
    BY <2>1, <2>4 DEF Stranded
<1> QED
  BY <1>1, KernelInvariant, PTL DEF KernelSpec

=============================================================================
