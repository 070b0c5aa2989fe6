---------------------------- MODULE ActionKernel ----------------------------
(***************************************************************************)
(* The safety kernel: HaltService and ActionService of                     *)
(* internal/store/sqlite/safety_actions.go, over the sessions and leases   *)
(* of LeaseAuthority.                                                      *)
(*                                                                         *)
(* An action attempt is authorized, dispatched and completed in separate   *)
(* transactions while leases lapse, sessions close and an operator may set *)
(* the emergency stop in between.  Calls that only replay a recorded       *)
(* result, and policy denials, change no attempt and are left out.         *)
(***************************************************************************)
EXTENDS LeaseAuthority

CONSTANTS
    Attempts,           \* attempt identifiers
    Keys,               \* idempotency keys
    Observations        \* freshness tokens of device readings

ASSUME KernelAssumption == None \notin Keys

VARIABLES
    halt,               \* control_halts.state
    attempts,           \* control_action_attempts
    keyOutcome          \* idempotency_keys.outcome

actionVars == <<halt, attempts, keyOutcome>>
kernelVars == <<leaseVars, actionVars>>

InFlight == {"authorized", "dispatched", "acknowledged"}
Decided  == {"verified", "failed", "timed_out", "cancelled"}
Posts    == {"passed", "failed", "unknown"}

NoAttempt == [state |-> "absent", key |-> None, device |-> None, lease |-> None,
              token |-> 0, observed |-> None, sent |-> FALSE,
              post |-> "pending", cleanup |-> "pending"]

Attempt == [state : InFlight \cup Decided \cup {"indeterminate"}, key : Keys,
            device : Devices, lease : Leases, token : Nat \ {0},
            observed : Observations \cup {None}, sent : BOOLEAN,
            post : Posts \cup {"pending"},
            cleanup : {"pending", "succeeded", "failed"}]

KeyOutcomes == {"free", "reserved", "succeeded", "failed", "indeterminate"}

-----------------------------------------------------------------------------
\* Mutant of ValidLease: the stored token is not compared with the caller's, and
\* a lease that is no longer active still counts.
ValidLeaseByHolder(l, d, h, tok, now) ==
    /\ leases[l].device = d /\ leases[l].holder = h
    /\ Before(now, leases[l].expires)

\* validateLeaseTupleTx: lease, holder, session, device and token, at a reading.
ValidLease(l, d, h, tok, now) ==
    /\ leases[l].state = "active"
    /\ leases[l].device = d
    /\ leases[l].holder = h
    /\ Before(now, leases[l].expires)
    /\ sessions[leases[l].session].state = "active"
    /\ Before(now, sessions[leases[l].session].expires)
    /\ deviceState[d] \notin {"retired", "unavailable"}
    /\ leases[l].token = tok

\* policies.Evaluate denies first on the emergency stop.  Its other inputs are
\* facts of the request; a request they refuse leaves no attempt behind.
PolicyAllows == halt # "emergency_stop"

\* The idempotency outcome finishAttemptTx stores for a state.
OutcomeOf(st) == CASE st = "verified" -> "succeeded"
                   [] st = "indeterminate" -> "indeterminate"
                   [] OTHER -> "failed"

\* finishAttemptTx on every attempt of a set.
Finish(done, st, post) ==
    /\ attempts' = [a \in Attempts |->
            IF a \in done THEN [attempts[a] EXCEPT !.state = st, !.post = post]
                          ELSE attempts[a]]
    /\ keyOutcome' = [k \in Keys |->
            IF \E a \in done : attempts[a].key = k THEN OutcomeOf(st)
                                                   ELSE keyOutcome[k]]

-----------------------------------------------------------------------------
(* HaltService.                                                            *)

\* Mutant of Dispatchable: only attempts that are already on their way stop.
DispatchableSentOnly == {a \in Attempts : attempts[a].state = "dispatched"}

\* cancelDispatchableAttemptsTx: what an emergency stop cancels.
Dispatchable == {a \in Attempts : attempts[a].state \in InFlight}

EmergencyStop ==
    /\ halt' = "emergency_stop"
    /\ Finish(Dispatchable, "cancelled", "unknown")
    /\ UNCHANGED leaseVars

ClearHalt ==
    /\ halt' = "clear"
    /\ UNCHANGED <<attempts, keyOutcome, leaseVars>>

-----------------------------------------------------------------------------
(* ActionService.                                                          *)

\* Mutant of KeyUnused: only attempts still in flight are looked up.
KeyUnusedInFlight(k) ==
    \A a \in Attempts : attempts[a].state \in InFlight => attempts[a].key # k

\* findActionAttemptByKeyTx found nothing: otherwise the call replays or conflicts.
KeyUnused(k) == \A a \in Attempts : attempts[a].key # k

Authorize(a, k, l, d, h, tok, obs, now) ==
    /\ attempts[a].state = "absent"
    /\ KeyUnused(k)
    /\ ValidLease(l, d, h, tok, now)
    /\ PolicyAllows
    /\ attempts' = [attempts EXCEPT ![a] =
            [NoAttempt EXCEPT !.state = "authorized", !.key = k, !.device = d,
                              !.lease = l, !.token = tok, !.observed = obs]]
    /\ keyOutcome' = [keyOutcome EXCEPT ![k] = "reserved"]
    /\ UNCHANGED <<halt, leaseVars>>

\* The caller presents its own holder and token against the attempt's lease; a
\* refusal by the lease or by the emergency stop fails the attempt for good.
Dispatch(a, h, tok, now) ==
    /\ attempts[a].state = "authorized"
    /\ IF /\ ValidLease(attempts[a].lease, attempts[a].device, h, tok, now)
          /\ halt # "emergency_stop"
       THEN /\ attempts' = [attempts EXCEPT ![a].state = "dispatched", ![a].sent = TRUE]
            /\ UNCHANGED keyOutcome
       ELSE Finish({a}, "failed", "unknown")
    /\ UNCHANGED <<halt, leaseVars>>

\* Mutant of Awaiting: a completion may also close an attempt never dispatched.
AwaitingAny(a) == attempts[a].state \in InFlight

\* The states in which Complete and MarkIndeterminate accept a result.
Awaiting(a) == attempts[a].state \in {"dispatched", "acknowledged"}

\* A completion is judged against a reading taken after the attempt.
Fresh(a, obs) == obs # None /\ attempts[a].observed # obs

\* Mutant of Verdict: the postcondition is stored as the state.
VerdictAsPosted == [passed |-> "verified", failed |-> "failed", unknown |-> "unknown"]

Verdict == [passed  |-> "verified", failed |-> "failed", unknown |-> "indeterminate"]

Complete(a, h, obs, post, now) ==
    /\ Awaiting(a)
    /\ IF /\ ValidLease(attempts[a].lease, attempts[a].device, h, attempts[a].token, now)
          /\ Fresh(a, obs)
       THEN Finish({a}, Verdict[post], post)
       ELSE Finish({a}, "failed", "unknown")
    /\ UNCHANGED <<halt, leaseVars>>

MarkIndeterminate(a) ==
    /\ Awaiting(a)
    /\ Finish({a}, "indeterminate", "unknown")
    /\ UNCHANGED <<halt, leaseVars>>

Reconcile(a, h, obs, post, now) ==
    /\ attempts[a].state = "indeterminate"
    /\ Fresh(a, obs)
    /\ ValidLease(attempts[a].lease, attempts[a].device, h, attempts[a].token, now)
    /\ post \in {"passed", "failed"}
    /\ Finish({a}, Verdict[post], post)
    /\ UNCHANGED <<halt, leaseVars>>

\* Cancel reads the clock inside the transaction.
Cancel(a, h, tok) ==
    /\ attempts[a].state \in {"authorized", "dispatched", "indeterminate"}
    /\ ValidLease(attempts[a].lease, attempts[a].device, h, tok, clock)
    /\ Finish({a}, "cancelled", "unknown")
    /\ UNCHANGED <<halt, leaseVars>>

\* Mutant of CanTimeOut: an attempt that was decided may still time out.
CanTimeOutAnytime(a) == attempts[a].state # "absent"

CanTimeOut(a) == attempts[a].state \in InFlight

\* The lease is matched by holder and token only: it may have ended.
Timeout(a, h, tok) ==
    /\ CanTimeOut(a)
    /\ leases[attempts[a].lease].holder = h
    /\ leases[attempts[a].lease].token = tok
    /\ Finish({a}, "timed_out", "unknown")
    /\ UNCHANGED <<halt, leaseVars>>

Cleanup(a, result) ==
    /\ attempts[a].state \in Decided \cup {"indeterminate"}
    /\ attempts[a].cleanup = "pending"
    /\ attempts' = [attempts EXCEPT ![a].cleanup = result]
    /\ UNCHANGED <<halt, keyOutcome, leaseVars>>

-----------------------------------------------------------------------------
Tokens == {leases[l].token : l \in Leases} \ {0}

KernelInit ==
    /\ LeaseInit
    /\ halt = "clear"
    /\ attempts = [a \in Attempts |-> NoAttempt]
    /\ keyOutcome = [k \in Keys |-> "free"]

ActionNext ==
    \/ EmergencyStop
    \/ ClearHalt
    \/ \E a \in Attempts :
        \/ \E k \in Keys, l \in Leases, d \in Devices, h \in Holders, tok \in Tokens,
              obs \in Observations \cup {None}, now \in Readings :
                Authorize(a, k, l, d, h, tok, obs, now)
        \/ \E h \in Holders, now \in Readings :
            \/ \E tok \in Tokens : Dispatch(a, h, tok, now)
            \/ \E obs \in Observations \cup {None}, post \in Posts :
                \/ Complete(a, h, obs, post, now)
                \/ Reconcile(a, h, obs, post, now)
        \/ MarkIndeterminate(a)
        \/ \E h \in Holders, tok \in Tokens : Cancel(a, h, tok) \/ Timeout(a, h, tok)
        \/ \E result \in {"succeeded", "failed"} : Cleanup(a, result)

KernelNext ==
    \/ LeaseNext /\ UNCHANGED actionVars
    \/ ActionNext

KernelSpec == KernelInit /\ [][KernelNext]_kernelVars

-----------------------------------------------------------------------------
(* Properties.                                                             *)

\* Every attempt row is one ActionService could have written.
KernelTypeOK ==
    /\ halt \in {"clear", "emergency_stop"}
    /\ attempts \in [Attempts -> Attempt \cup {NoAttempt}]
    /\ keyOutcome \in [Keys -> KeyOutcomes]

\* While the emergency stop is set nothing is authorized or on its way: the
\* stop cancels what is in flight in the transaction that sets it, and no
\* interleaved Authorize, Dispatch or replay brings an attempt back.
HaltDrains ==
    halt = "emergency_stop" => \A a \in Attempts : attempts[a].state \notin InFlight

\* An attempt is bound to a lease that was granted for its device, with the
\* token of that lease.
BoundToGrantedLease ==
    \A a \in Attempts : attempts[a].state # "absent" =>
        LET l == attempts[a].lease IN
        /\ leases[l].state # "absent"
        /\ leases[l].device = attempts[a].device
        /\ leases[l].token = attempts[a].token

\* The idempotency table tells the same story as the attempts: a key is free
\* until an attempt reserves it, belongs to one attempt, and its outcome is that
\* attempt's, on every path that ends an attempt (several in one transaction
\* for the emergency stop).
KeyTellsAttempt ==
    /\ \A k \in Keys :
        keyOutcome[k] = "free" <=> \A a \in Attempts : attempts[a].key # k
    /\ \A a \in Attempts : attempts[a].state # "absent" =>
        /\ keyOutcome[attempts[a].key] =
                IF attempts[a].state \in InFlight THEN "reserved"
                ELSE OutcomeOf(attempts[a].state)
        /\ \A b \in Attempts \ {a} : attempts[b].key # attempts[a].key

\* Success is never claimed for an action that was not sent: a verified or
\* indeterminate attempt went through Dispatch, and only a verified one has a
\* passed postcondition.
SuccessHasEvidence ==
    \A a \in Attempts :
        /\ attempts[a].state \in {"dispatched", "acknowledged", "verified", "indeterminate"}
              => attempts[a].sent
        /\ attempts[a].state = "verified" <=> attempts[a].post = "passed"

\* Fencing reaches the device: in the step that dispatches or verifies an
\* attempt, no lease of the device carries a higher token than the attempt's.
\* A holder that was fenced off can neither send an input nor have an old one
\* recorded as done, whatever it was holding when it lost the lease.
StaleFenceNeverActs ==
    [][\A a \in Attempts :
        /\ attempts'[a].state # attempts[a].state
        /\ attempts'[a].state \in {"dispatched", "verified"}
        => \A l \in LeasesOn(attempts[a].device) : leases[l].token <= attempts[a].token
      ]_kernelVars

\* A decided attempt is never decided again, and an attempt keeps the key,
\* lease, token and reading it was authorized with.
DecidedOnce ==
    [][\A a \in Attempts : attempts[a].state # "absent" =>
        /\ attempts[a].state \in Decided => attempts'[a].state = attempts[a].state
        /\ attempts'[a].key = attempts[a].key
        /\ attempts'[a].lease = attempts[a].lease
        /\ attempts'[a].token = attempts[a].token
        /\ attempts'[a].observed = attempts[a].observed
      ]_kernelVars

\* Inputs reach a device in fence order: when Dispatch sends an attempt, no attempt
\* of the device, sent, decided or still waiting, is bound to a newer lease.
InputsInFenceOrder ==
    [][\A a, b \in Attempts :
        /\ attempts[a].state # "absent" /\ attempts[a].device = attempts[b].device
        /\ attempts[b].state # "dispatched" /\ attempts'[b].state = "dispatched"
        => attempts[a].token <= attempts[b].token
      ]_kernelVars

\* An attempt in doubt whose lease has ended: Reconcile and Cancel, the two ways
\* out of doubt, both ask for that lease.
Stranded(a) == /\ attempts[a].state = "indeterminate"
               /\ leases[attempts[a].lease].state # "active"

\* The life of each attempt; one that was acknowledged was sent.
LifeOf(st) == IF st = "acknowledged" THEN "dispatched" ELSE st

Lives == [a \in Attempts |-> LifeOf(attempts[a].state)]

\* Every transaction of the action service, the emergency stop over many rows
\* included, tells the life of its attempts as AttemptLife has it.
Life == INSTANCE AttemptLife WITH life <- Lives

KernelImplementsAttemptLife == Life!LifeSpec
=============================================================================
