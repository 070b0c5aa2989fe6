---------------------------- MODULE RunLifecycle ----------------------------
(***************************************************************************)
(* One workflow run over several devices: RunService of                    *)
(* internal/store/sqlite/workflows_runs.go with the transition tables of   *)
(* internal/runs/model.go.  Each operation is one write transaction, hence *)
(* one action; a refusal rolls back and is a state in which the action is  *)
(* not enabled.  Callers (operator, scheduler, worker, recovery after a    *)
(* restart) come in any order: the service has no scheduler of its own.    *)
(*                                                                         *)
(* Leases are those of FencedDevice, the abstract lease authority: grants  *)
(* appear and end at any time between two operations of the run.           *)
(***************************************************************************)
EXTENDS FencedDevice, FiniteSets

CONSTANTS
    Steps,              \* workflow_steps of the published version
    Attempts,           \* idempotency keys callers present; one row per key
    None,               \* NULL
    MaxToken            \* bound: the last grant number of a device

Approvals == {"pending", "approved", "rejected"}

ASSUME RunAssumption == None \notin GrantRecord \cup Approvals /\ MaxToken \in Nat

VARIABLES
    run,                \* the runs row
    target,             \* run_targets, by device
    step,               \* target_run_steps, by device and workflow step
    attempt             \* action_attempts, by idempotency key

rowVars == <<run, target, step, attempt>>
runVars == <<granted, live, run, target, step, attempt>>

RunFinal    == {"completed", "failed", "cancelled"}
RunStates   == {"requested", "validating", "queued", "running", "completing"}
                    \cup RunFinal
TargetFinal == {"succeeded", "failed", "cancelled", "cleanup_failed"}
TargetStates == {"pending", "leased", "queued", "running", "verifying"}
                    \cup TargetFinal
StepStates  == {"pending", "running", "succeeded", "failed"}
Decided     == {"verified", "failed", "timed_out", "cancelled"}
AttemptStates == {"authorized", "dispatched", "indeterminate"} \cup Decided

NoRun     == [state |-> "absent", paused |-> FALSE, approval |-> None]
NoTarget  == [state |-> "absent", lease |-> None]
NoAttempt == [state |-> "absent", device |-> None, step |-> None, token |-> 0]

\* CanTransitionRun, on the loaded state.
CanTransitionRun(from, to) ==
    \/ from = "requested"  /\ to \in {"validating", "cancelled"}
    \/ from = "validating" /\ to \in {"queued", "failed", "cancelled"}
    \/ from = "queued"     /\ to \in {"running", "paused", "failed", "cancelled"}
    \/ from = "running"    /\ to \in {"completing", "paused", "failed", "cancelled"}
    \/ from = "paused"     /\ to \in {"queued", "cancelled"}
    \/ from = "completing" /\ to \in {"completed", "failed", "cancelled"}

\* CanTransitionTarget.
CanTransitionTarget(from, to) ==
    \/ from = "pending"   /\ to \in {"leased", "failed", "cancelled"}
    \/ from = "leased"    /\ to \in {"queued", "failed", "cancelled"}
    \/ from = "queued"    /\ to \in {"running", "failed", "cancelled"}
    \/ from = "running"   /\ to \in {"verifying", "failed", "cancelled"}
    \/ from = "verifying" /\ to \in {"succeeded", "failed", "cancelled", "cleanup_failed"}
    \/ from = "succeeded" /\ to = "cleanup_failed"

\* loadParentRun: a run with paused_at is read as paused; its row says running.
LoadedState == IF run.paused THEN "paused" ELSE run.state

Targets == {d \in Devices : target[d].state # "absent"}

-----------------------------------------------------------------------------
\* Create: the target snapshot is resolved once; a row per target and step.
Create(devices, approval) ==
    /\ run.state = "absent"
    /\ devices # {}
    /\ run' = [state |-> "requested", paused |-> FALSE, approval |-> approval]
    /\ target' = [d \in Devices |->
            IF d \in devices THEN [state |-> "pending", lease |-> None] ELSE NoTarget]
    /\ UNCHANGED <<step, attempt, fencedVars>>

Approve ==
    /\ run.approval = "pending"
    /\ run' = [run EXCEPT !.approval = "approved"]
    /\ UNCHANGED <<target, step, attempt, fencedVars>>

\* Transition and Pause: only the run row changes.
Transition(next) ==
    /\ run.state # "absent"
    /\ next = "validating" => run.approval = "approved"
    /\ CanTransitionRun(LoadedState, next)
    /\ run' = [run EXCEPT !.state = IF next = "paused" THEN "running" ELSE next,
                          !.paused = (next = "paused")]
    /\ UNCHANGED <<target, step, attempt, fencedVars>>

\* The UPDATE that puts every dispatched attempt of the run in doubt.
InDoubt == [a \in Attempts |->
    IF attempt[a].state = "dispatched"
        THEN [attempt[a] EXCEPT !.state = "indeterminate"]
        ELSE attempt[a]]

\* Mutant of CancelledTargets: the UPDATE names every target of the run.
CancelledTargetsAll == [d \in Devices |->
    IF d \in Targets THEN [target[d] EXCEPT !.state = "cancelled"] ELSE target[d]]

\* The UPDATE of Cancel on targets that have not started.
CancelledTargets == [d \in Devices |->
    IF target[d].state \in {"pending", "leased", "queued"}
        THEN [target[d] EXCEPT !.state = "cancelled"]
        ELSE target[d]]

Cancel ==
    /\ run.state # "absent"
    /\ CanTransitionRun(LoadedState, "cancelled")
    /\ run' = [run EXCEPT !.state = "cancelled", !.paused = FALSE]
    /\ target' = CancelledTargets
    /\ attempt' = [a \in Attempts |->
            IF attempt[a].state = "authorized"
                THEN [attempt[a] EXCEPT !.state = "cancelled"]
                ELSE InDoubt[a]]
    /\ UNCHANGED <<step, fencedVars>>

\* Mutant of Recover: what was already decided is put in doubt again.
RecoverEverything ==
    /\ LoadedState \in {"running", "completing", "paused"}
    /\ run' = [run EXCEPT !.state = "running", !.paused = TRUE]
    /\ attempt' = [a \in Attempts |->
            IF attempt[a].state \in {"absent", "authorized"} THEN attempt[a]
                ELSE [attempt[a] EXCEPT !.state = "indeterminate"]]
    /\ UNCHANGED <<target, step, fencedVars>>

\* Recover, called for an active run after the process restarted.
Recover ==
    /\ LoadedState \in {"running", "completing", "paused"}
    /\ run' = [run EXCEPT !.state = "running", !.paused = TRUE]
    /\ attempt' = InDoubt
    /\ UNCHANGED <<target, step, fencedVars>>

-----------------------------------------------------------------------------
\* LeaseTarget: any active lease of the device will do, whatever the run does.
LeaseTarget(d, g) ==
    /\ target[d].state = "pending"
    /\ g.device = d
    /\ target' = [target EXCEPT ![d] = [state |-> "leased", lease |-> g]]
    /\ UNCHANGED <<run, step, attempt, fencedVars>>

\* ensureTargetStepsSucceededTx.
StepsSucceeded(d) == Steps # {} /\ \A s \in Steps : step[d][s] = "succeeded"

\* Mutant of Finalized: a run that is completed keeps its paused_at.
FinalizedStillPaused(rows) ==
    LET states == {rows[d].state : d \in Targets} IN
    IF states \cap {"failed", "cleanup_failed"} # {} /\ run.state \notin RunFinal
        THEN [run EXCEPT !.state = "failed"]
    ELSE IF states = {"succeeded"} /\ run.state \in {"running", "completing"}
        THEN [run EXCEPT !.state = "completed"]
    ELSE run

\* finalizeParentRunTx: the run row after the targets became rows.
Finalized(rows) ==
    LET states == {rows[d].state : d \in Targets} IN
    IF states \cap {"failed", "cleanup_failed"} # {} /\ run.state \notin RunFinal
        THEN [run EXCEPT !.state = "failed", !.paused = FALSE]
    ELSE IF states = {"succeeded"} /\ run.state \in {"running", "completing"}
        THEN [run EXCEPT !.state = "completed", !.paused = FALSE]
    ELSE run

TransitionTarget(d, next) ==
    /\ CanTransitionTarget(target[d].state, next)
    /\ next \in {"verifying", "succeeded"} => StepsSucceeded(d)
    /\ target' = [target EXCEPT ![d].state = next]
    /\ run' = Finalized(target')
    /\ UNCHANGED <<step, attempt, fencedVars>>

-----------------------------------------------------------------------------
\* AuthorizeAttempt, for a key that is not taken (a taken key replays its row).
\* The state of the step is not looked at.
AuthorizeAttempt(a, d, s) ==
    /\ attempt[a].state = "absent"
    /\ target[d].state = "running"
    /\ LoadedState = "running" /\ run.approval = "approved"
    /\ target[d].lease \in live
    /\ attempt' = [attempt EXCEPT ![a] =
            [state |-> "authorized", device |-> d, step |-> s,
             token |-> target[d].lease.token]]
    /\ step' = [step EXCEPT ![d][s] = IF @ = "pending" THEN "running" ELSE @]
    /\ UNCHANGED <<run, target, fencedVars>>

\* Mutant of DispatchAttempt: the lease is not validated again.
DispatchUnvalidated(a, h, tok) ==
    LET lease == target[attempt[a].device].lease IN
    /\ attempt[a].state = "authorized"
    /\ attempt[a].token = tok
    /\ lease.holder = h
    /\ attempt' = [attempt EXCEPT ![a].state = "dispatched"]
    /\ UNCHANGED <<run, target, step, fencedVars>>

\* DispatchAttempt: the lease of the target is validated against what the
\* caller presents; neither the run nor the target is looked at.
DispatchAttempt(a, h, tok) ==
    LET lease == target[attempt[a].device].lease IN
    /\ attempt[a].state = "authorized"
    /\ attempt[a].token = tok
    /\ lease \in live /\ lease.holder = h /\ lease.token = tok
    /\ attempt' = [attempt EXCEPT ![a].state = "dispatched"]
    /\ UNCHANGED <<run, target, step, fencedVars>>

MarkAttemptIndeterminate(a) ==
    /\ attempt[a].state = "dispatched"
    /\ attempt' = [attempt EXCEPT ![a].state = "indeterminate"]
    /\ UNCHANGED <<run, target, step, fencedVars>>

\* Mutant of CompleteAttempt: an acknowledged dispatch counts as a success.
CompleteOptimistic(a, outcome) ==
    /\ attempt[a].state = "dispatched"
    /\ attempt' = [attempt EXCEPT ![a].state = outcome]
    /\ step' = [step EXCEPT ![attempt[a].device][attempt[a].step] =
            IF @ = "running" THEN "succeeded" ELSE @]
    /\ UNCHANGED <<run, target, fencedVars>>

\* CompleteAttempt; verified needs a passed postcondition on a new observation.
CompleteAttempt(a, outcome) ==
    /\ attempt[a].state = "dispatched"
    /\ attempt' = [attempt EXCEPT ![a].state = outcome]
    /\ step' = [step EXCEPT ![attempt[a].device][attempt[a].step] =
            IF @ # "running" THEN @
            ELSE IF outcome = "verified" THEN "succeeded" ELSE "failed"]
    /\ UNCHANGED <<run, target, fencedVars>>

\* ReconcileAttempt: the step is overwritten, whatever it is by now.
ReconcileAttempt(a, outcome) ==
    /\ attempt[a].state = "indeterminate"
    /\ attempt' = [attempt EXCEPT ![a].state = outcome]
    /\ step' = [step EXCEPT ![attempt[a].device][attempt[a].step] =
            IF outcome = "verified" THEN "succeeded" ELSE "failed"]
    /\ UNCHANGED <<run, target, fencedVars>>

-----------------------------------------------------------------------------
RunInit ==
    /\ FencedInit
    /\ run = NoRun
    /\ target = [d \in Devices |-> NoTarget]
    /\ step = [d \in Devices |-> [s \in Steps |-> "pending"]]
    /\ attempt = [a \in Attempts |-> NoAttempt]

\* The lease authority moves on its own.
LeaseStep ==
    /\ FencedNext
    /\ \A g \in granted' : g.token <= MaxToken
    /\ UNCHANGED rowVars

RunStep ==
    \/ \E devices \in SUBSET Devices, approval \in Approvals : Create(devices, approval)
    \/ Approve
    \/ \E next \in RunStates \cup {"paused"} : Transition(next)
    \/ Cancel
    \/ Recover
    \/ \E d \in Devices :
        \/ \E g \in live : LeaseTarget(d, g)
        \/ \E next \in TargetStates : TransitionTarget(d, next)
        \/ \E a \in Attempts, s \in Steps : AuthorizeAttempt(a, d, s)
    \/ \E a \in Attempts :
        \/ \E g \in granted : DispatchAttempt(a, g.holder, g.token)
        \/ MarkAttemptIndeterminate(a)
        \/ \E outcome \in Decided : CompleteAttempt(a, outcome)
        \/ \E outcome \in {"verified", "failed"} : ReconcileAttempt(a, outcome)

RunNext == RunStep \/ LeaseStep

RunSpec == RunInit /\ [][RunNext]_runVars

-----------------------------------------------------------------------------
\* The rows are rows RunService writes; only a running run can be paused.
RunTypeOK ==
    /\ granted \subseteq GrantRecord /\ live \subseteq granted
    /\ run \in [state : RunStates, paused : BOOLEAN, approval : Approvals] \cup {NoRun}
    /\ run.paused => run.state = "running"
    /\ target \in [Devices -> [state : TargetStates, lease : GrantRecord \cup {None}]
                                \cup {NoTarget}]
    /\ step \in [Devices -> [Steps -> StepStates]]
    /\ attempt \in [Attempts -> [state : AttemptStates, device : Devices,
                                 step : Steps, token : Nat] \cup {NoAttempt}]

\* DispatchAttempt lets an attempt leave only under the newest grant of its
\* device, the one it was authorized under: a worker that was fenced off
\* between authorization and dispatch, by expiry, revocation or another
\* holder, sends nothing, however long it waited.
DispatchIsFenced ==
    [][\A a \in Attempts :
        attempt[a].state # "dispatched" /\ attempt'[a].state = "dispatched" =>
            /\ \E g \in live : /\ g.device = attempt[a].device
                               /\ g.token = attempt[a].token
            /\ \A t \in TokensOf(attempt[a].device) : t <= attempt[a].token
      ]_runVars

\* A target is verifying or succeeded only if each of its workflow steps has
\* an attempt of that device and step that was verified, through retries,
\* late completions and reconciliation (the guard in TransitionTarget reads
\* the step rows; Complete and Reconcile keep them honest).
SuccessRestsOnVerifiedAttempts ==
    \A d \in Devices :
        target[d].state \in {"verifying", "succeeded", "cleanup_failed"} =>
            \A s \in Steps : \E a \in Attempts :
                /\ attempt[a].state = "verified"
                /\ attempt[a].device = d /\ attempt[a].step = s

\* A decided attempt is never decided again, an attempt that left is never
\* authorized or sent again, and its binding never changes, whatever cancels,
\* restarts and late answers meet it.
AttemptsDecidedOnce ==
    [][\A a \in Attempts :
        /\ attempt[a].state \in Decided => attempt'[a] = attempt[a]
        /\ attempt[a].state = "indeterminate" =>
                attempt'[a].state \in {"indeterminate", "verified", "failed"}
        /\ attempt[a].state # "absent" =>
                attempt'[a] = [attempt[a] EXCEPT !.state = attempt'[a].state]
      ]_runVars

\* Results stay.  A run that ended stays as it ended although its targets go
\* on: a target that fails after the run was cancelled or completed does not
\* rewrite it.  And the result of one target is never rewritten by another
\* target, by the run or by a cancellation; only its own cleanup may still fail.
ResultsStay ==
    [][/\ run.state \in RunFinal => run'.state = run.state
       /\ \A d \in Devices :
            target[d].state \in TargetFinal =>
                \/ target'[d] = target[d]
                \/ /\ target[d].state = "succeeded"
                   /\ target'[d].state = "cleanup_failed"
                   /\ \A e \in Devices \ {d} : target'[e] = target[e]
      ]_runVars

\* The life of each attempt.
Lives == [a \in Attempts |-> attempt[a].state]

\* The attempt rows of a run tell the life of their attempts as AttemptLife has
\* it, through cancellation and restart over many rows at once.
Life == INSTANCE AttemptLife WITH life <- Lives

RunImplementsAttemptLife == Life!LifeSpec
=============================================================================
