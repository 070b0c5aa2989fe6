------------------------- MODULE RunLifecycleProofs -------------------------
(***************************************************************************)
(* The properties of RunLifecycle for any number of devices, steps, keys   *)
(* and grants.  Every operation of RunService touches the rows in one of a *)
(* few ways; AttemptStep, TargetStep and RunRowStep list them, and the     *)
(* properties follow from the lists and the invariant RunInv.              *)
(***************************************************************************)
EXTENDS RunLifecycle, TLAPS

AttemptRow == [state : AttemptStates, device : Devices, step : Steps, token : Nat]
TargetRow  == [state : TargetStates, lease : GrantRecord \cup {None}]
RunRow     == [state : RunStates, paused : BOOLEAN, approval : Approvals]

\* A target's lease was granted, for the target's own device.
TargetLeasesGranted ==
    \A d \in Devices : target[d].lease # None =>
        target[d].lease \in granted /\ target[d].lease.device = d

\* A step that succeeded has an attempt that was verified.
StepsRestOnAttempts ==
    \A d \in Devices, s \in Steps : step[d][s] = "succeeded" =>
        \E a \in Attempts : /\ attempt[a].state = "verified"
                            /\ attempt[a].device = d /\ attempt[a].step = s

\* Target rows are inserted with their run.
TargetsComeWithRun ==
    run.state = "absent" => \A d \in Devices : target[d] = NoTarget

RunInv ==
    /\ RunTypeOK
    /\ LiveIsNewest
    /\ TargetLeasesGranted
    /\ StepsRestOnAttempts
    /\ TargetsComeWithRun
    /\ SuccessRestsOnVerifiedAttempts

-----------------------------------------------------------------------------
(* Grants.                                                                 *)

\* A step of the lease authority keeps grants well formed.
LEMMA GrantTypes ==
    ASSUME granted \subseteq GrantRecord, live \subseteq granted, [FencedNext]_fencedVars
    PROVE  granted' \subseteq GrantRecord /\ live' \subseteq granted'
<1>1. CASE UNCHANGED fencedVars
  BY <1>1 DEF fencedVars
<1>2. ASSUME NEW d \in Devices, NEW h \in Holders,
             NEW tok \in {1} \cup {t + 1 : t \in TokensOf(d)}, Grant(d, h, tok)
      PROVE  granted' \subseteq GrantRecord /\ live' \subseteq granted'
  <2>1. \A t \in TokensOf(d) : t \in Nat
    BY DEF TokensOf, GrantRecord
  <2>2. tok \in Nat \ {0}
    BY <2>1
  <2>3. [device |-> d, holder |-> h, token |-> tok] \in GrantRecord
    BY <2>2 DEF GrantRecord
  <2> QED
    BY <1>2, <2>3 DEF Grant
<1>3. ASSUME NEW ended \in SUBSET live, End(ended)
      PROVE  granted' \subseteq GrantRecord /\ live' \subseteq granted'
  BY <1>3 DEF End
<1> QED
  BY <1>1, <1>2, <1>3 DEF FencedNext

\* A new grant is numbered above the others and replaces what was live.
LEMMA NewestStep ==
    ASSUME granted \subseteq GrantRecord, live \subseteq granted, LiveIsNewest,
           [FencedNext]_fencedVars
    PROVE  LiveIsNewest'
<1>1. CASE UNCHANGED fencedVars
  BY <1>1 DEF fencedVars, LiveIsNewest
<1>2. ASSUME NEW d \in Devices, NEW h \in Holders,
             NEW tok \in {1} \cup {t + 1 : t \in TokensOf(d)}, Grant(d, h, tok)
      PROVE  LiveIsNewest'
  <2> DEFINE new == [device |-> d, holder |-> h, token |-> tok]
  <2>1. /\ granted' = granted \cup {new}
        /\ live' = {x \in live : x.device # d} \cup {new}
    BY <1>2 DEF Grant
  <2>2. ASSUME NEW x \in granted, x.device = d PROVE x.token < tok
    BY <1>2, <2>2 DEF Grant, TokensOf
  <2>3. new.device = d /\ new.token = tok
    OBVIOUS
  <2> HIDE DEF new
  <2>4. ASSUME NEW g \in live', NEW x \in granted', x.device = g.device, x # g
        PROVE  x.token < g.token
    <3>1. CASE g = new
      BY <2>1, <2>2, <2>3, <2>4, <3>1
    <3>2. CASE g \in live /\ g.device # d
      <4>1. x \in granted
        BY <2>1, <2>3, <2>4, <3>2
      <4> QED
        BY <2>4, <3>2, <4>1 DEF LiveIsNewest
    <3> QED
      BY <2>1, <3>1, <3>2
  <2> QED
    BY <2>4 DEF LiveIsNewest
<1>3. ASSUME NEW ended \in SUBSET live, End(ended)
      PROVE  LiveIsNewest'
  BY <1>3 DEF End, LiveIsNewest
<1> QED
  BY <1>1, <1>2, <1>3 DEF FencedNext

\* What the abstract lease authority promises: in every behaviour at most
\* one grant of a device is live, the one with the highest number.
THEOREM FencedLiveIsNewest == FencedSpec => []LiveIsNewest
<1> DEFINE Inv == granted \subseteq GrantRecord /\ live \subseteq granted /\ LiveIsNewest
<1>1. FencedInit => Inv
  BY DEF FencedInit, LiveIsNewest
<1>2. Inv /\ [FencedNext]_fencedVars => Inv'
  BY GrantTypes, NewestStep
<1> QED
  BY <1>1, <1>2, PTL DEF FencedSpec

-----------------------------------------------------------------------------
(* What an operation may do to one attempt row.                            *)

\* Nothing, authorization, dispatch under the live lease of its target,
\* cancellation before dispatch, doubt, a decision.
AttemptStep(a) ==
    \/ attempt'[a] = attempt[a]
    \/ /\ attempt[a].state = "absent"
       /\ attempt'[a] \in AttemptRow /\ attempt'[a].state = "authorized"
    \/ /\ attempt[a].state = "authorized"
       /\ attempt'[a] = [attempt[a] EXCEPT !.state = "cancelled"]
    \/ /\ attempt[a].state = "authorized"
       /\ attempt'[a] = [attempt[a] EXCEPT !.state = "dispatched"]
       /\ target[attempt[a].device].lease \in live
       /\ target[attempt[a].device].lease.token = attempt[a].token
    \/ /\ attempt[a].state = "dispatched"
       /\ \E st \in Decided \cup {"indeterminate"} :
            attempt'[a] = [attempt[a] EXCEPT !.state = st]
    \/ /\ attempt[a].state = "indeterminate"
       /\ \E st \in {"verified", "failed"} :
            attempt'[a] = [attempt[a] EXCEPT !.state = st]

\* An attempt row that exists has all its columns.
LEMMA AttemptRows ==
    ASSUME RunTypeOK, NEW a \in Attempts, attempt[a].state # "absent"
    PROVE  attempt[a] \in AttemptRow
BY DEF RunTypeOK, NoAttempt, AttemptRow

\* A target row that exists has all its columns.
LEMMA TargetRows ==
    ASSUME RunTypeOK, NEW d \in Devices, target[d].state # "absent"
    PROVE  target[d] \in TargetRow
BY DEF RunTypeOK, NoTarget, TargetRow

\* A lease that is live is a grant, and not NULL.
LEMMA LiveLease ==
    ASSUME RunTypeOK, NEW g \in live
    PROVE  g \in GrantRecord /\ g \in granted /\ g # None
BY RunAssumption DEF RunTypeOK

\* Every operation treats every attempt row in one of these ways.
LEMMA AttemptSteps ==
    ASSUME RunTypeOK, [RunNext]_runVars, NEW a \in Attempts
    PROVE  AttemptStep(a)
<1>0. attempt = [x \in Attempts |-> attempt[x]]
  BY DEF RunTypeOK
<1>1. CASE UNCHANGED attempt
  BY <1>1 DEF AttemptStep
<1>2. CASE Cancel
  <2>1. attempt'[a] = IF attempt[a].state = "authorized"
                        THEN [attempt[a] EXCEPT !.state = "cancelled"] ELSE InDoubt[a]
    BY <1>2 DEF Cancel
  <2> QED
    BY <2>1 DEF InDoubt, AttemptStep
<1>3. CASE Recover
  BY <1>3 DEF Recover, InDoubt, AttemptStep
<1>4. ASSUME NEW b \in Attempts, NEW d \in Devices, NEW s \in Steps,
             AuthorizeAttempt(b, d, s)
      PROVE  AttemptStep(a)
  <2> DEFINE row == [state |-> "authorized", device |-> d, step |-> s,
                     token |-> target[d].lease.token]
  <2>1. target[d].lease.token \in Nat
    BY <1>4, LiveLease DEF AuthorizeAttempt, GrantRecord
  <2>2. row \in AttemptRow
    BY <2>1 DEF AttemptRow, AttemptStates
  <2>3. attempt'[a] = IF a = b THEN row ELSE attempt[a]
    BY <1>0, <1>4 DEF AuthorizeAttempt
  <2>4. row.state = "authorized"
    OBVIOUS
  <2> HIDE DEF row
  <2> QED
    BY <1>4, <2>2, <2>3, <2>4 DEF AuthorizeAttempt, AttemptStep
<1>5. ASSUME NEW b \in Attempts, NEW g \in granted, DispatchAttempt(b, g.holder, g.token)
      PROVE  AttemptStep(a)
  BY <1>0, <1>5 DEF DispatchAttempt, AttemptStep
<1>6. ASSUME NEW b \in Attempts, MarkAttemptIndeterminate(b)
      PROVE  AttemptStep(a)
  BY <1>0, <1>6 DEF MarkAttemptIndeterminate, AttemptStep
<1>7. ASSUME NEW b \in Attempts, NEW outcome \in Decided, CompleteAttempt(b, outcome)
      PROVE  AttemptStep(a)
  <2>1. attempt[b].state = "dispatched"
    BY <1>7 DEF CompleteAttempt
  <2>2. attempt'[a] = IF a = b THEN [attempt[a] EXCEPT !.state = outcome] ELSE attempt[a]
    BY <1>0, <1>7 DEF CompleteAttempt
  <2> QED
    BY <2>1, <2>2 DEF AttemptStep
<1>8. ASSUME NEW b \in Attempts, NEW outcome \in {"verified", "failed"},
             ReconcileAttempt(b, outcome)
      PROVE  AttemptStep(a)
  <2>1. attempt[b].state = "indeterminate"
    BY <1>8 DEF ReconcileAttempt
  <2>2. attempt'[a] = IF a = b THEN [attempt[a] EXCEPT !.state = outcome] ELSE attempt[a]
    BY <1>0, <1>8 DEF ReconcileAttempt
  <2> QED
    BY <2>1, <2>2 DEF AttemptStep
<1> QED
  BY <1>1, <1>2, <1>3, <1>4, <1>5, <1>6, <1>7, <1>8
  DEF RunNext, RunStep, LeaseStep, Create, Approve, Transition, LeaseTarget,
      TransitionTarget, runVars, rowVars

-----------------------------------------------------------------------------
(* What an operation may do to one target row.                             *)

\* Insertion with the run, a lease, or a transition of the table; success
\* needs the steps, and what leaves a success leaves every other target alone.
TargetStep(d) ==
    \/ target'[d] = target[d]
    \/ /\ run.state = "absent" /\ run'.state # "absent"
       /\ target'[d] \in {NoTarget, [state |-> "pending", lease |-> None]}
    \/ /\ target[d].state = "pending"
       /\ \E g \in live :
            g.device = d /\ target'[d] = [state |-> "leased", lease |-> g]
    \/ \E next \in TargetStates :
            /\ CanTransitionTarget(target[d].state, next)
            /\ next \in {"verifying", "succeeded"} => StepsSucceeded(d)
            /\ target'[d] = [state |-> next, lease |-> target[d].lease]
            /\ target[d].state = "succeeded" =>
                    \A e \in Devices \ {d} : target'[e] = target[e]

\* Every operation treats every target row in one of these ways.
LEMMA TargetSteps ==
    ASSUME RunTypeOK, [RunNext]_runVars, NEW d \in Devices
    PROVE  TargetStep(d)
<1>0. target = [x \in Devices |-> target[x]]
  BY DEF RunTypeOK
<1>1. CASE UNCHANGED target
  BY <1>1 DEF TargetStep
<1>2. ASSUME NEW devices \in SUBSET Devices, NEW approval \in Approvals,
             Create(devices, approval)
      PROVE  TargetStep(d)
  BY <1>2 DEF Create, TargetStep
<1>3. CASE Cancel
  <2>1. target' = CancelledTargets
    BY <1>3 DEF Cancel
  <2>2. CASE target[d].state \in {"pending", "leased", "queued"}
    <3>0. target[d] \in TargetRow
      BY <2>2, TargetRows
    <3>1. target'[d] = [state |-> "cancelled", lease |-> target[d].lease]
      BY <2>1, <2>2, <3>0 DEF CancelledTargets, TargetRow
    <3>2. CanTransitionTarget(target[d].state, "cancelled")
      BY <2>2 DEF CanTransitionTarget
    <3>3. "cancelled" \in TargetStates
      BY DEF TargetStates, TargetFinal
    <3> QED
      BY <2>2, <3>1, <3>2, <3>3 DEF TargetStep
  <2> QED
    BY <2>1, <2>2 DEF CancelledTargets, TargetStep
<1>4. ASSUME NEW e \in Devices, NEW g \in live, LeaseTarget(e, g)
      PROVE  TargetStep(d)
  BY <1>0, <1>4 DEF LeaseTarget, TargetStep
<1>5. ASSUME NEW e \in Devices, NEW next \in TargetStates, TransitionTarget(e, next)
      PROVE  TargetStep(d)
  <2>1. \A x \in Devices :
            target'[x] = IF x = e THEN [target[x] EXCEPT !.state = next] ELSE target[x]
    BY <1>0, <1>5 DEF TransitionTarget
  <2>2. target[e] \in TargetRow
    BY <1>5, TargetRows DEF TransitionTarget, CanTransitionTarget
  <2>3. target'[e] = [state |-> next, lease |-> target[e].lease]
    BY <2>1, <2>2 DEF TargetRow
  <2>4. \A x \in Devices \ {e} : target'[x] = target[x]
    BY <2>1
  <2> QED
    BY <1>5, <2>3, <2>4 DEF TransitionTarget, TargetStep
<1> QED
  BY <1>1, <1>2, <1>3, <1>4, <1>5
  DEF RunNext, RunStep, LeaseStep, Approve, Transition, Recover, AuthorizeAttempt,
      DispatchAttempt, MarkAttemptIndeterminate, CompleteAttempt, ReconcileAttempt,
      runVars, rowVars

\* The same, column by column.
LEMMA TargetColumns ==
    ASSUME NEW d \in Devices, TargetStep(d)
    PROVE  \/ target'[d] = target[d]
           \/ /\ run.state = "absent" /\ run'.state # "absent"
              /\ target'[d].state \in {"absent", "pending"} /\ target'[d].lease = None
           \/ /\ target[d].state = "pending" /\ target'[d].state = "leased"
              /\ target'[d].lease \in live /\ target'[d].lease.device = d
           \/ /\ CanTransitionTarget(target[d].state, target'[d].state)
              /\ target'[d].state \in {"verifying", "succeeded"} => StepsSucceeded(d)
              /\ target'[d].lease = target[d].lease
<1>1. ASSUME target'[d] \in {NoTarget, [state |-> "pending", lease |-> None]}
      PROVE  target'[d].state \in {"absent", "pending"} /\ target'[d].lease = None
  BY <1>1 DEF NoTarget
<1>2. ASSUME NEW g \in live, g.device = d, target'[d] = [state |-> "leased", lease |-> g]
      PROVE  /\ target'[d].state = "leased"
             /\ target'[d].lease \in live /\ target'[d].lease.device = d
  BY <1>2
<1>3. ASSUME NEW next \in TargetStates,
             target'[d] = [state |-> next, lease |-> target[d].lease]
      PROVE  target'[d].state = next /\ target'[d].lease = target[d].lease
  BY <1>3
<1> QED
  BY <1>1, <1>2, <1>3 DEF TargetStep

-----------------------------------------------------------------------------
(* What an operation may do to the run row and to one step row.            *)

\* Insertion, or a change of a run that exists; an ended run keeps its state.
RunRowStep ==
    \/ run' = run
    \/ /\ run' \in RunRow
       /\ run'.paused => run'.state = "running"
       /\ run.state \in RunFinal => run'.state = run.state

\* The run row that exists has all its columns.
LEMMA RunRows ==
    ASSUME RunTypeOK, run.state # "absent" \/ run.approval \in Approvals
    PROVE  run \in RunRow
BY RunAssumption DEF RunTypeOK, NoRun, RunRow

\* Every operation treats the run row in one of these ways.
LEMMA RunRowSteps ==
    ASSUME RunTypeOK, TargetsComeWithRun, [RunNext]_runVars
    PROVE  RunRowStep
<1>0. run.paused => run.state = "running"
  BY DEF RunTypeOK
<1>1. CASE UNCHANGED run
  BY <1>1 DEF RunRowStep
<1>2. ASSUME NEW devices \in SUBSET Devices, NEW approval \in Approvals,
             Create(devices, approval)
      PROVE  RunRowStep
  BY <1>2 DEF Create, RunRowStep, RunRow, RunStates, RunFinal
<1>3. CASE Approve
  <2>1. run \in RunRow
    BY <1>3, RunRows DEF Approve, Approvals
  <2> QED
    BY <1>0, <1>3, <2>1 DEF Approve, RunRow, RunRowStep, Approvals
<1>4. ASSUME NEW next \in RunStates \cup {"paused"}, Transition(next)
      PROVE  RunRowStep
  <2>1. run \in RunRow /\ run.state \notin RunFinal
    BY <1>0, <1>4, RunRows DEF Transition, CanTransitionRun, LoadedState, RunFinal
  <2>2. run' = [run EXCEPT !.state = IF next = "paused" THEN "running" ELSE next,
                           !.paused = (next = "paused")]
    BY <1>4 DEF Transition
  <2>3. (IF next = "paused" THEN "running" ELSE next) \in RunStates
    BY DEF RunStates
  <2>4. run' \in RunRow
    BY <2>1, <2>2, <2>3 DEF RunRow
  <2>5. run'.paused => run'.state = "running"
    BY <2>1, <2>2 DEF RunRow
  <2> QED
    BY <2>1, <2>4, <2>5 DEF RunRowStep
<1>5. CASE Cancel
  <2>1. run \in RunRow /\ run.state \notin RunFinal
    BY <1>0, <1>5, RunRows DEF Cancel, CanTransitionRun, LoadedState, RunFinal
  <2> QED
    BY <1>5, <2>1 DEF Cancel, RunRowStep, RunRow, RunStates, RunFinal
<1>6. CASE Recover
  <2>1. run \in RunRow /\ run.state \notin RunFinal
    BY <1>0, <1>6, RunRows DEF Recover, LoadedState, RunFinal
  <2> QED
    BY <1>6, <2>1 DEF Recover, RunRowStep, RunRow, RunStates
<1>7. ASSUME NEW d \in Devices, NEW next \in TargetStates, TransitionTarget(d, next)
      PROVE  RunRowStep
  <2>1. target[d].state # "absent"
    BY <1>7 DEF TransitionTarget, CanTransitionTarget
  <2>2. run \in RunRow
    BY <2>1, RunRows DEF TargetsComeWithRun, NoTarget
  <2>3. run' = Finalized(target')
    BY <1>7 DEF TransitionTarget
  <2> QED
    BY <1>0, <2>2, <2>3 DEF Finalized, RunRowStep, RunRow, RunStates, RunFinal
<1> QED
  BY <1>1, <1>2, <1>3, <1>4, <1>5, <1>6, <1>7
  DEF RunNext, RunStep, LeaseStep, LeaseTarget, AuthorizeAttempt, DispatchAttempt,
      MarkAttemptIndeterminate, CompleteAttempt, ReconcileAttempt, runVars, rowVars

\* Unchanged, not succeeded, or succeeded by an attempt now verified.
StepRowStep(d, s) ==
    \/ step'[d][s] = step[d][s]
    \/ step'[d][s] \in StepStates \ {"succeeded"}
    \/ /\ step'[d][s] = "succeeded"
       /\ \E a \in Attempts : /\ attempt'[a].state = "verified"
                              /\ attempt'[a].device = d /\ attempt'[a].step = s

\* Every operation treats every step row in one of these ways.
LEMMA StepRowSteps ==
    ASSUME RunTypeOK, [RunNext]_runVars
    PROVE  /\ \A d \in Devices, s \in Steps : StepRowStep(d, s)
           /\ step' \in [Devices -> [Steps -> StepStates]]
<1>0. step \in [Devices -> [Steps -> StepStates]] /\ attempt = [x \in Attempts |-> attempt[x]]
  BY DEF RunTypeOK
<1> DEFINE Goal == /\ \A d \in Devices, s \in Steps : StepRowStep(d, s)
                   /\ step' \in [Devices -> [Steps -> StepStates]]
<1>1. CASE UNCHANGED step
  BY <1>0, <1>1 DEF StepRowStep
<1>2. ASSUME NEW a \in Attempts, NEW d \in Devices, NEW s \in Steps,
             AuthorizeAttempt(a, d, s)
      PROVE  Goal
  <2>1. step' = [step EXCEPT ![d][s] = IF @ = "pending" THEN "running" ELSE @]
    BY <1>2 DEF AuthorizeAttempt
  <2> QED
    BY <1>0, <2>1 DEF StepRowStep, StepStates
<1>3. ASSUME NEW a \in Attempts, NEW outcome \in Decided, attempt[a].state # "absent",
             NEW val \in StepStates,
             val = "succeeded" =>
                \/ outcome = "verified"
                \/ step[attempt[a].device][attempt[a].step] = "succeeded",
             attempt' = [attempt EXCEPT ![a].state = outcome],
             step' = [step EXCEPT ![attempt[a].device][attempt[a].step] = val]
      PROVE  Goal
  <2>1. attempt[a] \in AttemptRow
    BY <1>3, AttemptRows
  <2>2. attempt[a].device \in Devices /\ attempt[a].step \in Steps
    BY <2>1 DEF AttemptRow
  <2>3. attempt'[a].device = attempt[a].device /\ attempt'[a].step = attempt[a].step
        /\ attempt'[a].state = outcome
    BY <1>0, <1>3, <2>1 DEF AttemptRow
  <2>4. step' \in [Devices -> [Steps -> StepStates]]
    BY <1>0, <1>3, <2>2
  <2>5. ASSUME NEW d \in Devices, NEW s \in Steps PROVE StepRowStep(d, s)
    <3>1. CASE d = attempt[a].device /\ s = attempt[a].step
      <4>1. step'[d][s] = val
        BY <1>0, <1>3, <2>2, <3>1
      <4> QED
        BY <1>3, <2>3, <3>1, <4>1 DEF StepRowStep
    <3>2. CASE ~ (d = attempt[a].device /\ s = attempt[a].step)
      <4>1. step'[d][s] = step[d][s]
        BY <1>0, <1>3, <2>2, <3>2
      <4> QED
        BY <4>1 DEF StepRowStep
    <3> QED
      BY <3>1, <3>2
  <2> QED
    BY <2>4, <2>5
<1>4. ASSUME NEW a \in Attempts, NEW outcome \in Decided, CompleteAttempt(a, outcome)
      PROVE  Goal
  <2> DEFINE old == step[attempt[a].device][attempt[a].step]
             val == IF old # "running" THEN old
                    ELSE IF outcome = "verified" THEN "succeeded" ELSE "failed"
  <2>1. attempt[a].state # "absent" /\ attempt' = [attempt EXCEPT ![a].state = outcome]
    BY <1>4 DEF CompleteAttempt
  <2>2. attempt[a].device \in Devices /\ attempt[a].step \in Steps
    BY <2>1, AttemptRows DEF AttemptRow
  <2>3. old \in StepStates
    BY <1>0, <2>2
  <2>4. val \in StepStates
    BY <2>3 DEF StepStates
  <2>5. step' = [step EXCEPT ![attempt[a].device][attempt[a].step] = val]
    BY <1>4 DEF CompleteAttempt
  <2>6. val = "succeeded" => outcome = "verified" \/ old = "succeeded"
    OBVIOUS
  <2> QED
    BY <1>3, <2>1, <2>4, <2>5, <2>6
<1>5. ASSUME NEW a \in Attempts, NEW outcome \in {"verified", "failed"},
             ReconcileAttempt(a, outcome)
      PROVE  Goal
  <2> DEFINE val == IF outcome = "verified" THEN "succeeded" ELSE "failed"
  <2>1. attempt[a].state # "absent" /\ attempt' = [attempt EXCEPT ![a].state = outcome]
    BY <1>5 DEF ReconcileAttempt
  <2>2. val \in StepStates /\ outcome \in Decided
    BY DEF StepStates, Decided
  <2>3. step' = [step EXCEPT ![attempt[a].device][attempt[a].step] = val]
    BY <1>5 DEF ReconcileAttempt
  <2>4. val = "succeeded" => outcome = "verified"
    OBVIOUS
  <2> HIDE DEF val
  <2> QED
    BY <1>3, <2>1, <2>2, <2>3, <2>4
<1> QED
  BY <1>1, <1>2, <1>4, <1>5
  DEF RunNext, RunStep, LeaseStep, Create, Approve, Transition, Cancel, Recover, LeaseTarget,
      TransitionTarget, DispatchAttempt, MarkAttemptIndeterminate, runVars, rowVars

-----------------------------------------------------------------------------
(* The invariant.                                                          *)

\* Only the lease authority changes the grants.
LEMMA GrantsMoveAlone ==
    ASSUME [RunNext]_runVars
    PROVE  [FencedNext]_fencedVars
BY DEF RunNext, RunStep, LeaseStep, Create, Approve, Transition, Cancel, Recover,
       LeaseTarget, TransitionTarget, AuthorizeAttempt, DispatchAttempt,
       MarkAttemptIndeterminate, CompleteAttempt, ReconcileAttempt, runVars, fencedVars

\* Every row stays a row RunService writes.
LEMMA TypeStep ==
    ASSUME RunInv, [RunNext]_runVars
    PROVE  RunTypeOK'
<1>0. RunTypeOK /\ TargetsComeWithRun
  BY DEF RunInv
<1>1. granted' \subseteq GrantRecord /\ live' \subseteq granted'
  BY <1>0, GrantsMoveAlone, GrantTypes DEF RunTypeOK
<1>2. /\ run' \in RunRow \cup {NoRun}
      /\ run'.paused => run'.state = "running"
  BY <1>0, RunRowSteps DEF RunTypeOK, RunRowStep, RunRow
<1>3. ASSUME NEW d \in Devices
      PROVE  target'[d] \in TargetRow \cup {NoTarget}
  <2>1. target[d] \in TargetRow \cup {NoTarget}
    BY <1>0 DEF RunTypeOK, TargetRow
  <2>2. TargetStep(d)
    BY <1>0, TargetSteps
  <2>3. ASSUME NEW g \in live, target'[d] = [state |-> "leased", lease |-> g]
        PROVE  target'[d] \in TargetRow
    BY <1>0, <2>3, LiveLease DEF TargetRow, TargetStates
  <2>4. ASSUME NEW next \in TargetStates, CanTransitionTarget(target[d].state, next),
               target'[d] = [state |-> next, lease |-> target[d].lease]
        PROVE  target'[d] \in TargetRow
    <3>1. target[d] \in TargetRow
      BY <1>0, <2>4, TargetRows DEF CanTransitionTarget
    <3> QED
      BY <2>4, <3>1 DEF TargetRow
  <2>5. [state |-> "pending", lease |-> None] \in TargetRow
    BY DEF TargetRow, TargetStates
  <2> QED
    BY <2>1, <2>2, <2>3, <2>4, <2>5 DEF TargetStep
<1>4. target' = [d \in Devices |-> target'[d]]
  <2>1. target = [d \in Devices |-> target[d]]
    BY <1>0 DEF RunTypeOK
  <2> QED
    BY <2>1 DEF RunNext, RunStep, LeaseStep, Create, Approve, Transition, Cancel,
        CancelledTargets, Recover, LeaseTarget, TransitionTarget, AuthorizeAttempt,
        DispatchAttempt, MarkAttemptIndeterminate, CompleteAttempt, ReconcileAttempt,
        runVars, rowVars
<1>5. ASSUME NEW a \in Attempts
      PROVE  attempt'[a] \in AttemptRow \cup {NoAttempt}
  <2>1. attempt[a] \in AttemptRow \cup {NoAttempt}
    BY <1>0 DEF RunTypeOK, AttemptRow
  <2>2. AttemptStep(a)
    BY <1>0, AttemptSteps
  <2>3. ASSUME NEW st \in AttemptStates, attempt[a].state # "absent",
               attempt'[a] = [attempt[a] EXCEPT !.state = st]
        PROVE  attempt'[a] \in AttemptRow
    <3>1. attempt[a] \in AttemptRow
      BY <1>0, <2>3, AttemptRows
    <3> QED
      BY <2>3, <3>1 DEF AttemptRow
  <2> QED
    BY <2>1, <2>2, <2>3 DEF AttemptStep, AttemptStates, Decided
<1>6. attempt' = [a \in Attempts |-> attempt'[a]]
  <2>1. attempt = [a \in Attempts |-> attempt[a]]
    BY <1>0 DEF RunTypeOK
  <2> QED
    BY <2>1 DEF RunNext, RunStep, LeaseStep, Create, Approve, Transition, Cancel,
        InDoubt, Recover, LeaseTarget, TransitionTarget, AuthorizeAttempt,
        DispatchAttempt, MarkAttemptIndeterminate, CompleteAttempt, ReconcileAttempt,
        runVars, rowVars
<1>7. step' \in [Devices -> [Steps -> StepStates]]
  BY <1>0, StepRowSteps
<1>8. target' \in [Devices -> TargetRow \cup {NoTarget}]
  BY <1>3, <1>4
<1>9. attempt' \in [Attempts -> AttemptRow \cup {NoAttempt}]
  BY <1>5, <1>6
<1> QED
  BY <1>1, <1>2, <1>7, <1>8, <1>9 DEF RunTypeOK, RunRow, TargetRow, AttemptRow

\* What is verified stays verified, of the same device and step.
LEMMA VerifiedStays ==
    ASSUME RunTypeOK, [RunNext]_runVars, NEW a \in Attempts, attempt[a].state = "verified"
    PROVE  attempt'[a] = attempt[a]
BY AttemptSteps DEF AttemptStep

\* The invariant holds when the tables are empty.
LEMMA RunInitInv == RunInit => RunInv
<1> SUFFICES ASSUME RunInit PROVE RunInv
  OBVIOUS
<1>1. granted = {} /\ live = {}
  BY DEF RunInit, FencedInit
<1>2. /\ run = NoRun
      /\ target = [d \in Devices |-> NoTarget]
      /\ step = [d \in Devices |-> [s \in Steps |-> "pending"]]
      /\ attempt = [a \in Attempts |-> NoAttempt]
  BY DEF RunInit
<1>3. ~ run.paused /\ step \in [Devices -> [Steps -> StepStates]]
  BY <1>2 DEF NoRun, StepStates
<1>4. RunTypeOK
  BY <1>1, <1>2, <1>3 DEF RunTypeOK
<1>5. LiveIsNewest /\ TargetLeasesGranted /\ TargetsComeWithRun
  BY <1>1, <1>2 DEF LiveIsNewest, TargetLeasesGranted, TargetsComeWithRun, NoTarget
<1>6. StepsRestOnAttempts /\ SuccessRestsOnVerifiedAttempts
  BY <1>2 DEF StepsRestOnAttempts, SuccessRestsOnVerifiedAttempts, NoTarget
<1> QED
  BY <1>4, <1>5, <1>6 DEF RunInv

\* Every step keeps the invariant.
LEMMA RunNextInv ==
    ASSUME RunInv, [RunNext]_runVars
    PROVE  RunInv'
<1>0. /\ RunTypeOK /\ LiveIsNewest /\ TargetLeasesGranted /\ StepsRestOnAttempts
      /\ TargetsComeWithRun /\ SuccessRestsOnVerifiedAttempts
  BY DEF RunInv
<1>1. RunTypeOK'
  BY TypeStep
<1>2. LiveIsNewest'
  BY <1>0, GrantsMoveAlone, NewestStep DEF RunTypeOK
<1>3. TargetLeasesGranted'
  <2>1. granted \subseteq granted'
    BY GrantsMoveAlone DEF FencedNext, Grant, End, fencedVars
  <2>2. ASSUME NEW d \in Devices, target'[d].lease # None
        PROVE  target'[d].lease \in granted' /\ target'[d].lease.device = d
    <3>1. TargetStep(d)
      BY <1>0, TargetSteps
    <3>2. CASE target'[d].lease = target[d].lease
      BY <1>0, <2>1, <2>2, <3>2 DEF TargetLeasesGranted
    <3>3. CASE target'[d].lease \in live /\ target'[d].lease.device = d
      BY <1>0, <2>1, <3>3, LiveLease
    <3> QED
      BY <2>2, <3>1, <3>2, <3>3, TargetColumns
  <2> QED
    BY <2>2 DEF TargetLeasesGranted
<1>4. StepsRestOnAttempts'
  <2>1. ASSUME NEW d \in Devices, NEW s \in Steps, step'[d][s] = "succeeded"
        PROVE  \E a \in Attempts : /\ attempt'[a].state = "verified"
                                   /\ attempt'[a].device = d /\ attempt'[a].step = s
    <3>1. StepRowStep(d, s)
      BY <1>0, StepRowSteps
    <3>2. CASE step'[d][s] = step[d][s]
      <4>1. PICK a \in Attempts : /\ attempt[a].state = "verified"
                                  /\ attempt[a].device = d /\ attempt[a].step = s
        BY <1>0, <2>1, <3>2 DEF StepsRestOnAttempts
      <4> QED
        BY <1>0, <4>1, VerifiedStays
    <3> QED
      BY <2>1, <3>1, <3>2 DEF StepRowStep
  <2> QED
    BY <2>1 DEF StepsRestOnAttempts
<1>5. TargetsComeWithRun'
  <2>1. ASSUME run'.state = "absent", NEW d \in Devices
        PROVE  target'[d] = NoTarget
    <3>1. run.state = "absent"
      BY <1>0, <2>1, RunRowSteps DEF RunRowStep, RunRow, RunStates, RunFinal
    <3>2. target[d] = NoTarget
      BY <1>0, <3>1 DEF TargetsComeWithRun
    <3>3. target[d].state = "absent"
      BY <3>2 DEF NoTarget
    <3>4. TargetStep(d)
      BY <1>0, TargetSteps
    <3> QED
      BY <2>1, <3>2, <3>3, <3>4, TargetColumns DEF CanTransitionTarget
  <2> QED
    BY <2>1 DEF TargetsComeWithRun
<1>6. SuccessRestsOnVerifiedAttempts'
  <2>1. ASSUME NEW d \in Devices, NEW s \in Steps,
               target'[d].state \in {"verifying", "succeeded", "cleanup_failed"}
        PROVE  \E a \in Attempts : /\ attempt[a].state = "verified"
                                   /\ attempt[a].device = d /\ attempt[a].step = s
    <3>1. TargetStep(d)
      BY <1>0, TargetSteps
    <3>2. CASE target[d].state \in {"verifying", "succeeded", "cleanup_failed"}
      BY <1>0, <3>2 DEF SuccessRestsOnVerifiedAttempts
    <3>3. CASE StepsSucceeded(d)
      BY <1>0, <3>3 DEF StepsSucceeded, StepsRestOnAttempts
    <3> QED
      BY <2>1, <3>1, <3>2, <3>3, TargetColumns DEF CanTransitionTarget
  <2>2. ASSUME NEW d \in Devices, NEW s \in Steps,
               target'[d].state \in {"verifying", "succeeded", "cleanup_failed"}
        PROVE  \E a \in Attempts : /\ attempt'[a].state = "verified"
                                   /\ attempt'[a].device = d /\ attempt'[a].step = s
    BY <1>0, <2>1, <2>2, VerifiedStays
  <2> QED
    BY <2>2 DEF SuccessRestsOnVerifiedAttempts
<1> QED
  BY <1>1, <1>2, <1>3, <1>4, <1>5, <1>6 DEF RunInv

\* The inductive invariant of a run, for any devices, steps, keys and grants.
THEOREM RunInvariant == RunSpec => []RunInv
BY RunInitInv, RunNextInv, PTL DEF RunSpec

\* Every row RunService writes is well formed, and only a running run is paused.
THEOREM RunTypes == RunSpec => []RunTypeOK
BY RunInvariant, PTL DEF RunInv

\* A target that is verifying or succeeded has a verified attempt of every step.
THEOREM SuccessIsEarned == RunSpec => []SuccessRestsOnVerifiedAttempts
BY RunInvariant, PTL DEF RunInv

-----------------------------------------------------------------------------
(* Action properties.                                                      *)

\* DispatchAttempt sends only under the newest grant of the device.
LEMMA SentUnderNewest ==
    ASSUME RunInv, [RunNext]_runVars, NEW a \in Attempts,
           attempt[a].state # "dispatched", attempt'[a].state = "dispatched"
    PROVE  /\ attempt[a].state # "absent"
           /\ \E g \in live : /\ g.device = attempt[a].device
                              /\ g.token = attempt[a].token
           /\ \A t \in TokensOf(attempt[a].device) : t <= attempt[a].token
<1> DEFINE lease == target[attempt[a].device].lease
<1>0. RunTypeOK /\ LiveIsNewest /\ TargetLeasesGranted
  BY DEF RunInv
<1>1. AttemptStep(a)
  BY <1>0, AttemptSteps
<1>2. attempt[a].state # "absent"
  BY <1>1 DEF AttemptStep
<1>3. attempt[a] \in AttemptRow
  BY <1>0, <1>2, AttemptRows
<1>4. lease \in live /\ lease.token = attempt[a].token
  BY <1>1, <1>3 DEF AttemptStep, AttemptRow, Decided
<1>5. attempt[a].device \in Devices /\ attempt[a].token \in Nat
  BY <1>3 DEF AttemptRow
<1>6. lease.device = attempt[a].device
  BY <1>0, <1>4, <1>5, LiveLease DEF TargetLeasesGranted
<1>7. ASSUME NEW x \in granted, x.device = attempt[a].device
      PROVE  x.token <= attempt[a].token
  <2>1. CASE x = lease
    BY <1>4, <1>5, <2>1
  <2>2. CASE x # lease
    <3>1. x.token < lease.token
      BY <1>0, <1>4, <1>6, <1>7, <2>2 DEF LiveIsNewest
    <3>2. x.token \in Nat
      BY <1>0 DEF RunTypeOK, GrantRecord
    <3> QED
      BY <1>4, <1>5, <3>1, <3>2
  <2> QED
    BY <2>1, <2>2
<1>8. \A t \in TokensOf(attempt[a].device) : t <= attempt[a].token
  BY <1>7 DEF TokensOf
<1> QED
  BY <1>2, <1>4, <1>6, <1>8

\* A worker that was fenced off between authorization and dispatch sends nothing.
THEOREM RunDispatchIsFenced == RunSpec => DispatchIsFenced
<1>1. RunInv /\ [RunNext]_runVars =>
        [\A a \in Attempts :
            attempt[a].state # "dispatched" /\ attempt'[a].state = "dispatched" =>
                /\ \E g \in live : /\ g.device = attempt[a].device
                                   /\ g.token = attempt[a].token
                /\ \A t \in TokensOf(attempt[a].device) : t <= attempt[a].token
        ]_runVars
  BY SentUnderNewest
<1> QED
  BY <1>1, RunInvariant, PTL DEF RunSpec, DispatchIsFenced

\* An attempt is decided once and keeps its binding.
THEOREM RunAttemptsDecidedOnce == RunSpec => AttemptsDecidedOnce
<1>1. ASSUME RunInv, [RunNext]_runVars, NEW a \in Attempts
      PROVE  /\ attempt[a].state \in Decided => attempt'[a] = attempt[a]
             /\ attempt[a].state = "indeterminate" =>
                    attempt'[a].state \in {"indeterminate", "verified", "failed"}
             /\ attempt[a].state # "absent" =>
                    attempt'[a] = [attempt[a] EXCEPT !.state = attempt'[a].state]
  <2>0. RunTypeOK
    BY <1>1 DEF RunInv
  <2>1. AttemptStep(a)
    BY <1>1, <2>0, AttemptSteps
  <2>2. CASE attempt[a].state = "absent"
    BY <2>2 DEF Decided
  <2>3. CASE attempt[a].state # "absent"
    <3>1. attempt[a] \in AttemptRow
      BY <2>0, <2>3, AttemptRows
    <3>2. attempt[a] = [attempt[a] EXCEPT !.state = attempt[a].state]
      BY <3>1 DEF AttemptRow
    <3>3. ASSUME NEW st, attempt'[a] = [attempt[a] EXCEPT !.state = st]
          PROVE  attempt'[a].state = st
      BY <3>1, <3>3 DEF AttemptRow
    <3> QED
      BY <2>1, <2>3, <3>2, <3>3 DEF AttemptStep, Decided
  <2> QED
    BY <2>2, <2>3
<1>2. RunInv /\ [RunNext]_runVars =>
        [\A a \in Attempts :
            /\ attempt[a].state \in Decided => attempt'[a] = attempt[a]
            /\ attempt[a].state = "indeterminate" =>
                    attempt'[a].state \in {"indeterminate", "verified", "failed"}
            /\ attempt[a].state # "absent" =>
                    attempt'[a] = [attempt[a] EXCEPT !.state = attempt'[a].state]
        ]_runVars
  BY <1>1
<1> QED
  BY <1>2, RunInvariant, PTL DEF RunSpec, AttemptsDecidedOnce

\* A run that ended stays ended as it was, and so does the result of a target.
THEOREM RunResultsStay == RunSpec => ResultsStay
<1>1. ASSUME RunInv, [RunNext]_runVars
      PROVE  /\ run.state \in RunFinal => run'.state = run.state
             /\ \A d \in Devices :
                    target[d].state \in TargetFinal =>
                        \/ target'[d] = target[d]
                        \/ /\ target[d].state = "succeeded"
                           /\ target'[d].state = "cleanup_failed"
                           /\ \A e \in Devices \ {d} : target'[e] = target[e]
  <2>0. RunTypeOK /\ TargetsComeWithRun
    BY <1>1 DEF RunInv
  <2>1. run.state \in RunFinal => run'.state = run.state
    BY <1>1, <2>0, RunRowSteps DEF RunRowStep
  <2>2. ASSUME NEW d \in Devices, target[d].state \in TargetFinal, target'[d] # target[d]
        PROVE  /\ target[d].state = "succeeded"
               /\ target'[d].state = "cleanup_failed"
               /\ \A e \in Devices \ {d} : target'[e] = target[e]
    <3>1. TargetStep(d)
      BY <1>1, <2>0, TargetSteps
    <3>2. target[d].state # "absent"
      BY <2>2 DEF TargetFinal
    <3>3. target[d] \in TargetRow /\ run.state # "absent"
      BY <2>0, <3>2, TargetRows DEF TargetsComeWithRun, NoTarget
    <3>4. PICK next \in TargetStates :
                /\ CanTransitionTarget(target[d].state, next)
                /\ target'[d] = [state |-> next, lease |-> target[d].lease]
                /\ target[d].state = "succeeded" =>
                        \A e \in Devices \ {d} : target'[e] = target[e]
      BY <2>2, <3>1, <3>3 DEF TargetStep, TargetFinal
    <3>5. target'[d].state = next
      BY <3>3, <3>4 DEF TargetRow
    <3> QED
      BY <2>2, <3>4, <3>5 DEF CanTransitionTarget, TargetFinal
  <2> QED
    BY <2>1, <2>2
<1>2. RunInv /\ [RunNext]_runVars =>
        [/\ run.state \in RunFinal => run'.state = run.state
         /\ \A d \in Devices :
                target[d].state \in TargetFinal =>
                    \/ target'[d] = target[d]
                    \/ /\ target[d].state = "succeeded"
                       /\ target'[d].state = "cleanup_failed"
                       /\ \A e \in Devices \ {d} : target'[e] = target[e]
        ]_runVars
  BY <1>1
<1> QED
  BY <1>2, RunInvariant, PTL DEF RunSpec, ResultsStay

-----------------------------------------------------------------------------
(* The run beside the lease authority.                                     *)

\* No operation of RunService writes a grant: the run service works against the
\* lease authority as FencedDevice states it, and what is proved of grants alone
\* holds beside every run.
THEOREM RunsLeaveGrants == RunSpec => FencedSpec
<1>1. RunInit => FencedInit
  BY DEF RunInit
<1>2. [RunNext]_runVars => [FencedNext]_fencedVars
  BY GrantsMoveAlone
<1> QED
  BY <1>1, <1>2, PTL DEF RunSpec, FencedSpec

-----------------------------------------------------------------------------
(* The attempts of a run live as AttemptLife says.                         *)

\* An UPDATE of the state of one row moves one life.
LEMMA OneLifeMoves ==
    ASSUME RunTypeOK, NEW b \in Attempts, attempt[b].state # "absent", NEW st,
           attempt' = [attempt EXCEPT ![b].state = st]
    PROVE  Lives' = [Lives EXCEPT ![b] = st]
<1>1. attempt[b] \in AttemptRow
  BY AttemptRows
<1>2. ASSUME NEW a \in Attempts
      PROVE  attempt'[a].state = IF a = b THEN st ELSE attempt[a].state
  BY <1>1 DEF RunTypeOK, AttemptRow
<1> QED
  BY <1>2 DEF Lives

\* Cancel ends what was not sent and puts in doubt what was; Recover only the
\* latter.
LEMMA InterruptedRows ==
    ASSUME RunTypeOK, Cancel \/ Recover
    PROVE  Life!LifeNext
<1> DEFINE sent == {a \in Attempts : attempt[a].state = "dispatched"}
           waiting == {a \in Attempts : attempt[a].state = "authorized"}
<1>1. ASSUME NEW a \in Attempts, attempt[a].state \in {"dispatched", "authorized"}
      PROVE  attempt[a] \in AttemptRow
  BY <1>1, AttemptRows
<1>2. CASE Cancel
  <2>1. ASSUME NEW a \in Attempts
        PROVE  attempt'[a].state = IF a \in waiting THEN "cancelled"
                                   ELSE IF a \in sent THEN "indeterminate"
                                   ELSE attempt[a].state
    BY <1>1, <1>2 DEF Cancel, InDoubt, AttemptRow
  <2>2. Life!Interrupted(waiting, sent)
    BY <2>1 DEF Life!Interrupted, Life!LifeInFlight, Lives
  <2> QED
    BY <2>2 DEF Life!LifeNext
<1>3. CASE Recover
  <2>1. ASSUME NEW a \in Attempts
        PROVE  attempt'[a].state = IF a \in {} THEN "cancelled"
                                   ELSE IF a \in sent THEN "indeterminate"
                                   ELSE attempt[a].state
    BY <1>1, <1>3 DEF Recover, InDoubt, AttemptRow
  <2>2. Life!Interrupted({}, sent)
    BY <2>1 DEF Life!Interrupted, Life!LifeInFlight, Lives
  <2> QED
    BY <2>2 DEF Life!LifeNext
<1> QED
  BY <1>2, <1>3

\* An operation of RunService is a step in the life of one attempt, an
\* interruption, or leaves every life as it is.
LEMMA RunLifeStep ==
    ASSUME RunTypeOK, [RunNext]_runVars
    PROVE  [Life!LifeNext]_Life!lifeVars
<1>1. CASE UNCHANGED attempt
  BY <1>1 DEF Life!lifeVars, Lives
<1>2. ASSUME NEW b \in Attempts, NEW d \in Devices, NEW s \in Steps,
             AuthorizeAttempt(b, d, s)
      PROVE  Life!LifeNext
  <2>1. attempt[b].state = "absent"
    BY <1>2 DEF AuthorizeAttempt
  <2>2. \A a \in Attempts :
            attempt'[a].state = IF a = b THEN "authorized" ELSE attempt[a].state
    BY <1>2 DEF AuthorizeAttempt, RunTypeOK
  <2>3. Life!Authorized(b)
    BY <2>1, <2>2 DEF Life!Authorized, Lives
  <2> QED
    BY <2>3 DEF Life!LifeNext
<1>3. ASSUME NEW b \in Attempts, NEW g \in granted, DispatchAttempt(b, g.holder, g.token)
      PROVE  Life!LifeNext
  <2>1. /\ attempt[b].state = "authorized"
        /\ attempt' = [attempt EXCEPT ![b].state = "dispatched"]
    BY <1>3 DEF DispatchAttempt
  <2>2. Lives' = [Lives EXCEPT ![b] = "dispatched"]
    BY <2>1, OneLifeMoves
  <2>3. Life!Sent(b)
    BY <2>1, <2>2 DEF Life!Sent, Lives
  <2> QED
    BY <2>3 DEF Life!LifeNext
<1>4. ASSUME NEW b \in Attempts, MarkAttemptIndeterminate(b)
      PROVE  Life!LifeNext
  <2>1. /\ attempt[b].state = "dispatched"
        /\ attempt' = [attempt EXCEPT ![b].state = "indeterminate"]
    BY <1>4 DEF MarkAttemptIndeterminate
  <2>2. Lives' = [Lives EXCEPT ![b] = "indeterminate"]
    BY <2>1, OneLifeMoves
  <2>3. Life!Doubted(b)
    BY <2>1, <2>2 DEF Life!Doubted, Lives
  <2> QED
    BY <2>3 DEF Life!LifeNext
<1>5. ASSUME NEW b \in Attempts, NEW outcome \in Decided, attempt[b].state # "absent",
             outcome \in Life!LifeOutcomes(attempt[b].state),
             attempt' = [attempt EXCEPT ![b].state = outcome]
      PROVE  Life!LifeNext
  <2>1. Lives' = [Lives EXCEPT ![b] = outcome]
    BY <1>5, OneLifeMoves
  <2>2. Life!Settled(b)
    BY <1>5, <2>1 DEF Life!Settled, Lives
  <2> QED
    BY <2>2 DEF Life!LifeNext
<1>6. ASSUME NEW b \in Attempts, NEW outcome \in Decided, CompleteAttempt(b, outcome)
      PROVE  Life!LifeNext
  <2>1. /\ attempt[b].state = "dispatched"
        /\ attempt' = [attempt EXCEPT ![b].state = outcome]
    BY <1>6 DEF CompleteAttempt
  <2>2. outcome \in Life!LifeOutcomes(attempt[b].state)
    BY <2>1 DEF Decided, Life!LifeOutcomes, Life!LifeDecided
  <2> QED
    BY <1>5, <2>1, <2>2
<1>7. ASSUME NEW b \in Attempts, NEW outcome \in {"verified", "failed"},
             ReconcileAttempt(b, outcome)
      PROVE  Life!LifeNext
  <2>1. /\ attempt[b].state = "indeterminate"
        /\ attempt' = [attempt EXCEPT ![b].state = outcome]
    BY <1>7 DEF ReconcileAttempt
  <2>2. outcome \in Life!LifeOutcomes(attempt[b].state) /\ outcome \in Decided
    BY <2>1 DEF Decided, Life!LifeOutcomes
  <2> QED
    BY <1>5, <2>1, <2>2
<1> QED
  BY <1>1, <1>2, <1>3, <1>4, <1>6, <1>7, InterruptedRows
  DEF RunNext, RunStep, LeaseStep, Create, Approve, Transition, LeaseTarget,
      TransitionTarget, runVars, rowVars

\* The run service tells the life of its attempts as the action service and the
\* edge do (RunImplementsAttemptLife): what a cancellation or a restart meets in
\* flight is never decided as done.
THEOREM RunTellsAttemptLife == RunSpec => RunImplementsAttemptLife
<1>1. RunInit => Life!LifeInit
  BY DEF RunInit, NoAttempt, Life!LifeInit, Lives
<1>2. RunTypeOK /\ [RunNext]_runVars => [Life!LifeNext]_Life!lifeVars
  BY RunLifeStep
<1> QED
  BY <1>1, <1>2, RunTypes, PTL DEF RunSpec, RunImplementsAttemptLife, Life!LifeSpec

=============================================================================
