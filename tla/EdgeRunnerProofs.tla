-------------------------- MODULE EdgeRunnerProofs --------------------------
(***************************************************************************)
(* The safety properties of EdgeRunner for any number of deliveries,       *)
(* attempts and serials and any queue size.  None of them is inductive     *)
(* alone.  What carries them: an actor that has acted for an attempt has   *)
(* its answer stored, or is about to store it; a success, wherever it is   *)
(* on its way from the adapter to the kernel, comes from an act; and an    *)
(* actor that has not stopped is the one the dispatcher is bound to.       *)
(***************************************************************************)
EXTENDS EdgeRunner, TLAPS

ActorRow == [state : {"none", "open", "closed", "stopped"}, queue : Seq(Deliveries),
             busy : Deliveries \cup {None}, returned : Responses \cup {None},
             results : [Attempts -> Responses \cup {None}]]

ControlStates == InFlight \cup Ended \cup {"absent", "indeterminate"}

\* Every variable alone.
EdgeColumns ==
    /\ request \in [Deliveries -> [attempt : Attempts, serial : Serials]]
    /\ control \in [Attempts -> ControlStates]
    /\ leased \in BOOLEAN
    /\ pc \in [Deliveries -> Steps]
    /\ ctxDone \in [Deliveries -> BOOLEAN]
    /\ actorOf \in [Deliveries -> Deliveries \cup {None}]
    /\ resp \in [Deliveries -> Responses \cup {"empty", None}]
    /\ reply \in [Deliveries -> Responses \cup {None}]
    /\ current \in Deliveries \cup {None}
    /\ closing \in Deliveries \cup {None}
    /\ actor \in [Deliveries -> ActorRow]
    /\ acted \in [Deliveries -> [Attempts -> Nat]]

\* A delivery past deviceFor has an actor, and one that waits for a close has
\* an actor to wait for.
HasActor ==
    \A d \in Deliveries :
        /\ pc[d] \in {"dispatch", "submit", "enqueue", "wait", "record"} => actorOf[d] # None
        /\ pc[d] = "closing" => current # None

QueuesBounded == \A x \in Deliveries : Len(actor[x].queue) <= QueueSize

\* The answer of an act that the loop has not stored yet.
Unstored(x, a) ==
    actor[x].busy # None /\ att(actor[x].busy) = a /\ actor[x].returned # None

\* What was done is remembered, and what is being done was not done before.
ActedIsAnswered ==
    \A x \in Deliveries :
        /\ \A a \in Attempts : acted[x][a] > 0 =>
                acted[x][a] = 1 /\ (actor[x].results[a] # None \/ Unstored(x, a))
        /\ actor[x].busy # None => actor[x].results[att(actor[x].busy)] = None
        /\ actor[x].busy = None => actor[x].returned = None

Carried(a) == \E x \in Deliveries : acted[x][a] > 0

\* Wherever a success is, an act is behind it.
PassedWasActed ==
    /\ \A x \in Deliveries :
        /\ \A a \in Attempts : actor[x].results[a] = "passed" => acted[x][a] > 0
        /\ actor[x].busy # None /\ actor[x].returned = "passed"
                => acted[x][att(actor[x].busy)] > 0
    /\ \A d \in Deliveries : reply[d] = "passed" \/ resp[d] = "passed" => Carried(att(d))
    /\ \A a \in Attempts : control[a] = "verified" => Carried(a)

\* Only the bound actor serves.
ServingIsBound ==
    \A x \in Deliveries : actor[x].state \in {"open", "closed"} => x = current

EdgeInv == /\ EdgeColumns /\ HasActor /\ QueuesBounded
           /\ ActedIsAnswered /\ PassedWasActed /\ ServingIsBound

-----------------------------------------------------------------------------
(* The invariant implies the properties.                                   *)

\* The types.
LEMMA EdgeInvTypes == EdgeInv => EdgeTypeOK
BY DEF EdgeInv, EdgeColumns, QueuesBounded, EdgeTypeOK, ActorRow, ControlStates

\* An act is counted once, because its answer was missing when it began.
LEMMA EdgeInvActsOnce == EdgeInv => ActorActsOnce
<1> SUFFICES ASSUME EdgeInv, NEW x \in Deliveries, NEW a \in Attempts
             PROVE  acted[x][a] <= 1
  BY DEF ActorActsOnce
<1>1. acted[x][a] \in Nat
  BY DEF EdgeInv, EdgeColumns
<1>2. acted[x][a] > 0 => acted[x][a] = 1
  BY DEF EdgeInv, ActedIsAnswered
<1> QED
  BY <1>1, <1>2

\* A recorded success is one of those that have an act behind them.
LEMMA EdgeInvVerified == EdgeInv => VerifiedWasActed
BY DEF EdgeInv, PassedWasActed, VerifiedWasActed, Carried

\* Two actors that serve would both be the bound one.
LEMMA EdgeInvServes == EdgeInv => OneActorServes
BY DEF EdgeInv, EdgeColumns, ActorRow, ServingIsBound, OneActorServes

-----------------------------------------------------------------------------
(* Where everything starts.                                                *)

\* An actor that was not created is an idle row.
LEMMA NoActorFacts ==
    /\ NoActor \in ActorRow
    /\ NoActor.state = "none" /\ NoActor.queue = <<>> /\ Len(NoActor.queue) = 0
    /\ NoActor.busy = None /\ NoActor.returned = None
    /\ \A a \in Attempts : NoActor.results[a] = None
BY DEF NoActor, ActorRow

\* The invariant holds before the first delivery runs.
LEMMA EdgeInitInv == EdgeInit => EdgeInv
<1> SUFFICES ASSUME EdgeInit PROVE EdgeInv
  OBVIOUS
<1>1. EdgeColumns
  BY NoActorFacts DEF EdgeInit, EdgeColumns, ControlStates, Steps
<1>2. HasActor
  BY DEF EdgeInit, HasActor
<1>3. QueuesBounded
  BY NoActorFacts, EdgeRunnerAssumption DEF EdgeInit, QueuesBounded
<1>4. ActedIsAnswered
  BY NoActorFacts DEF EdgeInit, ActedIsAnswered
<1>5. PassedWasActed
  BY NoActorFacts, EdgeRunnerAssumption DEF EdgeInit, PassedWasActed, Responses
<1>6. ServingIsBound
  BY NoActorFacts DEF EdgeInit, ServingIsBound
<1> QED
  BY <1>1, <1>2, <1>3, <1>4, <1>5, <1>6 DEF EdgeInv

-----------------------------------------------------------------------------
(* Steps that leave the actors alone.                                      *)

\* What is said of the actors stays true while neither they nor the acts change.
LEMMA ActorsAlone ==
    ASSUME EdgeInv, UNCHANGED <<request, current, actor, acted>>
    PROVE  QueuesBounded' /\ ActedIsAnswered' /\ ServingIsBound'
BY DEF EdgeInv, QueuesBounded, ActedIsAnswered, Unstored, ServingIsBound, att

\* A success stays covered while no new one appears.
LEMMA CarriedAlone ==
    ASSUME EdgeInv, UNCHANGED <<request, actor, acted>>,
           \A d \in Deliveries : reply'[d] = reply[d],
           \A d \in Deliveries : resp'[d] = "passed" => Carried(att(d)),
           \A a \in Attempts : control'[a] = "verified" => Carried(a)
    PROVE  PassedWasActed'
BY DEF EdgeInv, PassedWasActed, Carried, att

\* The two transactions at the ends of a run: an attempt is authorized and
\* dispatched, and never becomes a success.
LEMMA AuthorizeInv ==
    ASSUME EdgeInv, NEW d \in Deliveries, AuthorizeStep(d) \/ DispatchStep(d)
    PROVE  EdgeInv'
<1>0. att(d) \in Attempts
  BY DEF EdgeInv, EdgeColumns, att
<1>1. UNCHANGED <<request, ctxDone, leased, actorOf, resp, reply, current, closing, actor, acted>>
  BY DEF AuthorizeStep, DispatchStep, callers, binding
<1>2. control' \in [Attempts -> ControlStates]
  BY <1>0 DEF AuthorizeStep, DispatchStep, EdgeInv, EdgeColumns, ControlStates, InFlight, Ended
<1>3. \A a \in Attempts : control'[a] = "verified" => control[a] = "verified"
  BY <1>0 DEF AuthorizeStep, DispatchStep, EdgeInv, EdgeColumns
<1>4. pc' \in [Deliveries -> Steps]
  BY DEF AuthorizeStep, DispatchStep, EdgeInv, EdgeColumns, Steps
<1>5. EdgeColumns'
  BY <1>1, <1>2, <1>4 DEF EdgeInv, EdgeColumns
<1>6. HasActor'
  BY <1>1 DEF AuthorizeStep, DispatchStep, EdgeInv, EdgeColumns, HasActor
<1>7. PassedWasActed'
  BY <1>1, <1>3, CarriedAlone DEF EdgeInv, PassedWasActed
<1> QED
  BY <1>1, <1>5, <1>6, <1>7, ActorsAlone DEF EdgeInv

\* A success is recorded only for a response that says so.
LEMMA RecordedVerified ==
    ASSUME NEW st \in ControlStates, NEW r \in Responses \cup {"empty", None}
    PROVE  /\ Recorded(st, r) \in ControlStates
           /\ Recorded(st, r) = "verified" => st = "verified" \/ r = "passed"
BY EdgeRunnerAssumption DEF Recorded, ControlStates, Responses, InFlight, Ended

\* Run's switch records what the response says.
LEMMA RecordInv ==
    ASSUME EdgeInv, NEW d \in Deliveries, Record(d)
    PROVE  EdgeInv'
<1>0. /\ att(d) \in Attempts /\ control[att(d)] \in ControlStates
      /\ resp[d] \in Responses \cup {"empty", None}
  BY DEF EdgeInv, EdgeColumns, att
<1>1. UNCHANGED <<request, ctxDone, leased, actorOf, resp, reply, current, closing, actor, acted>>
  BY DEF Record, callers, binding
<1>2. control' \in [Attempts -> ControlStates]
  BY <1>0, RecordedVerified DEF Record, EdgeInv, EdgeColumns
<1>3. ASSUME NEW a \in Attempts, control'[a] = "verified" PROVE Carried(a)
  <2>1. control[a] = "verified" \/ (a = att(d) /\ resp[d] = "passed")
    BY <1>0, <1>3, RecordedVerified DEF Record, EdgeInv, EdgeColumns
  <2> QED
    BY <2>1 DEF EdgeInv, PassedWasActed
<1>4. EdgeColumns'
  BY <1>1, <1>2 DEF Record, EdgeInv, EdgeColumns, Steps
<1>5. HasActor'
  BY <1>1 DEF Record, EdgeInv, EdgeColumns, HasActor
<1>6. PassedWasActed'
  BY <1>1, <1>3, CarriedAlone DEF EdgeInv, PassedWasActed
<1> QED
  BY <1>1, <1>4, <1>5, <1>6, ActorsAlone DEF EdgeInv

\* A caller that gives up, a lost lease and an emergency stop make no success.
LEMMA EnvironmentInv ==
    ASSUME EdgeInv,
           LoseLease \/ EmergencyStop \/ \E d \in Deliveries : CancelCaller(d)
    PROVE  EdgeInv'
<1>1. UNCHANGED <<request, pc, actorOf, resp, reply, current, closing, actor, acted>>
  BY DEF LoseLease, EmergencyStop, CancelCaller, callers, binding
<1>2. EdgeColumns'
  BY <1>1 DEF LoseLease, EmergencyStop, CancelCaller, EdgeInv, EdgeColumns, ControlStates,
              InFlight, Ended, kernel, callers
<1>3. \A a \in Attempts : control'[a] = "verified" => control[a] = "verified"
  BY DEF LoseLease, EmergencyStop, CancelCaller, EdgeInv, EdgeColumns, kernel
<1>4. HasActor'
  BY <1>1 DEF EdgeInv, HasActor
<1>5. PassedWasActed'
  BY <1>1, <1>3, CarriedAlone DEF EdgeInv, PassedWasActed
<1> QED
  BY <1>1, <1>2, <1>4, <1>5, ActorsAlone DEF EdgeInv

-----------------------------------------------------------------------------
(* Actor.Submit.                                                           *)

\* A delivery that has an actor has one of the actors.
LEMMA MineFacts ==
    ASSUME EdgeInv, NEW d \in Deliveries, pc[d] \in {"submit", "enqueue", "wait", "record"}
    PROVE  /\ actorOf[d] \in Deliveries /\ mine(d) \in ActorRow
           /\ att(d) \in Attempts
BY DEF EdgeInv, EdgeColumns, HasActor, mine, att

\* A response the delivery takes from its actor or from its channel.
LEMMA ReturnInv ==
    ASSUME EdgeInv, NEW d \in Deliveries, NEW r \in Responses \cup {"empty"}, Return(d, r),
           pc[d] \in {"submit", "enqueue", "wait"},
           r = "passed" => Carried(att(d)),
           UNCHANGED <<request, ctxDone, control, leased, actorOf, reply, current, closing,
                       actor, acted>>
    PROVE  EdgeInv'
<1>1. EdgeColumns'
  BY DEF EdgeInv, EdgeColumns, Return, Steps
<1>2. HasActor'
  BY DEF EdgeInv, EdgeColumns, HasActor, Return
<1>3. \A e \in Deliveries : resp'[e] = "passed" => Carried(att(e))
  BY DEF EdgeInv, EdgeColumns, PassedWasActed, Return
<1>4. PassedWasActed'
  BY <1>3, CarriedAlone DEF EdgeInv, PassedWasActed
<1> QED
  BY <1>1, <1>2, <1>4, ActorsAlone DEF EdgeInv

\* Submit replays a stored result, refuses, or goes on to the queue.
LEMMA SubmitInv ==
    ASSUME EdgeInv, NEW d \in Deliveries, Submit(d)
    PROVE  EdgeInv'
<1>0. /\ pc[d] = "submit" /\ actorOf[d] \in Deliveries /\ mine(d) \in ActorRow
      /\ att(d) \in Attempts
  BY MineFacts DEF Submit
<1>1. UNCHANGED <<request, ctxDone, control, leased, actorOf, reply, current, closing, actor, acted>>
  BY DEF Submit, callers, kernel, binding
<1>2. CASE mine(d).results[att(d)] # None
  <2>1. Return(d, mine(d).results[att(d)])
    BY <1>2 DEF Submit
  <2>2. mine(d).results[att(d)] \in Responses
    BY <1>0, <1>2 DEF ActorRow
  <2>3. mine(d).results[att(d)] = "passed" => Carried(att(d))
    BY <1>0 DEF EdgeInv, PassedWasActed, Carried, mine
  <2> QED
    BY <1>0, <1>1, <2>1, <2>2, <2>3, ReturnInv
<1>3. CASE mine(d).results[att(d)] = None /\ mine(d).state # "open"
  <2>1. Return(d, "empty")
    BY <1>3 DEF Submit
  <2> QED
    BY <1>0, <1>1, <2>1, ReturnInv
<1>4. CASE mine(d).results[att(d)] = None /\ mine(d).state = "open"
  <2>1. pc' = [pc EXCEPT ![d] = "enqueue"] /\ resp' = resp
    BY <1>4 DEF Submit
  <2>2. EdgeColumns'
    BY <1>1, <2>1 DEF EdgeInv, EdgeColumns, Steps
  <2>3. HasActor'
    BY <1>0, <1>1, <2>1 DEF EdgeInv, EdgeColumns, HasActor
  <2>4. PassedWasActed'
    BY <1>1, <2>1, CarriedAlone DEF EdgeInv, PassedWasActed
  <2> QED
    BY <1>1, <2>2, <2>3, <2>4, ActorsAlone DEF EdgeInv
<1> QED
  BY <1>2, <1>3, <1>4

\* Submit returns the result it was sent, or nothing.
LEMMA AwaitInv ==
    ASSUME EdgeInv, NEW d \in Deliveries, Await(d)
    PROVE  EdgeInv'
<1>0. pc[d] = "wait" /\ reply[d] \in Responses \cup {None}
  BY DEF Await, EdgeInv, EdgeColumns
<1>1. UNCHANGED <<request, ctxDone, control, leased, actorOf, reply, current, closing, actor, acted>>
  BY DEF Await, callers, kernel, binding
<1>2. CASE reply[d] # None /\ Return(d, reply[d])
  <2>1. reply[d] = "passed" => Carried(att(d))
    BY DEF EdgeInv, PassedWasActed
  <2> QED
    BY <1>0, <1>1, <1>2, <2>1, ReturnInv
<1>3. CASE Return(d, "empty")
  BY <1>0, <1>1, <1>3, ReturnInv
<1> QED
  BY <1>2, <1>3 DEF Await

-----------------------------------------------------------------------------
(* Steps that change an actor.                                             *)

\* One actor changes to another row that keeps what it has done and answered.
LEMMA ActorChanges ==
    ASSUME EdgeInv, NEW x \in Deliveries, NEW row \in ActorRow,
           actor' = [actor EXCEPT ![x] = row],
           row.busy = actor[x].busy, row.returned = actor[x].returned,
           row.results = actor[x].results, Len(row.queue) <= QueueSize,
           UNCHANGED <<request, control, resp, reply, acted>>
    PROVE  QueuesBounded' /\ ActedIsAnswered' /\ PassedWasActed' /\ actor' \in [Deliveries -> ActorRow]
<1>0. actor \in [Deliveries -> ActorRow]
  BY DEF EdgeInv, EdgeColumns
<1>1. \A y \in Deliveries : /\ actor'[y].busy = actor[y].busy
                            /\ actor'[y].returned = actor[y].returned
                            /\ actor'[y].results = actor[y].results
  BY <1>0
<1>2. QueuesBounded'
  BY <1>0 DEF EdgeInv, QueuesBounded
<1>3. ActedIsAnswered'
  BY <1>1 DEF EdgeInv, ActedIsAnswered, Unstored, att
<1>4. PassedWasActed'
  BY <1>1 DEF EdgeInv, PassedWasActed, Carried, att
<1> QED
  BY <1>0, <1>2, <1>3, <1>4

\* The queue takes a delivery only while it has room.
LEMMA EnqueueInv ==
    ASSUME EdgeInv, NEW d \in Deliveries, Enqueue(d)
    PROVE  EdgeInv'
<1> DEFINE x == actorOf[d]
<1>0. pc[d] = "enqueue" /\ x \in Deliveries /\ actor \in [Deliveries -> ActorRow]
  BY MineFacts DEF Enqueue, EdgeInv, EdgeColumns
<1>1. UNCHANGED <<request, ctxDone, control, leased, actorOf, reply, current, closing, acted>>
  BY DEF Enqueue, callers, kernel, binding
<1>2. CASE /\ HasRoom(d) /\ actor' = [actor EXCEPT ![x].queue = Append(@, d)]
           /\ pc' = [pc EXCEPT ![d] = "wait"] /\ resp' = resp
  <2> DEFINE row == [actor[x] EXCEPT !.queue = Append(@, d)]
  <2>1. /\ row \in ActorRow /\ row.state = actor[x].state
        /\ row.busy = actor[x].busy /\ row.returned = actor[x].returned
        /\ row.results = actor[x].results /\ Len(row.queue) <= QueueSize
    <3>1. actor[x] \in ActorRow /\ actor[x].queue \in Seq(Deliveries)
      BY <1>0 DEF ActorRow
    <3>2. Len(actor[x].queue) < QueueSize /\ Len(actor[x].queue) \in Nat
      BY <1>2, <3>1 DEF HasRoom, mine
    <3>3. Append(actor[x].queue, d) \in Seq(Deliveries)
      BY <3>1
    <3>4. Len(Append(actor[x].queue, d)) <= QueueSize
      BY <3>1, <3>2, EdgeRunnerAssumption
    <3>5. row.queue = Append(actor[x].queue, d)
      BY <3>1 DEF ActorRow
    <3> QED
      BY <3>1, <3>3, <3>4, <3>5 DEF ActorRow
  <2>2. actor' = [actor EXCEPT ![x] = row]
    BY <1>2
  <2>3. /\ QueuesBounded' /\ ActedIsAnswered' /\ PassedWasActed'
        /\ actor' \in [Deliveries -> ActorRow]
    <3> HIDE DEF row
    <3> QED BY <1>0, <1>1, <1>2, <2>1, <2>2, ActorChanges
  <2>4. EdgeColumns'
    BY <1>1, <1>2, <2>3 DEF EdgeInv, EdgeColumns, Steps
  <2>5. HasActor'
    BY <1>0, <1>1, <1>2 DEF EdgeInv, EdgeColumns, HasActor
  <2>6. ServingIsBound'
    BY <1>0, <1>1, <2>1, <2>2 DEF EdgeInv, ServingIsBound
  <2> QED
    BY <2>3, <2>4, <2>5, <2>6 DEF EdgeInv
<1>3. CASE Return(d, "empty") /\ actor' = actor
  BY <1>0, <1>1, <1>3, ReturnInv
<1> QED
  BY <1>2, <1>3 DEF Enqueue

\* An actor's state changes, and what serves is bound.
LEMMA DeviceForInv ==
    ASSUME EdgeInv, NEW d \in Deliveries, DeviceFor(d) \/ Replaced(d)
    PROVE  EdgeInv'
<1>0. /\ actor \in [Deliveries -> ActorRow] /\ current \in Deliveries \cup {None}
      /\ None \notin Deliveries
  BY EdgeRunnerAssumption DEF EdgeInv, EdgeColumns
<1>1. UNCHANGED <<request, ctxDone, control, leased, resp, reply, acted>>
  BY DEF DeviceFor, Replaced, callers, kernel
<1>2. ASSUME NEW x \in Deliveries, NEW st \in {"open", "closed"},
             actor' = [actor EXCEPT ![x].state = st]
      PROVE  /\ QueuesBounded' /\ ActedIsAnswered' /\ PassedWasActed'
             /\ actor' \in [Deliveries -> ActorRow]
             /\ \A y \in Deliveries \ {x} : actor'[y].state = actor[y].state
  <2> DEFINE row == [actor[x] EXCEPT !.state = st]
  <2>1. /\ row \in ActorRow /\ row.queue = actor[x].queue
        /\ row.busy = actor[x].busy /\ row.returned = actor[x].returned
        /\ row.results = actor[x].results
    BY <1>0 DEF ActorRow
  <2>2. actor' = [actor EXCEPT ![x] = row] /\ Len(row.queue) <= QueueSize
    BY <1>2, <2>1 DEF EdgeInv, QueuesBounded
  <2> HIDE DEF row
  <2> QED
    BY <1>0, <1>1, <2>1, <2>2, ActorChanges
\* The bound actor is handed out.
<1>3. CASE /\ current # None /\ actorOf' = [actorOf EXCEPT ![d] = current]
           /\ pc' = [pc EXCEPT ![d] = "dispatch"]
           /\ UNCHANGED <<current, closing, actor>>
  <2>1. EdgeColumns'
    BY <1>0, <1>1, <1>3 DEF EdgeInv, EdgeColumns, Steps
  <2>2. HasActor'
    BY <1>0, <1>1, <1>3 DEF EdgeInv, EdgeColumns, HasActor
  <2>3. PassedWasActed'
    BY <1>1, <1>3, CarriedAlone DEF EdgeInv, PassedWasActed
  <2> QED
    BY <1>1, <1>3, <2>1, <2>2, <2>3, ActorsAlone DEF EdgeInv
\* The bound actor is told to close.
<1>4. CASE /\ current # None /\ actor' = [actor EXCEPT ![current].state = "closed"]
           /\ closing' = d /\ pc' = [pc EXCEPT ![d] = "closing"]
           /\ UNCHANGED <<actorOf, current>>
  <2>1. /\ QueuesBounded' /\ ActedIsAnswered' /\ PassedWasActed'
        /\ actor' \in [Deliveries -> ActorRow]
        /\ \A y \in Deliveries \ {current} : actor'[y].state = actor[y].state
    BY <1>0, <1>2, <1>4
  <2>2. EdgeColumns'
    BY <1>0, <1>1, <1>4, <2>1 DEF EdgeInv, EdgeColumns, Steps
  <2>3. HasActor'
    BY <1>0, <1>1, <1>4 DEF EdgeInv, EdgeColumns, HasActor
  <2>4. ServingIsBound'
    BY <1>4, <2>1 DEF EdgeInv, ServingIsBound
  <2> QED
    BY <2>1, <2>2, <2>3, <2>4 DEF EdgeInv
\* A new actor starts, when none serves.
<1>5. CASE /\ actor' = [actor EXCEPT ![d].state = "open"] /\ current' = d
           /\ actorOf' = [actorOf EXCEPT ![d] = d]
           /\ pc' = [pc EXCEPT ![d] = "dispatch"]
           /\ closing' \in Deliveries \cup {None}
           /\ current = None \/ actor[current].state = "stopped"
  <2>1. /\ QueuesBounded' /\ ActedIsAnswered' /\ PassedWasActed'
        /\ actor' \in [Deliveries -> ActorRow]
        /\ \A y \in Deliveries \ {d} : actor'[y].state = actor[y].state
    BY <1>2, <1>5
  <2>2. EdgeColumns'
    BY <1>1, <1>5, <2>1 DEF EdgeInv, EdgeColumns, Steps
  <2>3. HasActor'
    BY <1>0, <1>1, <1>5 DEF EdgeInv, EdgeColumns, HasActor
  <2>4. \A y \in Deliveries : actor[y].state \notin {"open", "closed"}
    BY <1>0, <1>5 DEF EdgeInv, ServingIsBound
  <2>5. ServingIsBound'
    BY <1>5, <2>1, <2>4 DEF ServingIsBound
  <2> QED
    BY <2>1, <2>2, <2>3, <2>5 DEF EdgeInv
<1>6. closing \in Deliveries \cup {None}
  BY DEF EdgeInv, EdgeColumns
<1> QED
  BY <1>3, <1>4, <1>5, <1>6 DEF DeviceFor, Replaced, binding

-----------------------------------------------------------------------------
(* Actor.loop.                                                             *)

\* A queued delivery is answered from the stored results, or is started: then
\* its attempt has no stored answer, so the actor has not acted for it.
LEMMA LoopTakeInv ==
    ASSUME EdgeInv, NEW x \in Deliveries, LoopTake(x)
    PROVE  EdgeInv'
<1> DEFINE d == Head(actor[x].queue)
<1>0. /\ actor \in [Deliveries -> ActorRow] /\ actor[x] \in ActorRow
      /\ actor[x].queue \in Seq(Deliveries) /\ actor[x].queue # <<>>
      /\ actor[x].busy = None
  BY DEF LoopTake, EdgeInv, EdgeColumns, ActorRow
<1>1. /\ d \in Deliveries /\ att(d) \in Attempts
      /\ Tail(actor[x].queue) \in Seq(Deliveries)
      /\ Len(Tail(actor[x].queue)) <= QueueSize
  <2>1. Len(actor[x].queue) <= QueueSize /\ Len(actor[x].queue) \in Nat
    BY <1>0 DEF EdgeInv, QueuesBounded
  <2>2. d \in Deliveries /\ Tail(actor[x].queue) \in Seq(Deliveries)
    BY <1>0
  <2>3. Len(Tail(actor[x].queue)) = Len(actor[x].queue) - 1
    BY <1>0
  <2>4. att(d) \in Attempts
    BY <2>2 DEF EdgeInv, EdgeColumns, att
  <2>5. Len(Tail(actor[x].queue)) <= QueueSize
    BY <2>1, <2>3, EdgeRunnerAssumption
  <2> QED
    BY <2>2, <2>4, <2>5
<1>2. UNCHANGED <<request, ctxDone, control, leased, pc, actorOf, resp, current, closing, acted>>
  BY DEF LoopTake, callers, kernel, binding
<1>3. CASE Answered(x, d)
  <2> DEFINE row == [actor[x] EXCEPT !.queue = Tail(@)]
  <2>1. /\ actor' = [actor EXCEPT ![x] = row]
        /\ reply' = [reply EXCEPT ![d] = actor[x].results[att(d)]]
    BY <1>3 DEF LoopTake
  <2>2. /\ row \in ActorRow /\ row.state = actor[x].state /\ row.busy = actor[x].busy
        /\ row.returned = actor[x].returned /\ row.results = actor[x].results
        /\ row.queue = Tail(actor[x].queue)
    BY <1>0, <1>1 DEF ActorRow
  <2> HIDE DEF row
  <2>3. /\ reply' \in [Deliveries -> Responses \cup {None}]
        /\ \A e \in Deliveries : reply'[e] = "passed" => Carried(att(e))
    BY <1>0, <1>1, <2>1 DEF EdgeInv, EdgeColumns, ActorRow, PassedWasActed, Carried
  <2>4. \A y \in Deliveries : /\ actor'[y].busy = actor[y].busy
                              /\ actor'[y].returned = actor[y].returned
                              /\ actor'[y].results = actor[y].results
                              /\ actor'[y].state = actor[y].state
    BY <1>0, <2>1, <2>2
  <2>5. EdgeColumns'
    BY <1>0, <1>2, <2>1, <2>2, <2>3 DEF EdgeInv, EdgeColumns
  <2>6. HasActor' /\ ServingIsBound'
    BY <1>2, <2>4 DEF EdgeInv, HasActor, ServingIsBound
  <2>7. QueuesBounded'
    BY <1>0, <1>1, <2>1, <2>2 DEF EdgeInv, QueuesBounded
  <2>8. ActedIsAnswered'
    BY <1>2, <2>4 DEF EdgeInv, ActedIsAnswered, Unstored, att
  <2>9. PassedWasActed'
    BY <1>2, <2>3, <2>4 DEF EdgeInv, PassedWasActed, Carried, att
  <2> QED
    BY <2>5, <2>6, <2>7, <2>8, <2>9 DEF EdgeInv
<1>4. CASE ~ Answered(x, d)
  <2> DEFINE row == [actor[x] EXCEPT !.queue = Tail(@), !.busy = d]
  <2>1. actor' = [actor EXCEPT ![x] = row] /\ reply' = reply
    BY <1>0, <1>4 DEF LoopTake
  <2>2. /\ row \in ActorRow /\ row.state = actor[x].state /\ row.busy = d
        /\ row.returned = actor[x].returned /\ row.results = actor[x].results
        /\ row.queue = Tail(actor[x].queue)
    BY <1>0, <1>1 DEF ActorRow
  <2> HIDE DEF row
  <2>3. actor[x].returned = None /\ actor[x].results[att(d)] = None
    BY <1>0, <1>4 DEF EdgeInv, ActedIsAnswered, Answered
  <2>4. \A y \in Deliveries : /\ actor'[y].results = actor[y].results
                              /\ actor'[y].returned = actor[y].returned
                              /\ actor'[y].state = actor[y].state
    BY <1>0, <2>1, <2>2
  <2>5. EdgeColumns'
    BY <1>0, <1>2, <2>1, <2>2 DEF EdgeInv, EdgeColumns
  <2>6. HasActor' /\ ServingIsBound'
    BY <1>2, <2>4 DEF EdgeInv, HasActor, ServingIsBound
  <2>7. QueuesBounded'
    BY <1>0, <1>1, <2>1, <2>2 DEF EdgeInv, QueuesBounded
  <2>8. \A a \in Attempts : acted[x][a] > 0 => actor[x].results[a] # None
    BY <1>0 DEF EdgeInv, ActedIsAnswered, Unstored
  <2>9. ActedIsAnswered'
    BY <1>0, <1>2, <2>1, <2>2, <2>3, <2>4, <2>8 DEF EdgeInv, ActedIsAnswered, Unstored, att
  <2>10. PassedWasActed'
    <3>1. actor[x].returned # "passed"
      BY <2>3, EdgeRunnerAssumption DEF Responses
    <3>2. \A y \in Deliveries \ {x} : actor'[y].busy = actor[y].busy
      BY <1>0, <2>1
    <3> QED
      BY <1>2, <2>1, <2>4, <3>1, <3>2 DEF EdgeInv, PassedWasActed, Carried, att
  <2> QED
    BY <2>5, <2>6, <2>7, <2>9, <2>10 DEF EdgeInv
<1> QED
  BY <1>3, <1>4

\* The device call returns.  It is the first for its attempt, so the count is
\* one afterwards at most, and "passed" has an act behind it.
LEMMA ExecuteInv ==
    ASSUME EdgeInv, NEW x \in Deliveries, NEW acts \in BOOLEAN, NEW r \in Responses,
           Execute(x, acts, r)
    PROVE  EdgeInv'
<1>0. /\ actor \in [Deliveries -> ActorRow] /\ actor[x] \in ActorRow
      /\ actor[x].busy # None /\ actor[x].busy \in Deliveries /\ actor[x].returned = None
      /\ acted \in [Deliveries -> [Attempts -> Nat]]
  BY DEF Execute, EdgeInv, EdgeColumns, ActorRow
<1>1. PICK d \in Deliveries, a0 \in Attempts : d = actor[x].busy /\ a0 = att(d)
  BY <1>0 DEF EdgeInv, EdgeColumns, att
<1>2. UNCHANGED <<request, ctxDone, control, leased, pc, actorOf, resp, reply, current, closing>>
  BY DEF Execute, callers, kernel, binding
<1> DEFINE row == [actor[x] EXCEPT !.returned = r]
<1>3. actor' = [actor EXCEPT ![x] = row]
  BY DEF Execute
<1>4. /\ row \in ActorRow /\ row.state = actor[x].state /\ row.busy = d
      /\ row.returned = r /\ row.results = actor[x].results /\ row.queue = actor[x].queue
  BY <1>0, <1>1 DEF ActorRow
<1> HIDE DEF row
<1>5. \A y \in Deliveries : /\ actor'[y].results = actor[y].results
                            /\ actor'[y].busy = actor[y].busy
                            /\ actor'[y].queue = actor[y].queue
                            /\ actor'[y].state = actor[y].state
  BY <1>0, <1>1, <1>3, <1>4
<1>5a. \A y \in Deliveries \ {x} : actor'[y].returned = actor[y].returned
  BY <1>0, <1>3
<1>6. actor'[x].returned = r /\ r # None
  BY <1>0, <1>3, <1>4, EdgeRunnerAssumption
<1>7. acted[x][a0] = 0
  <2>1. actor[x].results[a0] = None
    BY <1>0, <1>1 DEF EdgeInv, ActedIsAnswered
  <2>2. ~ (acted[x][a0] > 0)
    BY <1>0, <2>1 DEF EdgeInv, ActedIsAnswered, Unstored
  <2>3. acted[x][a0] \in Nat
    BY <1>0
  <2> QED
    BY <2>2, <2>3
<1>8. /\ acted' \in [Deliveries -> [Attempts -> Nat]]
      /\ \A y \in Deliveries, a \in Attempts :
            y # x \/ a # a0 => acted'[y][a] = acted[y][a]
      /\ acted'[x][a0] = IF acts THEN 1 ELSE 0
  BY <1>0, <1>1, <1>7 DEF Execute
<1>9. \A a \in Attempts : Carried(a) => Carried(a)'
  BY <1>7, <1>8 DEF Carried
<1>10. EdgeColumns'
  BY <1>0, <1>2, <1>3, <1>4, <1>8 DEF EdgeInv, EdgeColumns
<1>11. HasActor' /\ ServingIsBound'
  BY <1>2, <1>5 DEF EdgeInv, HasActor, ServingIsBound
<1>12. QueuesBounded'
  BY <1>5 DEF EdgeInv, QueuesBounded
<1>13. ActedIsAnswered'
  <2>1. \A y \in Deliveries \ {x}, a \in Attempts : Unstored(y, a) => Unstored(y, a)'
    BY <1>2, <1>5, <1>5a DEF Unstored, att
  <2>2. Unstored(x, a0)'
    BY <1>0, <1>1, <1>2, <1>5, <1>6 DEF Unstored, att
  <2>3. \A a \in Attempts : ~ Unstored(x, a)
    BY <1>0 DEF Unstored
  <2>4. ASSUME NEW y \in Deliveries, NEW a \in Attempts, acted'[y][a] > 0
        PROVE  acted'[y][a] = 1 /\ (actor'[y].results[a] # None \/ Unstored(y, a)')
    <3>1. CASE y = x /\ a = a0
      BY <1>8, <2>2, <2>4, <3>1
    <3>2. CASE y = x /\ a # a0
      BY <1>5, <1>8, <2>3, <2>4, <3>2 DEF EdgeInv, ActedIsAnswered
    <3>3. CASE y # x
      BY <1>5, <1>8, <2>1, <2>4, <3>3 DEF EdgeInv, ActedIsAnswered
    <3> QED
      BY <3>1, <3>2, <3>3
  <2>5. \A y \in Deliveries :
            /\ actor'[y].busy # None => actor'[y].results[att(actor[y].busy)'] = None
            /\ actor'[y].busy = None => actor'[y].returned = None
    BY <1>0, <1>2, <1>5, <1>5a DEF EdgeInv, ActedIsAnswered, att
  <2> QED
    BY <2>4, <2>5 DEF ActedIsAnswered
<1>14. PassedWasActed'
  <2>1. \A y \in Deliveries, a \in Attempts : acted[y][a] > 0 => acted'[y][a] > 0
    BY <1>7, <1>8
  <2>2. r = "passed" => acted'[x][a0] > 0
    BY <1>8 DEF Execute
  <2>3. ASSUME NEW y \in Deliveries, actor'[y].busy # None, actor'[y].returned = "passed"
        PROVE  acted'[y][att(actor[y].busy)'] > 0
    <3>1. CASE y = x
      BY <1>1, <1>2, <1>5, <1>6, <2>2, <2>3, <3>1 DEF att
    <3>2. CASE y # x
      <4>1. actor[y].busy \in Deliveries /\ att(actor[y].busy) \in Attempts
        BY <1>0, <1>5, <2>3 DEF ActorRow, EdgeInv, EdgeColumns, att
      <4> QED
        BY <1>2, <1>5, <1>5a, <2>1, <2>3, <3>2, <4>1 DEF EdgeInv, PassedWasActed, att
    <3> QED
      BY <3>1, <3>2
  <2>4. \A e \in Deliveries : att(e) \in Attempts /\ att(e)' = att(e)
    BY <1>2 DEF EdgeInv, EdgeColumns, att
  <2> QED
    BY <1>2, <1>5, <1>9, <2>1, <2>3, <2>4 DEF EdgeInv, PassedWasActed
<1> QED
  BY <1>10, <1>11, <1>12, <1>13, <1>14 DEF EdgeInv

\* The answer is stored and sent: what the caller sees is a success only if the
\* adapter's answer was one.
LEMMA FinishInv ==
    ASSUME EdgeInv, NEW x \in Deliveries, NEW seen \in Responses, Finish(x, seen)
    PROVE  EdgeInv'
<1>0. /\ actor \in [Deliveries -> ActorRow] /\ actor[x] \in ActorRow
      /\ actor[x].busy # None /\ actor[x].busy \in Deliveries
      /\ actor[x].returned # None /\ actor[x].returned \in Responses
  BY DEF Finish, EdgeInv, EdgeColumns, ActorRow
<1>1. PICK d \in Deliveries, a0 \in Attempts, r \in Responses :
            d = actor[x].busy /\ a0 = att(d) /\ r = actor[x].returned
  BY <1>0 DEF EdgeInv, EdgeColumns, att
<1>2. UNCHANGED <<request, ctxDone, control, leased, pc, actorOf, resp, current, closing, acted>>
  BY DEF Finish, callers, kernel, binding
<1> DEFINE row == [actor[x] EXCEPT !.results = [actor[x].results EXCEPT ![a0] = r],
                                   !.busy = None, !.returned = None]
<1>3. actor' = [actor EXCEPT ![x] = row] /\ reply' = [reply EXCEPT ![d] = seen]
  BY <1>0, <1>1 DEF Finish, Stored
<1>4. /\ row \in ActorRow /\ row.state = actor[x].state /\ row.busy = None
      /\ row.returned = None /\ row.queue = actor[x].queue
      /\ row.results = [actor[x].results EXCEPT ![a0] = r]
  BY <1>0, <1>1 DEF ActorRow
<1> HIDE DEF row
<1>5. \A y \in Deliveries : /\ actor'[y].queue = actor[y].queue
                            /\ actor'[y].state = actor[y].state
  BY <1>0, <1>3, <1>4
<1>5a. \A y \in Deliveries \ {x} : actor'[y] = actor[y]
  BY <1>0, <1>3
<1>6. /\ actor'[x].busy = None /\ actor'[x].returned = None
      /\ actor'[x].results[a0] = r
      /\ \A a \in Attempts \ {a0} : actor'[x].results[a] = actor[x].results[a]
  BY <1>0, <1>1, <1>3, <1>4 DEF ActorRow
<1>7. r = "passed" => acted[x][a0] > 0
  BY <1>0, <1>1 DEF EdgeInv, PassedWasActed
<1>8. seen = "passed" => Carried(a0)
  BY <1>0, <1>1, <1>7 DEF Finish, AfterCleanup, Carried
<1>9. EdgeColumns'
  BY <1>0, <1>2, <1>3, <1>4 DEF EdgeInv, EdgeColumns
<1>10. HasActor' /\ ServingIsBound'
  BY <1>2, <1>5 DEF EdgeInv, HasActor, ServingIsBound
<1>11. QueuesBounded'
  BY <1>5 DEF EdgeInv, QueuesBounded
<1>12. ActedIsAnswered'
  <2>1. ASSUME NEW a \in Attempts, acted[x][a] > 0
        PROVE  acted[x][a] = 1 /\ actor'[x].results[a] # None
    BY <1>0, <1>1, <1>6, <2>1 DEF EdgeInv, ActedIsAnswered, Unstored
  <2>2. \A y \in Deliveries \ {x}, a \in Attempts : Unstored(y, a)' = Unstored(y, a)
    BY <1>2, <1>5a DEF Unstored, att
  <2>3. \A y \in Deliveries \ {x} : att(actor[y].busy)' = att(actor[y].busy)
    BY <1>2, <1>5a DEF att
  <2> QED
    BY <1>2, <1>5a, <1>6, <2>1, <2>2, <2>3 DEF EdgeInv, ActedIsAnswered
<1>13. PassedWasActed'
  <2>1. \A a \in Attempts : Carried(a)' = Carried(a)
    BY <1>2 DEF Carried
  <2>2. \A e \in Deliveries : reply'[e] = "passed" => Carried(att(e))
    BY <1>0, <1>1, <1>3, <1>8 DEF EdgeInv, EdgeColumns, PassedWasActed
  <2>3. \A e \in Deliveries : att(e) \in Attempts /\ att(e)' = att(e)
    BY <1>2 DEF EdgeInv, EdgeColumns, att
  <2>4. \A y \in Deliveries \ {x} : att(actor[y].busy)' = att(actor[y].busy)
    BY <1>2, <1>5a DEF att
  <2>5. \A a \in Attempts : actor'[x].results[a] = "passed" => acted[x][a] > 0
    BY <1>6, <1>7 DEF EdgeInv, PassedWasActed
  <2> QED
    BY <1>2, <1>5a, <1>6, <2>1, <2>2, <2>3, <2>4, <2>5 DEF EdgeInv, PassedWasActed
<1> QED
  BY <1>9, <1>10, <1>11, <1>12, <1>13 DEF EdgeInv

\* An idle actor that was closed stops.
LEMMA LoopExitInv ==
    ASSUME EdgeInv, NEW x \in Deliveries, LoopExit(x)
    PROVE  EdgeInv'
<1>0. actor \in [Deliveries -> ActorRow] /\ actor[x] \in ActorRow
  BY DEF EdgeInv, EdgeColumns
<1>1. UNCHANGED <<request, ctxDone, control, leased, pc, actorOf, resp, reply, current,
                  closing, acted>>
  BY DEF LoopExit, callers, kernel, binding
<1> DEFINE row == [actor[x] EXCEPT !.state = "stopped"]
<1>2. actor' = [actor EXCEPT ![x] = row]
  BY DEF LoopExit
<1>3. /\ row \in ActorRow /\ row.queue = actor[x].queue /\ row.state = "stopped"
      /\ row.busy = actor[x].busy /\ row.returned = actor[x].returned
      /\ row.results = actor[x].results
  BY <1>0 DEF ActorRow
<1> HIDE DEF row
<1>4. Len(row.queue) <= QueueSize
  BY <1>3 DEF EdgeInv, QueuesBounded
<1>5. /\ QueuesBounded' /\ ActedIsAnswered' /\ PassedWasActed'
      /\ actor' \in [Deliveries -> ActorRow]
  BY <1>1, <1>2, <1>3, <1>4, ActorChanges
<1>6. ServingIsBound'
  BY <1>0, <1>1, <1>2, <1>3 DEF EdgeInv, ServingIsBound
<1>7. EdgeColumns' /\ HasActor'
  BY <1>1, <1>5 DEF EdgeInv, EdgeColumns, HasActor
<1> QED
  BY <1>5, <1>6, <1>7 DEF EdgeInv

-----------------------------------------------------------------------------
(* The theorems.                                                           *)

\* Every step keeps the invariant.
LEMMA EdgeNextInv ==
    ASSUME EdgeInv, [EdgeNext]_edgeVars
    PROVE  EdgeInv'
<1>1. CASE UNCHANGED edgeVars
  <2>1. UNCHANGED <<request, control, leased, pc, ctxDone, actorOf, resp, reply, current,
                    closing, actor, acted>>
    BY <1>1 DEF edgeVars
  <2> QED
    BY <2>1, ActorsAlone, CarriedAlone
    DEF EdgeInv, EdgeColumns, HasActor, PassedWasActed
<1>2. ASSUME NEW d \in Deliveries, DeliveryStep(d) PROVE EdgeInv'
  BY <1>2, AuthorizeInv, DeviceForInv, SubmitInv, EnqueueInv, AwaitInv, RecordInv
  DEF DeliveryStep
<1>3. ASSUME NEW x \in Deliveries, LoopStep(x) PROVE EdgeInv'
  BY <1>3, LoopTakeInv, LoopExitInv, FinishInv, ExecuteInv DEF LoopStep
<1> QED
  BY <1>1, <1>2, <1>3, EnvironmentInv DEF EdgeNext

\* The inductive invariant, for any deliveries, attempts, serials and queue size.
THEOREM EdgeInvariant == EdgeSpec => []EdgeInv
BY EdgeInitInv, EdgeNextInv, PTL DEF EdgeSpec

\* Every variable of the edge runner keeps its type, and no actor's queue (the
\* channel of actor.go) grows past its capacity.
THEOREM EdgeTypes == EdgeSpec => []EdgeTypeOK
BY EdgeInvariant, EdgeInvTypes, PTL

\* Actor.loop acts on the device at most once for an attempt, however many
\* deliveries of it there are and whatever their callers do.
THEOREM ActsOnce == EdgeSpec => []ActorActsOnce
BY EdgeInvariant, EdgeInvActsOnce, PTL

\* Runner.Run makes the kernel record a success only for an attempt that some
\* actor carried out on the device.
THEOREM VerifiedIsCarriedOut == EdgeSpec => []VerifiedWasActed
BY EdgeInvariant, EdgeInvVerified, PTL

\* deviceFor never lets two actors of the device serve at once.
THEOREM OneServes == EdgeSpec => []OneActorServes
BY EdgeInvariant, EdgeInvServes, PTL

-----------------------------------------------------------------------------
(* The attempts as the edge sees them: AttemptLife.                        *)

\* Whatever the runner reports, the kernel replays it, puts the attempt in doubt,
\* or decides it in a way its state allows.
LEMMA RecordedLife ==
    ASSUME NEW st \in ControlStates, NEW r \in Responses \cup {"empty", None}
    PROVE  \/ Recorded(st, r) = st
           \/ st = "dispatched" /\ Recorded(st, r) = "indeterminate"
           \/ Recorded(st, r) \in Life!LifeOutcomes(st)
<1>1. CASE r = "empty"
  BY <1>1 DEF Recorded, Life!LifeOutcomes, Life!LifeDecided, Responses
<1>2. CASE r = "timed_out"
  BY <1>2 DEF Recorded, Life!LifeOutcomes, Life!LifeDecided, InFlight
<1>3. CASE r = "indeterminate"
  BY <1>3 DEF Recorded
<1>4. CASE r \in {"passed", "failed", "unknown"}
  BY <1>4 DEF Recorded, Life!LifeOutcomes, Life!LifeDecided
<1>5. CASE r = None
  BY <1>5, EdgeRunnerAssumption DEF Recorded, Responses
<1> QED
  BY <1>1, <1>2, <1>3, <1>4, <1>5 DEF Responses

\* A step of the edge is a step in the life of one attempt, or the emergency stop.
LEMMA EdgeLifeStep ==
    ASSUME EdgeInv, [EdgeNext]_edgeVars
    PROVE  [Life!LifeNext]_Life!lifeVars
<1>0. /\ control \in [Attempts -> ControlStates]
      /\ \A d \in Deliveries : att(d) \in Attempts
      /\ resp \in [Deliveries -> Responses \cup {"empty", None}]
  BY DEF EdgeInv, EdgeColumns, att
<1>1. CASE UNCHANGED control
  BY <1>1 DEF Life!lifeVars
<1>2. ASSUME NEW d \in Deliveries, AuthorizeStep(d), control' # control
      PROVE  Life!LifeNext
  <2>1. Life!Authorized(att(d))
    BY <1>2 DEF AuthorizeStep, Life!Authorized
  <2> QED
    BY <1>0, <2>1 DEF Life!LifeNext
<1>3. ASSUME NEW d \in Deliveries, DispatchStep(d), control' # control
      PROVE  Life!LifeNext
  <2>1. /\ control[att(d)] = "authorized"
        /\ \/ control' = [control EXCEPT ![att(d)] = "dispatched"]
           \/ control' = [control EXCEPT ![att(d)] = "failed"]
    BY <1>3 DEF DispatchStep
  <2>2. Life!Sent(att(d)) \/ Life!Settled(att(d))
    BY <2>1 DEF Life!Sent, Life!Settled, Life!LifeOutcomes
  <2> QED
    BY <1>0, <2>2 DEF Life!LifeNext
<1>4. ASSUME NEW d \in Deliveries, Record(d), control' # control
      PROVE  Life!LifeNext
  <2> DEFINE next == Recorded(control[att(d)], resp[d])
  <2>1. control' = [control EXCEPT ![att(d)] = next]
    BY <1>4 DEF Record
  <2>2. /\ control[att(d)] \in ControlStates
        /\ resp[d] \in Responses \cup {"empty", None}
    BY <1>0
  <2>3. \/ next = control[att(d)]
        \/ control[att(d)] = "dispatched" /\ next = "indeterminate"
        \/ next \in Life!LifeOutcomes(control[att(d)])
    BY <2>2, RecordedLife
  <2> HIDE DEF next
  <2>4. next # control[att(d)]
    BY <1>0, <1>4, <2>1
  <2>5. Life!Doubted(att(d)) \/ Life!Settled(att(d))
    BY <2>1, <2>3, <2>4 DEF Life!Doubted, Life!Settled
  <2> QED
    BY <1>0, <2>5 DEF Life!LifeNext
<1>5. CASE EmergencyStop
  <2> DEFINE stopped == {a \in Attempts : control[a] \in InFlight}
  <2>1. Life!Interrupted(stopped, {})
    BY <1>0, <1>5 DEF EmergencyStop, Life!Interrupted, Life!LifeInFlight, InFlight
  <2> HIDE DEF stopped
  <2>2. stopped \in SUBSET Attempts /\ {} \in SUBSET Attempts
    BY DEF stopped
  <2> QED
    BY <2>1, <2>2 DEF Life!LifeNext
<1> QED
  BY <1>1, <1>2, <1>3, <1>4, <1>5
  DEF EdgeNext, DeliveryStep, LoopStep, edgeVars, kernel, DeviceFor, Replaced, Submit,
      Enqueue, Await, LoopTake, LoopExit, Finish, Execute, CancelCaller, LoseLease

\* The edge, its duplicate deliveries, late answers and emergency stops included,
\* tells the life of every attempt as the action service does
\* (EdgeImplementsAttemptLife).
THEOREM EdgeTellsAttemptLife == EdgeSpec => EdgeImplementsAttemptLife
<1>1. EdgeInit => Life!LifeInit
  BY DEF EdgeInit, Life!LifeInit
<1>2. EdgeInv /\ [EdgeNext]_edgeVars => [Life!LifeNext]_Life!lifeVars
  BY EdgeLifeStep
<1> QED
  BY <1>1, <1>2, EdgeInvariant, PTL DEF EdgeSpec, EdgeImplementsAttemptLife, Life!LifeSpec

\* Of any attempts that live as AttemptLife says, those of the edge in particular:
\* a decision is final, an attempt is sent once, doubt is left only by a decision
\* and success is decided only for what was sent.
THEOREM EdgeAttemptsGoForward == EdgeSpec => Life!LifeGoesForward
<1>1. ASSUME EdgeInv, Life!LifeNext, NEW a \in Attempts
      PROVE  /\ control[a] \in Life!LifeDecided => control'[a] = control[a]
             /\ control[a] = "indeterminate" =>
                    control'[a] \in {"indeterminate"} \cup Life!LifeOutcomes(control[a])
             /\ control[a] = "dispatched" => control'[a] \notin {"absent", "authorized"}
             /\ control'[a] = "dispatched" => control[a] \in Life!LifeInFlight
             /\ control'[a] = "verified" => control[a] \notin {"absent", "authorized"}
  <2>0. control = [x \in Attempts |-> control[x]]
    BY <1>1 DEF EdgeInv, EdgeColumns
  <2>1. ASSUME NEW b \in Attempts, Life!Authorized(b) \/ Life!Sent(b) \/ Life!Doubted(b)
        PROVE  \/ control'[a] = control[a]
               \/ <<control[a], control'[a]>> \in {<<"absent", "authorized">>,
                    <<"authorized", "dispatched">>, <<"dispatched", "indeterminate">>}
    BY <2>0, <2>1 DEF Life!Authorized, Life!Sent, Life!Doubted
  <2>2. ASSUME NEW b \in Attempts, Life!Settled(b)
        PROVE  control'[a] = control[a] \/ control'[a] \in Life!LifeOutcomes(control[a])
    BY <2>0, <2>2 DEF Life!Settled
  <2>3. ASSUME NEW cancelled \in SUBSET Attempts, NEW doubted \in SUBSET Attempts,
               Life!Interrupted(cancelled, doubted)
        PROVE  \/ control'[a] = control[a]
               \/ control[a] \in {"authorized", "dispatched"} /\ control'[a] = "cancelled"
               \/ control[a] = "dispatched" /\ control'[a] = "indeterminate"
    BY <2>3 DEF Life!Interrupted, Life!LifeInFlight
  <2>4. CASE control'[a] \in Life!LifeOutcomes(control[a])
    BY <2>4 DEF Life!LifeOutcomes, Life!LifeDecided, Life!LifeInFlight
  <2>5. CASE \/ control'[a] = control[a]
             \/ <<control[a], control'[a]>> \in {<<"absent", "authorized">>,
                    <<"authorized", "dispatched">>, <<"dispatched", "indeterminate">>}
             \/ control[a] \in {"authorized", "dispatched"} /\ control'[a] = "cancelled"
    BY <2>5 DEF Life!LifeDecided, Life!LifeInFlight
  <2> QED
    BY <1>1, <2>1, <2>2, <2>3, <2>4, <2>5 DEF Life!LifeNext
<1>2. EdgeInv /\ [Life!LifeNext]_Life!lifeVars =>
        [\A a \in Attempts :
            /\ control[a] \in Life!LifeDecided => control'[a] = control[a]
            /\ control[a] = "indeterminate" =>
                   control'[a] \in {"indeterminate"} \cup Life!LifeOutcomes(control[a])
            /\ control[a] = "dispatched" => control'[a] \notin {"absent", "authorized"}
            /\ control'[a] = "dispatched" => control[a] \in Life!LifeInFlight
            /\ control'[a] = "verified" => control[a] \notin {"absent", "authorized"}
        ]_Life!lifeVars
  BY <1>1
<1> QED
  BY <1>2, EdgeInvariant, EdgeTellsAttemptLife, PTL
  DEF EdgeImplementsAttemptLife, Life!LifeSpec, Life!LifeGoesForward

=============================================================================
