----------------------------- MODULE EdgeRunner -----------------------------
(***************************************************************************)
(* How a delivery of a device input runs at the edge: InputDispatcher      *)
(* (internal/edge/execution/input_dispatch.go), Runner                     *)
(* (internal/edge/runner/runner.go) and the per-device Actor               *)
(* (internal/edge/actors/actor.go), for one device.                        *)
(*                                                                         *)
(* A delivery is one call of InputDispatcher.Run; two deliveries may carry *)
(* the same attempt.  Between two of its steps it holds no lock, except    *)
(* that deviceFor keeps the dispatcher's mutex while it waits for an actor *)
(* it replaces to stop.  The kernel appears by the states of the attempts, *)
(* one step per transaction; ActionKernel has its detail, cleanup_state    *)
(* and deadlines included.                                                 *)
(***************************************************************************)
EXTENDS Naturals, Sequences, FiniteSets

CONSTANTS
    Deliveries, Attempts,
    Serials,            \* transport serials a request may name
    None,               \* no delivery, no response
    QueueSize           \* capacity of an actor's queue

VARIABLES
    request,            \* what each delivery asks: attempt and serial
    control,            \* state of each attempt in the kernel
    leased,             \* the lease of the attempts is still valid
    pc, ctxDone,        \* per delivery: where it is, whether its caller gave up
    actorOf,            \* per delivery: the actor it was given
    resp,               \* per delivery: what Submit returned
    reply,              \* per delivery: its result channel
    current, closing,   \* the dispatcher's bound actor; who holds its mutex to close it
    actor,              \* actors, named after the delivery that created them
    acted               \* per actor and attempt: how often the device was acted on

kernel == <<control, leased>>
callers == <<request, ctxDone>>
binding == <<current, closing>>
edgeVars == <<request, control, leased, pc, ctxDone, actorOf, resp, reply,
              current, closing, actor, acted>>

InFlight == {"authorized", "dispatched"}
Ended    == {"verified", "failed", "timed_out", "cancelled"}

\* What Run tells apart in a response: the five branches of its switch, the
\* completion by its postcondition.  "empty" is an error with no response.
Responses == {"passed", "failed", "unknown", "timed_out", "indeterminate"}

ASSUME EdgeRunnerAssumption ==
    /\ None \notin Deliveries \cup Responses \cup {"empty"}
    /\ QueueSize \in Nat \ {0}

Steps == {"authorize", "bind", "closing", "dispatch", "submit", "enqueue", "wait",
          "record", "done"}

NoActor  == [state |-> "none", queue |-> <<>>, busy |-> None, returned |-> None,
             results |-> [a \in Attempts |-> None]]

att(d) == request[d].attempt
mine(d) == actor[actorOf[d]]

-----------------------------------------------------------------------------
(* InputDispatcher.                                                        *)

\* Authorize: the first delivery creates the attempt; a duplicate goes on only if
\* the attempt was never dispatched.  A cancelled context fails the transaction.
AuthorizeStep(d) ==
    /\ pc[d] = "authorize"
    /\ IF ~ ctxDone[d] /\ control[att(d)] = "absent" /\ leased
       THEN control' = [control EXCEPT ![att(d)] = "authorized"]
       ELSE UNCHANGED control
    /\ pc' = [pc EXCEPT ![d] =
            IF ~ ctxDone[d] /\ control'[att(d)] = "authorized" THEN "bind" ELSE "done"]
    /\ UNCHANGED <<callers, leased, actorOf, resp, reply, binding, actor, acted>>

\* deviceFor, holding the dispatcher's mutex: the bound actor if the serial is
\* unchanged, else the old actor is closed first.
DeviceFor(d) ==
    /\ pc[d] = "bind" /\ closing = None
    /\ \/ /\ current # None /\ request[current].serial = request[d].serial
          /\ actorOf' = [actorOf EXCEPT ![d] = current]
          /\ pc' = [pc EXCEPT ![d] = "dispatch"]
          /\ UNCHANGED <<binding, actor>>
       \/ /\ current # None /\ request[current].serial # request[d].serial
          /\ actor' = [actor EXCEPT ![current].state = "closed"]
          /\ closing' = d
          /\ pc' = [pc EXCEPT ![d] = "closing"]
          /\ UNCHANGED <<actorOf, current>>
       \/ /\ current = None
          /\ actor' = [actor EXCEPT ![d].state = "open"]
          /\ current' = d
          /\ actorOf' = [actorOf EXCEPT ![d] = d]
          /\ pc' = [pc EXCEPT ![d] = "dispatch"]
          /\ UNCHANGED closing
    /\ UNCHANGED <<callers, kernel, resp, reply, acted>>

\* Mutant of Replaced: the new actor starts while the old one is still running.
ReplacedAtOnce(d) ==
    /\ pc[d] = "closing"
    /\ actor' = [actor EXCEPT ![d].state = "open"]
    /\ current' = d /\ closing' = None
    /\ actorOf' = [actorOf EXCEPT ![d] = d]
    /\ pc' = [pc EXCEPT ![d] = "dispatch"]
    /\ UNCHANGED <<callers, kernel, resp, reply, acted>>

\* Close returned: the loop has ended, the new actor starts.
Replaced(d) ==
    /\ pc[d] = "closing"
    /\ actor[current].state = "stopped"
    /\ actor' = [actor EXCEPT ![d].state = "open"]
    /\ current' = d /\ closing' = None
    /\ actorOf' = [actorOf EXCEPT ![d] = d]
    /\ pc' = [pc EXCEPT ![d] = "dispatch"]
    /\ UNCHANGED <<callers, kernel, resp, reply, acted>>

-----------------------------------------------------------------------------
(* Runner.Run.                                                             *)

\* A replayed Dispatch stops the run unless the attempt is on its way.
GoesOn(st) == st = "dispatched"

DispatchStep(d) ==
    /\ pc[d] = "dispatch"
    /\ control' = IF ctxDone[d] \/ control[att(d)] # "authorized" THEN control
                  ELSE [control EXCEPT ![att(d)] = IF leased THEN "dispatched" ELSE "failed"]
    /\ pc' = [pc EXCEPT ![d] =
            IF ~ ctxDone[d] /\ (control[att(d)] # "authorized" \/ leased)
               /\ GoesOn(control'[att(d)])
            THEN "submit" ELSE "done"]
    /\ UNCHANGED <<callers, leased, actorOf, resp, reply, binding, actor, acted>>

\* Mutant of Recorded: a missing verdict counts as a success.
RecordedOptimistic(st, r) ==
    IF r \in {"passed", "unknown"} /\ st = "dispatched" /\ leased THEN "verified" ELSE st

\* The attempt's next state for what the runner reports; the same state where the
\* kernel replays or refuses.
Recorded(st, r) ==
    CASE r = "empty" /\ leased /\ st \in {"authorized", "dispatched", "indeterminate"}
            -> "cancelled"
      [] r = "timed_out" /\ st \in InFlight -> "timed_out"
      [] r = "indeterminate" /\ st = "dispatched" -> "indeterminate"
      [] r \in {"passed", "failed", "unknown"} /\ st = "dispatched" ->
            IF ~ leased THEN "failed"
            ELSE [passed |-> "verified", failed |-> "failed", unknown |-> "indeterminate"][r]
      [] OTHER -> st

\* The switch of Run: one kernel transaction, with the caller's context.
Record(d) ==
    /\ pc[d] = "record"
    /\ control' = IF ctxDone[d] THEN control
                  ELSE [control EXCEPT ![att(d)] = Recorded(control[att(d)], resp[d])]
    /\ pc' = [pc EXCEPT ![d] = "done"]
    /\ UNCHANGED <<callers, leased, actorOf, resp, reply, binding, actor, acted>>

-----------------------------------------------------------------------------
(* Actor.Submit.                                                           *)

Return(d, r) == /\ resp' = [resp EXCEPT ![d] = r]
                /\ pc' = [pc EXCEPT ![d] = "record"]

\* Under the actor's mutex: a stored result is replayed, a closed actor refuses.
Submit(d) ==
    /\ pc[d] = "submit"
    /\ CASE mine(d).results[att(d)] # None -> Return(d, mine(d).results[att(d)])
         [] OTHER -> IF mine(d).state # "open" THEN Return(d, "empty")
                     ELSE pc' = [pc EXCEPT ![d] = "enqueue"] /\ UNCHANGED resp
    /\ UNCHANGED <<callers, kernel, actorOf, reply, binding, actor, acted>>

\* Mutant of HasRoom: the capacity is off by one.
HasRoomForOneMore(d) == Len(mine(d).queue) <= QueueSize

HasRoom(d) == Len(mine(d).queue) < QueueSize

\* The first select: room in the queue, or the caller or the actor is done.
Enqueue(d) ==
    /\ pc[d] = "enqueue"
    /\ \/ /\ HasRoom(d)
          /\ actor' = [actor EXCEPT ![actorOf[d]].queue = Append(@, d)]
          /\ pc' = [pc EXCEPT ![d] = "wait"]
          /\ UNCHANGED resp
       \/ /\ ctxDone[d] \/ mine(d).state # "open"
          /\ Return(d, "empty")
          /\ UNCHANGED actor
    /\ UNCHANGED <<callers, kernel, actorOf, reply, binding, acted>>

\* The second select: the result, or the caller or the actor is done.
Await(d) ==
    /\ pc[d] = "wait"
    /\ \/ reply[d] # None /\ Return(d, reply[d])
       \/ (ctxDone[d] \/ mine(d).state # "open") /\ Return(d, "empty")
    /\ UNCHANGED <<callers, kernel, actorOf, reply, binding, actor, acted>>

-----------------------------------------------------------------------------
(* Actor.loop, for the actor named x.  select picks either ready case, so  *)
(* a closed actor may still take what is queued.                           *)

\* Mutant of Answered: the loop trusts the check that Submit made.
AnsweredNever(x, d) == FALSE

\* The loop looks the key up again before it executes.
Answered(x, d) == actor[x].results[att(d)] # None

\* Mutant of MayReply: the result channel has no buffer.
MayReplyUnbuffered(d) == pc[d] = "wait"

\* The result channel has room for the one result it gets.
MayReply(d) == TRUE

LoopTake(x) ==
    /\ actor[x].state \in {"open", "closed"} /\ actor[x].busy = None
    /\ actor[x].queue # <<>>
    /\ LET d == Head(actor[x].queue) IN
       IF Answered(x, d)
       THEN /\ MayReply(d)
            /\ reply' = [reply EXCEPT ![d] = actor[x].results[att(d)]]
            /\ actor' = [actor EXCEPT ![x].queue = Tail(@)]
       ELSE /\ actor' = [actor EXCEPT ![x].queue = Tail(@), ![x].busy = d]
            /\ UNCHANGED reply
    /\ UNCHANGED <<callers, kernel, pc, actorOf, resp, binding, acted>>

\* adapter.Execute returns within the intent's timeout.  An adapter that
\* reached the device says so: "passed" and a plain "timed_out" tell the truth, the
\* other answers leave it open.
Execute(x, acts, r) ==
    /\ actor[x].busy # None /\ actor[x].returned = None
    /\ r = "passed" => acts
    /\ r = "timed_out" => ~ acts
    /\ acted' = IF acts THEN [acted EXCEPT ![x][att(actor[x].busy)] = @ + 1] ELSE acted
    /\ actor' = [actor EXCEPT ![x].returned = r]
    /\ UNCHANGED <<callers, kernel, pc, actorOf, resp, reply, binding>>

\* execute always names the attempt, so every answer is remembered.
Stored(r) == r

\* What the submitting run makes of the response once Cleanup may have failed: with
\* an error beside it, a response that reached the device is indeterminate.  The
\* stored response carries no error.
AfterCleanup(r) ==
    IF r \in {"timed_out", "indeterminate"} THEN {r} ELSE {r, "indeterminate"}

Finish(x, seen) ==
    LET d == actor[x].busy IN
    /\ d # None /\ actor[x].returned # None
    /\ seen \in AfterCleanup(actor[x].returned)
    /\ MayReply(d)
    /\ actor' = [actor EXCEPT ![x].results[att(d)] = Stored(actor[x].returned),
                              ![x].busy = None, ![x].returned = None]
    /\ reply' = [reply EXCEPT ![d] = seen]
    /\ UNCHANGED <<callers, kernel, pc, actorOf, resp, binding, acted>>

LoopExit(x) ==
    /\ actor[x].state = "closed" /\ actor[x].busy = None
    /\ actor' = [actor EXCEPT ![x].state = "stopped"]
    /\ UNCHANGED <<callers, kernel, pc, actorOf, resp, reply, binding, acted>>

-----------------------------------------------------------------------------
(* The environment.                                                        *)

CancelCaller(d) ==
    /\ ~ ctxDone[d] /\ pc[d] # "done"
    /\ ctxDone' = [ctxDone EXCEPT ![d] = TRUE]
    /\ UNCHANGED <<request, kernel, pc, actorOf, resp, reply, binding, actor, acted>>

LoseLease ==
    /\ leased /\ leased' = FALSE
    /\ UNCHANGED <<callers, control, pc, actorOf, resp, reply, binding, actor, acted>>

EmergencyStop ==
    /\ \E a \in Attempts : control[a] \in InFlight
    /\ control' = [a \in Attempts |-> IF control[a] \in InFlight THEN "cancelled" ELSE control[a]]
    /\ UNCHANGED <<callers, leased, pc, actorOf, resp, reply, binding, actor, acted>>

-----------------------------------------------------------------------------
EdgeInit ==
    /\ request \in [Deliveries -> [attempt : Attempts, serial : Serials]]
    /\ control = [a \in Attempts |-> "absent"]
    /\ leased = TRUE
    /\ pc = [d \in Deliveries |-> "authorize"]
    /\ ctxDone = [d \in Deliveries |-> FALSE]
    /\ actorOf = [d \in Deliveries |-> None]
    /\ resp = [d \in Deliveries |-> None]
    /\ reply = [d \in Deliveries |-> None]
    /\ current = None /\ closing = None
    /\ actor = [d \in Deliveries |-> NoActor]
    /\ acted = [d \in Deliveries |-> [a \in Attempts |-> 0]]

DeliveryStep(d) == \/ AuthorizeStep(d) \/ DeviceFor(d) \/ Replaced(d) \/ DispatchStep(d)
                   \/ Submit(d) \/ Enqueue(d) \/ Await(d) \/ Record(d)

LoopStep(x) == \/ LoopTake(x) \/ LoopExit(x)
               \/ \E r \in Responses : Finish(x, r) \/ \E acts \in BOOLEAN : Execute(x, acts, r)

EdgeNext ==
    \/ \E d \in Deliveries : DeliveryStep(d) \/ LoopStep(d) \/ CancelCaller(d)
    \/ LoseLease \/ EmergencyStop

\* Goroutines are scheduled and device calls are bounded by the intent's timeout;
\* nothing is assumed of callers, operators and leases.
EdgeFairness == \A d \in Deliveries : WF_edgeVars(DeliveryStep(d)) /\ WF_edgeVars(LoopStep(d))

EdgeSpec == EdgeInit /\ [][EdgeNext]_edgeVars /\ EdgeFairness

-----------------------------------------------------------------------------
(* Properties.                                                             *)

\* Every variable has its type.
EdgeTypeOK ==
    /\ control \in [Attempts -> InFlight \cup Ended \cup {"absent", "indeterminate"}]
    /\ pc \in [Deliveries -> Steps]
    /\ resp \in [Deliveries -> Responses \cup {"empty", None}]
    /\ reply \in [Deliveries -> Responses \cup {None}]
    /\ \A d \in Deliveries :
        /\ actor[d].state \in {"none", "open", "closed", "stopped"}
        /\ actor[d].queue \in Seq(Deliveries) /\ Len(actor[d].queue) <= QueueSize

\* One actor acts on the device at most once for an attempt, however many
\* deliveries of it are queued, running or abandoned by their callers.
ActorActsOnce == \A x \in Deliveries, a \in Attempts : acted[x][a] <= 1

\* A verified attempt was carried out: no replayed, late or foreign response makes
\* the kernel record a success for a device that was not acted on.
VerifiedWasActed ==
    \A a \in Attempts : control[a] = "verified" => \E x \in Deliveries : acted[x][a] > 0

\* At most one actor of the device serves at a time: the old one has stopped before
\* the new one starts, so two inputs never run on the device together.
OneActorServes ==
    \A x, y \in Deliveries :
        x # y /\ actor[x].state \in {"open", "closed"} => actor[y].state \in {"none", "stopped"}

\* Every delivery ends: no caller is left waiting for a closed actor, a full queue,
\* a result nobody sends, or an actor that is being replaced.
DeliveriesEnd == \A d \in Deliveries : <>(pc[d] = "done")

\* What the dispatch decision record says of every dispatched attempt: an outcome is
\* recorded.  The run records with the context of its caller.
DispatchedIsDecided ==
    \A a \in Attempts : control[a] = "dispatched" ~> control[a] # "dispatched"

\* The edge sees the attempts of the kernel move as AttemptLife says, whatever
\* duplicate deliveries, late answers and emergency stops it records.
Life == INSTANCE AttemptLife WITH life <- control

EdgeImplementsAttemptLife == Life!LifeSpec
=============================================================================
