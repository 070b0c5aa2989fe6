----------------------------- MODULE LiveMirror -----------------------------
(***************************************************************************)
(* The live mirror engine of internal/media/mirror.go: the sessions of the *)
(* engine, one worker goroutine per session, the viewers that join and     *)
(* leave, the idle timer and Stop.                                         *)
(*                                                                         *)
(* A step is what happens under one lock or between two blocking calls, so *)
(* a viewer attaches while the worker dials, a timer fires while a viewer  *)
(* attaches, and a session is forgotten before its worker is through.      *)
(* What a dial puts on a device and what a failing release leaves there is *)
(* kept apart from what the engine counts.  Pictures are left out: they    *)
(* change nothing that is modelled here.                                   *)
(***************************************************************************)
EXTENDS Naturals, FiniteSets

CONSTANTS
    Devices,
    Sessions,           \* bound: mirrorSession objects the engine may create
    Viewers,            \* bound: calls of StartViewer
    None,
    Max,                \* MirrorEngineConfig.MaxSessions
    Carriable,          \* streams the transport budget carries at the profile
    Reserve             \* sessions kept for the operator's own frame

ASSUME LiveMirrorAssumption ==
    /\ Max \in Nat \ {0} /\ {Carriable, Reserve} \subseteq Nat
    /\ None \notin Sessions \cup {"operator", "ambient", "open", "ending", "ended"}

VARIABLES
    registry,           \* MirrorEngine.sessions, by device
    session,            \* mirrorSession objects and the state of their workers
    viewer,             \* mirrorViewer objects and the calls that own them
    stop,               \* MirrorEngine.stopped and the call of Stop
    servers             \* device-side servers of this plane that may still run

mirrorVars == <<registry, session, viewer, stop, servers>>

Purposes == {"operator", "ambient"}

EndClasses == {"viewer_detached", "engine_stopped", "device_stream_ended",
               "transport_unavailable", "no_streamable_screen"}

\* Where a worker is: run and carryStream, between two blocking calls.
WorkerAt == {"choosing", "dialing", "launched", "opened", "published", "reading",
             "replacing", "failing", "closing", "finished"}

NoWorker == [at |-> "absent", device |-> None, opening |-> None,
             dialed |-> None,       \* purpose of the dial in progress or carried
             open |-> FALSE,        \* the worker holds a stream it has to release
             unreleased |-> FALSE,  \* a release did not complete: not counted closed
             stream |-> FALSE,      \* mirrorSession.stream is set
             cancelled |-> FALSE,   \* dialCancel was called for this dial
             life |-> None,         \* open; ending, inside end; ended, past it
             class |-> None, armed |-> FALSE, fired |-> FALSE]

\* Where a viewer is: StartViewer has found its session, attach has recorded it,
\* its requestProfile is done, Close has begun, or end has dropped it.
ViewerAt == {"idle", "joining", "attaching", "watching", "leaving", "dropped", "gone"}

NoViewer == [at |-> "idle", session |-> None, purpose |-> None]

\* A server a session launched: its handshake is under way, its stream is carried,
\* its release did not complete, or it outlived a dial that failed.
ServerKinds == {"starting", "carried", "unreleased", "aborted"}

-----------------------------------------------------------------------------
Live(s) == session[s].life # None /\ session[s].life # "ended"

\* mirrorSession.viewers.
Attached(s) ==
    {v \in Viewers : /\ viewer[v].session = s
                     /\ viewer[v].at \in {"attaching", "watching", "leaving"}}

\* mirrorSession.operatorViewers > 0; Close counts down before it detaches, and a
\* viewer end has dropped counts until end closes it.
OperatorWatches(s) ==
    \E v \in Viewers : /\ viewer[v].session = s /\ viewer[v].purpose = "operator"
                       /\ viewer[v].at \in {"attaching", "watching", "dropped"}

Registered == {s \in Sessions : \E d \in Devices : registry[d] = s}

\* AmbientCapacity: what is left of n places without the operator's reserve.
WithoutReserve(n) == IF n > Reserve THEN n - Reserve ELSE 0

\* TileAllowance: the grid's share of the sessions, or of the transport.
TileAllowance == WithoutReserve(IF Carriable < Max THEN Carriable ELSE Max)

\* capacityRefusal, negated.
MayOpen(purpose) ==
    /\ Cardinality(Registered) < Max
    /\ purpose = "ambient" =>
        Cardinality({s \in Registered : ~ OperatorWatches(s)}) < TileAllowance

\* Mutant of RequiredPurpose: only the purpose the session was opened for counts.
RequiredPurposeAtOpening(s) == session[s].opening

\* requiredPurpose.
RequiredPurpose(s) ==
    IF OperatorWatches(s) \/ session[s].opening = "operator"
        THEN "operator" ELSE "ambient"

\* profileRank(p) > profileRank(q).
Stronger(p, q) == p = "operator" /\ q = "ambient"

-----------------------------------------------------------------------------
(* Viewers.                                                                *)

\* StartViewer, under the engine's lock: join the device's session, or open one
\* and start its worker.
StartViewer(v, d, purpose) ==
    /\ viewer[v].at = "idle"
    /\ stop.at = "no"
    /\ \/ /\ registry[d] # None
          /\ viewer' = [viewer EXCEPT ![v] =
                [at |-> "joining", session |-> registry[d], purpose |-> purpose]]
          /\ UNCHANGED <<registry, session>>
       \/ /\ registry[d] = None /\ MayOpen(purpose)
          /\ \E s \in {x \in Sessions : session[x].at = "absent"} :
                /\ registry' = [registry EXCEPT ![d] = s]
                /\ session' = [session EXCEPT ![s] =
                        [NoWorker EXCEPT !.at = "choosing", !.device = d,
                                         !.opening = purpose, !.life = "open"]]
                /\ viewer' = [viewer EXCEPT ![v] =
                        [at |-> "joining", session |-> s, purpose |-> purpose]]
    /\ UNCHANGED <<stop, servers>>

\* Mutant of Attach: a waiting idle timer is not stopped.
AttachKeepsTimer(v) ==
    LET s == viewer[v].session IN
    /\ viewer[v].at = "joining"
    /\ viewer' = [viewer EXCEPT ![v].at =
            IF session[s].life = "open" THEN "attaching" ELSE "gone"]
    /\ UNCHANGED <<registry, session, stop, servers>>

\* attach, under the session's lock: an ended session refuses, a waiting idle timer
\* is stopped.  A timer that has fired is not.
Attach(v) ==
    LET s == viewer[v].session IN
    /\ viewer[v].at = "joining"
    /\ IF session[s].life = "open"
       THEN /\ viewer' = [viewer EXCEPT ![v].at = "attaching"]
            /\ session' = [session EXCEPT ![s].armed = FALSE]
       ELSE /\ viewer' = [viewer EXCEPT ![v].at = "gone"]
            /\ UNCHANGED session
    /\ UNCHANGED <<registry, stop, servers>>

\* Mutant of Reencodes: a dial that is still being made is cancelled as well.
ReencodesEagerly(s, purpose) == Stronger(purpose, session[s].dialed)

\* What makes requestProfile cancel the session's read.
Reencodes(s, purpose) ==
    Stronger(purpose, session[s].dialed) /\ session[s].stream

\* requestProfile, after attach has unlocked.
RequestProfile(v) ==
    LET s == viewer[v].session IN
    /\ viewer[v].at = "attaching"
    /\ viewer' = [viewer EXCEPT ![v].at = "watching"]
    /\ session' = [session EXCEPT ![s].cancelled =
            @ \/ Reencodes(s, viewer[v].purpose)]
    /\ UNCHANGED <<registry, stop, servers>>

\* mirrorViewer.Close, up to detach: the operator's place is given back.
CloseViewer(v) ==
    /\ viewer[v].at = "watching"
    /\ viewer' = [viewer EXCEPT ![v].at = "leaving"]
    /\ UNCHANGED <<registry, session, stop, servers>>

\* Mutant of Detach: only an operator's departure starts the timer.
DetachOperatorOnly(v) ==
    LET s == viewer[v].session IN
    /\ viewer[v].at = "leaving"
    /\ viewer' = [viewer EXCEPT ![v].at = "gone"]
    /\ session' = [session EXCEPT ![s].armed =
            @ \/ (Attached(s) = {v} /\ viewer[v].purpose = "operator"
                    /\ session[s].life = "open")]
    /\ UNCHANGED <<registry, stop, servers>>

\* detach: the last viewer of an open session starts the idle timer.
Detach(v) ==
    LET s == viewer[v].session IN
    /\ viewer[v].at = "leaving"
    /\ viewer' = [viewer EXCEPT ![v].at = "gone"]
    /\ session' = [session EXCEPT ![s].armed =
            @ \/ (Attached(s) = {v} /\ session[s].life = "open")]
    /\ UNCHANGED <<registry, stop, servers>>

-----------------------------------------------------------------------------
(* end.                                                                    *)

\* The locked part of end, once: the class is recorded and the viewers are dropped.
BeginEnd(s, class) ==
    /\ session[s].life = "open"
    /\ session' = [session EXCEPT ![s].life = "ending", ![s].class = class,
                                  ![s].armed = FALSE]
    /\ viewer' = [v \in Viewers |->
            IF v \in Attached(s)
                THEN [viewer[v] EXCEPT !.at =
                        IF viewer[v].at = "leaving" THEN "gone" ELSE "dropped"]
                ELSE viewer[v]]
    /\ UNCHANGED <<registry, stop, servers>>

\* Mutant of FinishEnd: the engine is not told.
FinishEndUnnoticed(s) ==
    /\ session[s].life = "ending"
    /\ session' = [session EXCEPT ![s].life = "ended"]
    /\ viewer' = [v \in Viewers |->
            IF viewer[v].session = s /\ viewer[v].at = "dropped"
                THEN [viewer[v] EXCEPT !.at = "gone"] ELSE viewer[v]]
    /\ UNCHANGED <<registry, stop, servers>>

\* The rest of end: every dropped viewer is closed, the context of the session is
\* cancelled and the engine forgets the session.
FinishEnd(s) ==
    /\ session[s].life = "ending"
    /\ session' = [session EXCEPT ![s].life = "ended"]
    /\ viewer' = [v \in Viewers |->
            IF viewer[v].session = s /\ viewer[v].at = "dropped"
                THEN [viewer[v] EXCEPT !.at = "gone"] ELSE viewer[v]]
    /\ registry' = [d \in Devices |-> IF registry[d] = s THEN None ELSE registry[d]]
    /\ UNCHANGED <<stop, servers>>

TimerFires(s) ==
    /\ session[s].armed
    /\ session' = [session EXCEPT ![s].armed = FALSE, ![s].fired = TRUE]
    /\ UNCHANGED <<registry, viewer, stop, servers>>

\* The timer's goroutine calls end; it does not look at the viewers again.
IdleEnd(s) == session[s].fired /\ BeginEnd(s, "viewer_detached")

-----------------------------------------------------------------------------
(* The worker.                                                             *)

Worker(s, from) == session[s].at = from

StepWorker(s, changed) ==
    /\ session' = [session EXCEPT ![s] = changed]
    /\ UNCHANGED <<registry, viewer, stop>>

\* A step that does not reach the device.
MoveWorker(s, changed) == StepWorker(s, changed) /\ UNCHANGED servers

\* The servers on the device of s, whichever session launched them.
OnDevice(s) == {x \in servers : session[x[1]].device = session[s].device}

Becomes(s, from, to) == {IF x = <<s, from>> THEN <<s, to>> ELSE x : x \in servers}

\* The sweep a dial begins with: the servers it finds are killed.  It is over when
\* none is seen any more; a process list that cannot be read ends it early.
Swept(s) == {(servers \ OnDevice(s)) \cup left : left \in SUBSET OnDevice(s)}

\* requiredPurpose is read and beginDial records it; while no stream is published
\* nobody acts on the difference.
BeginDial(s) ==
    /\ Worker(s, "choosing")
    /\ MoveWorker(s, [session[s] EXCEPT !.at = "dialing", !.cancelled = FALSE,
                                        !.dialed = RequiredPurpose(s)])

\* Dial, up to the launch: the device is swept, then the server is started.  Every
\* command runs under the session's context, so it is refused once that has ended.
DialLaunches(s) ==
    /\ Worker(s, "dialing") /\ session[s].life # "ended"
    /\ StepWorker(s, [session[s] EXCEPT !.at = "launched"])
    /\ \E left \in Swept(s) : servers' = left \cup {<<s, "starting">>}

\* The handshake is complete; the stream is counted as dialed.
DialOpens(s) ==
    /\ Worker(s, "launched")
    /\ StepWorker(s, [session[s] EXCEPT !.at = "opened", !.open = TRUE])
    /\ servers' = Becomes(s, "starting", "carried")

\* The dial fails before its launch: the sweep refuses or a command fails.  Nothing
\* of this session is on the device.
DialRefused(s) ==
    /\ Worker(s, "dialing")
    /\ StepWorker(s, [session[s] EXCEPT !.at = "failing"])
    /\ servers' \in IF session[s].life = "ended" THEN {servers} ELSE Swept(s)

\* The handshake fails and abort reaps the server it launched, which may not take.
\* No stream was counted.
DialFails(s) ==
    /\ Worker(s, "launched")
    /\ StepWorker(s, [session[s] EXCEPT !.at = "failing"])
    /\ \/ servers' = servers \ {<<s, "starting">>}
       \/ servers' = Becomes(s, "starting", "aborted")

\* FrameSize and publishStream.
PublishStream(s) ==
    /\ Worker(s, "opened")
    /\ MoveWorker(s, [session[s] EXCEPT !.at = "published", !.stream = TRUE])

NoScreen(s) ==
    /\ Worker(s, "opened")
    /\ MoveWorker(s, [session[s] EXCEPT !.at = "failing"])

\* Mutant of CheckStronger: the worker reads on, relying on requestProfile alone.
CheckNothing(s) ==
    /\ Worker(s, "published")
    /\ MoveWorker(s, [session[s] EXCEPT !.at = "reading"])

\* strongerStreamRequired: a stronger viewer that attached during the dial makes
\* the worker open the device again.
CheckStronger(s) ==
    /\ Worker(s, "published")
    /\ MoveWorker(s, [session[s] EXCEPT !.at =
            IF Stronger(RequiredPurpose(s), session[s].dialed)
                THEN "replacing" ELSE "reading"])

\* Mutant of ReadCancelled: a session that ends does not cancel its context.
ReadCancelledByProfile(s) ==
    /\ Worker(s, "reading")
    /\ session[s].cancelled
    /\ MoveWorker(s, [session[s] EXCEPT !.at =
            IF session[s].life = "ended" THEN "failing" ELSE "replacing"])

\* A read that this session ended: it is over, or it re-encodes.
ReadCancelled(s) ==
    /\ Worker(s, "reading")
    /\ session[s].cancelled \/ session[s].life = "ended"
    /\ MoveWorker(s, [session[s] EXCEPT !.at =
            IF session[s].life = "ended" THEN "failing" ELSE "replacing"])

\* The device's own stream ended.
ReadEnds(s) ==
    /\ Worker(s, "reading") /\ ~ session[s].cancelled
    /\ MoveWorker(s, [session[s] EXCEPT !.at = "failing"])

\* The worker calls end, or waits for the end that somebody else has begun.
FailureClass(s) ==
    IF ~ session[s].open THEN "transport_unavailable"
    ELSE IF ~ session[s].stream THEN "no_streamable_screen"
    ELSE "device_stream_ended"

WorkerEnd(s) == Worker(s, "failing") /\ BeginEnd(s, FailureClass(s))

WorkerEnded(s) ==
    /\ Worker(s, "failing") /\ session[s].life = "ended"
    /\ MoveWorker(s, [session[s] EXCEPT !.at =
            IF session[s].open THEN "closing" ELSE "finished"])

\* releaseStream: the stream is no longer the session's, then it is closed.
Unpublish(s) ==
    /\ session[s].at \in {"replacing", "closing"} /\ session[s].stream
    /\ MoveWorker(s, [session[s] EXCEPT !.stream = FALSE])

AfterClose(s) == IF session[s].at = "replacing" THEN "choosing" ELSE "finished"

\* Close killed the server and saw that it is gone; the stream is counted as closed.
CloseStream(s) ==
    /\ session[s].at \in {"replacing", "closing"} /\ ~ session[s].stream
    /\ StepWorker(s, [session[s] EXCEPT !.open = FALSE, !.at = AfterClose(s)])
    /\ servers' = servers \ {<<s, "carried">>}

\* What a release that did not complete leaves: the server, or the tunnel alone.
LeftByClose(s) ==
    {servers \ {<<s, "carried">>}, Becomes(s, "carried", "unreleased")}

\* Mutant of CloseFails: the stream is counted as closed whatever Close returned.
CloseFailsCounted(s) ==
    /\ session[s].at \in {"replacing", "closing"} /\ ~ session[s].stream
    /\ StepWorker(s, [session[s] EXCEPT !.open = FALSE, !.at = AfterClose(s)])
    /\ servers' \in LeftByClose(s)

\* Close failed or ran into its bound: the worker goes on without the stream, which
\* is not counted as closed.
CloseFails(s) ==
    /\ session[s].at \in {"replacing", "closing"} /\ ~ session[s].stream
    /\ StepWorker(s, [session[s] EXCEPT !.open = FALSE, !.unreleased = TRUE,
                                        !.at = AfterClose(s)])
    /\ servers' \in LeftByClose(s)

-----------------------------------------------------------------------------
(* Stop.                                                                   *)

StopBegin ==
    /\ stop.at = "no"
    /\ stop' = [stop EXCEPT !.at = "stopping", !.pending = Registered]
    /\ UNCHANGED <<registry, session, viewer, servers>>

\* One session after the other: end it, then wait for its worker or the bound.
StopNext(s) ==
    /\ stop.at = "stopping" /\ stop.on = None /\ s \in stop.pending
    /\ stop' = [stop EXCEPT !.on = s, !.pending = @ \ {s}]
    /\ UNCHANGED <<registry, session, viewer, servers>>

StopEnd(s) == stop.on = s /\ BeginEnd(s, "engine_stopped")

StopWaited(s) ==
    /\ stop.on = s /\ session[s].life = "ended"
    /\ \/ /\ Worker(s, "finished")
          /\ stop' = [stop EXCEPT !.on = None]
       \/ stop' = [stop EXCEPT !.on = None, !.outstanding = TRUE]
    /\ UNCHANGED <<registry, session, viewer, servers>>

WorkersDone == \A s \in Sessions : session[s].at \in {"absent", "finished"}

\* MirrorAudit.Clean: no session is in the map and every stream that was dialed was
\* counted as closed.
Clean ==
    /\ Registered = {}
    /\ \A s \in Sessions : ~ session[s].open /\ ~ session[s].unreleased

\* What is outstanding is reported; otherwise wg.Wait.
StopReturns ==
    /\ stop.at = "stopping" /\ stop.on = None /\ stop.pending = {}
    /\ stop.outstanding \/ WorkersDone
    /\ stop' = [stop EXCEPT !.at = IF stop.outstanding THEN "refused" ELSE "returned"]
    /\ UNCHANGED <<registry, session, viewer, servers>>

-----------------------------------------------------------------------------
MirrorInit ==
    /\ registry = [d \in Devices |-> None]
    /\ session = [s \in Sessions |-> NoWorker]
    /\ viewer = [v \in Viewers |-> NoViewer]
    /\ stop = [at |-> "no", pending |-> {}, on |-> None, outstanding |-> FALSE]
    /\ servers = {}

\* What a worker does on its own; a dial comes back within the adapter's bounds.
WorkerStep(s) ==
    \/ BeginDial(s) \/ DialLaunches(s) \/ DialOpens(s) \/ DialRefused(s) \/ DialFails(s)
    \/ PublishStream(s) \/ NoScreen(s) \/ CheckStronger(s) \/ ReadCancelled(s)
    \/ WorkerEnd(s) \/ WorkerEnded(s) \/ Unpublish(s) \/ CloseStream(s) \/ CloseFails(s)

ViewerStep(v) == Attach(v) \/ RequestProfile(v) \/ Detach(v)

EndStep(s) == FinishEnd(s) \/ TimerFires(s) \/ IdleEnd(s)

MirrorNext ==
    \/ \E v \in Viewers :
        \/ \E d \in Devices, purpose \in Purposes : StartViewer(v, d, purpose)
        \/ ViewerStep(v)
        \/ CloseViewer(v)
    \/ \E s \in Sessions :
        WorkerStep(s) \/ EndStep(s) \/ ReadEnds(s)
            \/ StopNext(s) \/ StopEnd(s) \/ StopWaited(s)
    \/ StopBegin \/ StopReturns

\* Goroutines run, timers fire and device calls are bounded; nothing is assumed of
\* viewers, of the device's stream or of anybody calling Stop.
MirrorFairness ==
    /\ \A s \in Sessions : WF_mirrorVars(WorkerStep(s)) /\ WF_mirrorVars(EndStep(s))
    /\ \A v \in Viewers : WF_mirrorVars(ViewerStep(v))

MirrorSpec == MirrorInit /\ [][MirrorNext]_mirrorVars /\ MirrorFairness

-----------------------------------------------------------------------------
\* The types; the idle timer waits only on an open session that nobody watches.
MirrorTypeOK ==
    /\ registry \in [Devices -> Sessions \cup {None}]
    /\ \A s \in Sessions :
        /\ session[s].at \in WorkerAt \cup {"absent"}
        /\ session[s].device \in Devices \cup {None}
        /\ {session[s].opening, session[s].dialed} \subseteq Purposes \cup {None}
        /\ session[s].class \in EndClasses \cup {None}
        /\ session[s].life \in {None, "open", "ending", "ended"}
        /\ {session[s].open, session[s].unreleased, session[s].stream,
            session[s].cancelled, session[s].armed, session[s].fired} \subseteq BOOLEAN
        /\ session[s].armed => session[s].life = "open" /\ Attached(s) = {}
    /\ \A v \in Viewers : /\ viewer[v].at \in ViewerAt
                          /\ viewer[v].session \in Sessions \cup {None}
                          /\ viewer[v].purpose \in Purposes \cup {None}
    /\ stop.at \in {"no", "stopping", "returned", "refused"}
    /\ stop.pending \subseteq Sessions /\ stop.on \in Sessions \cup {None}
    /\ servers \subseteq Sessions \X ServerKinds

\* The engine holds exactly the sessions that have not ended, one per device and
\* never more than its capacity, whoever ends them and however often.
RegistryIsLive ==
    /\ \A s \in Sessions : Live(s) <=> session[s].at # "absent" /\ registry[session[s].device] = s
    /\ Cardinality(Registered) <= Max

\* An operator who is watching is never left on the grid's stream: a worker that
\* reads without having been told to stop carries a stream dialed for the operator,
\* in every order of attach, dial, publish and detach.
OperatorIsNotLeftOnPreview ==
    \A s \in Sessions, v \in Viewers :
        /\ viewer[v].at = "watching" /\ viewer[v].session = s
        /\ viewer[v].purpose = "operator"
        /\ session[s].at = "reading" /\ ~ session[s].cancelled
        => session[s].dialed = "operator"

\* A viewer that arrives never tears down a device that is still being opened: the
\* session cancels only the read of a stream it has published.
OpeningIsNotTornDown ==
    \A s \in Sessions :
        session[s].at \in {"dialing", "launched", "opened"} => ~ session[s].cancelled

\* When Stop returns nil no worker runs or holds a stream, sessions that were already
\* forgotten included, and a server of a stream that was opened is left on a device
\* only where the audit of what was dialed and closed says so: Stop and the audit
\* together leave no capture unreported.
StopIsAccounted ==
    stop.at = "returned" =>
        /\ WorkersDone /\ \A s \in Sessions : ~ session[s].open
        /\ \A x \in servers : x[2] # "aborted" => ~ Clean

\* A session that ends, for whatever reason and wherever its worker was, is left by
\* its worker, which holds no stream any more: what it launched is gone, or its
\* release, or the reap of its failed dial, was tried and did not take.
EndedIsReleased ==
    \A s \in Sessions : session[s].life = "ending" ~>
        /\ session[s].at = "finished" /\ ~ session[s].open
        /\ servers \cap {<<s, "starting">>, <<s, "carried">>} = {}

\* A session that nobody watches any more ends; until then somebody joined it.
UnwatchedEnds ==
    \A s \in Sessions :
        session[s].life = "open" /\ Attached(s) = {} ~>
            session[s].life = "ended" \/ Attached(s) # {}

\* As long as operators watch a session it comes to carry the device at the
\* operator's profile, whoever of them stays: they are served or all of them leave.
OperatorIsServed ==
    \A s \in Sessions :
        LET watched == \E v \in Viewers : /\ viewer[v].at = "watching"
                                          /\ viewer[v].session = s
                                          /\ viewer[v].purpose = "operator"
        IN  watched ~> \/ ~ watched
                       \/ session[s].at = "reading" /\ session[s].dialed = "operator"

\* What the audit's report says: a clean one means that nothing was left running.
CleanLeavesNothing ==
    stop.at = "returned" /\ Clean => servers = {}

\* Of the sessions of a device that hold a stream at most one has not ended, and
\* everybody who watches the device watches that one.  A session the engine has
\* forgotten may still hold its stream, without viewers, and none comes back to it.
SpareCaptureIsUnwatched ==
    /\ \A s, t \in Sessions :
        /\ s # t /\ session[s].device = session[t].device
        /\ session[s].open /\ session[t].open
        => ~ (Live(s) /\ Live(t))
    /\ \A v \in Viewers :
        viewer[v].at \in {"attaching", "watching", "leaving", "dropped"} =>
            LET s == viewer[v].session IN
            Live(s) /\ registry[session[s].device] = s

\* The sweep of a dial never takes the server of another session that has not ended:
\* the server of a live session goes only by a step of that session.
LiveServerStands ==
    [][\A x \in servers \ servers' :
            Live(x[1]) => session'[x[1]] # session[x[1]]]_mirrorVars

=============================================================================
