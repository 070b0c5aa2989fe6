-------------------------- MODULE LiveMirrorProofs --------------------------
(***************************************************************************)
(* The safety properties of LiveMirror for any devices, sessions, viewers  *)
(* and capacity.  What carries them: the engine's map and the sessions'    *)
(* lives name each other; where a worker stands tells whether it holds a   *)
(* stream, whether one is published and whether a dial can have been       *)
(* cancelled; a waiting idle timer means that nobody watches; and what is  *)
(* on a device is known to the worker that launched it.                    *)
(***************************************************************************)
EXTENDS LiveMirror, FiniteSetTheorems, TLAPS

Lives == {None, "open", "ending", "ended"}

SessionRow == [at : WorkerAt \cup {"absent"}, device : Devices \cup {None},
               opening : Purposes \cup {None}, dialed : Purposes \cup {None},
               open : BOOLEAN, unreleased : BOOLEAN, stream : BOOLEAN, cancelled : BOOLEAN,
               life : Lives, class : EndClasses \cup {None},
               armed : BOOLEAN, fired : BOOLEAN]
ViewerRow  == [at : ViewerAt, session : Sessions \cup {None}, purpose : Purposes \cup {None}]
StopRow    == [at : {"no", "stopping", "returned", "refused"}, pending : SUBSET Sessions,
               on : Sessions \cup {None}, outstanding : BOOLEAN]

\* Every variable alone.
MirrorColumns ==
    /\ registry \in [Devices -> Sessions \cup {None}]
    /\ session \in [Sessions -> SessionRow]
    /\ viewer \in [Viewers -> ViewerRow]
    /\ stop \in StopRow

\* A viewer that has begun has a session and a purpose.
ViewerPlaced ==
    \A v \in Viewers : viewer[v].at # "idle" =>
        viewer[v].session \in Sessions /\ viewer[v].purpose \in Purposes

\* What a worker's place says of its device and of its stream.
CaptureFits(r) ==
    /\ r.stream => r.open /\ r.at \in {"published", "reading", "replacing", "failing", "closing"}
    /\ r.open => r.at \in {"opened", "published", "reading", "replacing", "failing", "closing"}
    /\ r.at \in {"opened", "published", "reading"} => r.open
    /\ r.at \in {"published", "reading"} => r.stream
    /\ r.at \in {"dialing", "launched", "opened", "published", "reading"} => r.dialed \in Purposes
    /\ r.at \in {"dialing", "launched", "opened"} => ~ r.cancelled

Captures == \A s \in Sessions : CaptureFits(session[s])

\* The idle timer waits only on an open session that nobody watches.
TimerWaits ==
    \A s \in Sessions : session[s].armed => session[s].life = "open" /\ Attached(s) = {}

\* The map of the engine and the lives of the sessions name each other.
NamesAgree ==
    /\ \A s \in Sessions :
        /\ session[s].life = None <=> session[s].at = "absent"
        /\ session[s].life # None => session[s].device \in Devices
        /\ session[s].life \in {"open", "ending"} => registry[session[s].device] = s
    /\ \A d \in Devices : registry[d] # None =>
        session[registry[d]].device = d /\ session[registry[d]].life \in {"open", "ending"}

Capacity == IsFiniteSet(Registered) /\ Cardinality(Registered) <= Max

StoppedIsDone == stop.at = "returned" => WorkersDone

\* What a server on a device says of the session that launched it.  The converse is
\* not true: the sweep of a later session takes servers behind a session's back.
ServersFit ==
    /\ servers \subseteq Sessions \X ServerKinds
    /\ \A x \in servers : session[x[1]].at # "absent"
    /\ \A s \in Sessions :
        /\ <<s, "starting">> \in servers => session[s].at = "launched"
        /\ <<s, "carried">> \in servers => session[s].open
        /\ <<s, "unreleased">> \in servers => session[s].unreleased

MirrorInv == /\ MirrorColumns /\ ViewerPlaced /\ Captures /\ TimerWaits /\ NamesAgree
             /\ Capacity /\ OperatorIsNotLeftOnPreview /\ StoppedIsDone

-----------------------------------------------------------------------------
(* The invariant implies the properties.                                   *)

\* The types.
LEMMA MirrorInvTypes == MirrorInv /\ ServersFit => MirrorTypeOK
BY DEF MirrorInv, MirrorColumns, TimerWaits, ServersFit, MirrorTypeOK, SessionRow, ViewerRow,
       StopRow, Lives

\* A session is in the map exactly while it lives.
LEMMA MirrorInvRegistry == MirrorInv => RegistryIsLive
<1> SUFFICES ASSUME MirrorInv, NEW s \in Sessions
             PROVE  Live(s) <=> session[s].at # "absent" /\ registry[session[s].device] = s
  BY DEF MirrorInv, Capacity, RegistryIsLive
<1>1. session[s].life \in Lives
  BY DEF MirrorInv, MirrorColumns, SessionRow
<1>2. ASSUME Live(s) PROVE session[s].at # "absent" /\ registry[session[s].device] = s
  BY <1>1, <1>2 DEF Live, MirrorInv, NamesAgree, Lives
<1>3. ASSUME session[s].at # "absent", registry[session[s].device] = s PROVE Live(s)
  BY <1>1, <1>3, LiveMirrorAssumption DEF Live, MirrorInv, NamesAgree, Lives
<1> QED
  BY <1>2, <1>3

\* A dial that is being made has not been cancelled.
LEMMA MirrorInvOpening == MirrorInv => OpeningIsNotTornDown
BY DEF MirrorInv, Captures, CaptureFits, OpeningIsNotTornDown

\* A worker that is through holds no stream, so what is left on a device was counted
\* as dialed and not as closed, or never counted.
LEMMA MirrorInvStop == MirrorInv /\ ServersFit => StopIsAccounted
<1> SUFFICES ASSUME MirrorInv, ServersFit, stop.at = "returned"
             PROVE  /\ WorkersDone /\ \A s \in Sessions : ~ session[s].open
                    /\ \A x \in servers : x[2] # "aborted" => ~ Clean
  BY DEF StopIsAccounted
<1>1. WorkersDone
  BY DEF MirrorInv, StoppedIsDone
<1>2. \A s \in Sessions : ~ session[s].open /\ session[s].at # "launched"
  BY <1>1 DEF WorkersDone, MirrorInv, Captures, CaptureFits
<1>3. ASSUME NEW x \in servers, x[2] # "aborted" PROVE ~ Clean
  <2>1. PICK s \in Sessions, k \in ServerKinds : x = <<s, k>>
    BY DEF ServersFit
  <2>2. k = "unreleased"
    BY <1>2, <1>3, <2>1 DEF ServersFit, ServerKinds
  <2>3. session[s].unreleased
    BY <2>1, <2>2 DEF ServersFit
  <2> QED
    BY <2>3 DEF Clean
<1> QED
  BY <1>1, <1>2, <1>3

-----------------------------------------------------------------------------
\* A session that was not created, a viewer that did not begin.
LEMMA NoRows ==
    /\ NoWorker \in SessionRow /\ CaptureFits(NoWorker)
    /\ NoWorker.at = "absent" /\ NoWorker.life = None /\ ~ NoWorker.armed
    /\ NoViewer \in ViewerRow /\ NoViewer.at = "idle"
BY DEF NoWorker, NoViewer, SessionRow, ViewerRow, CaptureFits, ViewerAt, Lives

\* The invariant holds in an engine that was just made.
LEMMA MirrorInitInv == MirrorInit => MirrorInv
<1> SUFFICES ASSUME MirrorInit PROVE MirrorInv
  OBVIOUS
<1>1. MirrorColumns
  BY NoRows DEF MirrorInit, MirrorColumns, StopRow
<1>2. ViewerPlaced /\ Captures /\ TimerWaits
  BY NoRows DEF MirrorInit, ViewerPlaced, Captures, TimerWaits
<1>3. NamesAgree
  BY NoRows, LiveMirrorAssumption DEF MirrorInit, NamesAgree
<1>4. Registered = {}
  BY LiveMirrorAssumption DEF MirrorInit, Registered
<1>5. Capacity
  BY <1>4, FS_EmptySet, LiveMirrorAssumption DEF Capacity
<1>6. OperatorIsNotLeftOnPreview /\ StoppedIsDone
  BY NoRows DEF MirrorInit, OperatorIsNotLeftOnPreview, StoppedIsDone
<1> QED
  BY <1>1, <1>2, <1>3, <1>5, <1>6 DEF MirrorInv

-----------------------------------------------------------------------------
(* The worker.                                                             *)

\* A worker that moves, within what its place allows, disturbs nothing else.
LEMMA WorkerMoves ==
    ASSUME MirrorInv, NEW s \in Sessions, NEW row \in SessionRow, StepWorker(s, row),
           row.life = session[s].life, row.device = session[s].device,
           row.armed = session[s].armed, CaptureFits(row),
           session[s].at \notin {"absent", "finished"}, row.at # "absent",
           row.at = "reading" /\ ~ row.cancelled =>
                row.dialed = "operator" \/ \A v \in Viewers :
                    ~ (/\ viewer[v].at = "watching" /\ viewer[v].session = s
                       /\ viewer[v].purpose = "operator")
    PROVE  MirrorInv'
<1>0. session \in [Sessions -> SessionRow]
  BY DEF MirrorInv, MirrorColumns
<1>1. /\ session' = [session EXCEPT ![s] = row]
      /\ UNCHANGED <<registry, viewer, stop>>
  BY DEF StepWorker
<1>2. session'[s] = row /\ \A t \in Sessions \ {s} : session'[t] = session[t]
  BY <1>0, <1>1
<1>3. MirrorColumns'
  BY <1>1 DEF MirrorInv, MirrorColumns
<1>4. ViewerPlaced' /\ Captures'
  BY <1>1, <1>2 DEF MirrorInv, ViewerPlaced, Captures
<1>5. \A t \in Sessions : Attached(t)' = Attached(t)
  BY <1>1 DEF Attached
<1>6. TimerWaits'
  BY <1>2, <1>5 DEF MirrorInv, TimerWaits
<1>7. \A t \in Sessions : /\ session'[t].life = session[t].life
                          /\ session'[t].device = session[t].device
                          /\ session'[t].at = "absent" <=> session[t].at = "absent"
  BY <1>2
<1>8. NamesAgree'
  <2>1. \A d \in Devices : registry[d] # None => registry[d] \in Sessions
    BY DEF MirrorInv, MirrorColumns
  <2> QED
    BY <1>1, <1>7, <2>1 DEF MirrorInv, NamesAgree
<1>9. Capacity'
  BY <1>1 DEF MirrorInv, Capacity, Registered
<1>10. OperatorIsNotLeftOnPreview'
  BY <1>1, <1>2 DEF MirrorInv, OperatorIsNotLeftOnPreview
<1>11. StoppedIsDone'
  BY <1>1, <1>2 DEF MirrorInv, StoppedIsDone, WorkersDone
<1> QED
  BY <1>3, <1>4, <1>6, <1>8, <1>9, <1>10, <1>11 DEF MirrorInv

\* What requiredPurpose answers, and what it answers while an operator watches.
LEMMA RequiredFacts ==
    ASSUME NEW s \in Sessions
    PROVE  /\ RequiredPurpose(s) \in Purposes
           /\ OperatorWatches(s) => RequiredPurpose(s) = "operator"
BY DEF RequiredPurpose, Purposes

\* A worker that goes to another place with the same device and stream.
LEMMA WorkerGoes ==
    ASSUME MirrorInv, NEW s \in Sessions, NEW to \in WorkerAt,
           StepWorker(s, [session[s] EXCEPT !.at = to]),
           session[s].at \notin {"absent", "finished"},
           to \notin {"dialing", "launched", "opened", "published"},
           to = "reading" => session[s].at = "published" /\
                (OperatorWatches(s) => session[s].dialed = "operator"),
           session[s].open => to \in {"reading", "replacing", "failing", "closing"}
    PROVE  MirrorInv'
<1>0. session[s] \in SessionRow /\ CaptureFits(session[s])
  BY DEF MirrorInv, MirrorColumns, Captures
<1> DEFINE row == [session[s] EXCEPT !.at = to]
<1>1. row \in SessionRow
  BY <1>0 DEF SessionRow
<1>2. /\ row.life = session[s].life /\ row.device = session[s].device
      /\ row.armed = session[s].armed /\ row.at = to /\ row.open = session[s].open
      /\ row.dialed = session[s].dialed /\ row.stream = session[s].stream
      /\ row.cancelled = session[s].cancelled
  BY <1>0 DEF SessionRow
<1>3. StepWorker(s, row)
  OBVIOUS
<1> HIDE DEF row
<1>4. CaptureFits(row)
  BY <1>0, <1>2 DEF CaptureFits
<1>5. row.at = "reading" => row.dialed = "operator" \/ \A v \in Viewers :
            ~ (/\ viewer[v].at = "watching" /\ viewer[v].session = s
               /\ viewer[v].purpose = "operator")
  BY <1>2 DEF OperatorWatches
<1>6. row.at # "absent"
  BY <1>2 DEF WorkerAt
<1> QED
  BY <1>1, <1>2, <1>3, <1>4, <1>5, <1>6, WorkerMoves

\* The dial and the stream that follows it: the steps of run and carryStream.
LEMMA WorkerInv ==
    ASSUME MirrorInv, NEW s \in Sessions,
           \/ BeginDial(s) \/ DialLaunches(s) \/ DialOpens(s) \/ DialRefused(s) \/ DialFails(s)
           \/ PublishStream(s) \/ NoScreen(s) \/ CheckStronger(s) \/ ReadCancelled(s)
           \/ ReadEnds(s) \/ WorkerEnded(s) \/ Unpublish(s) \/ CloseStream(s) \/ CloseFails(s)
    PROVE  MirrorInv'
<1>0. session[s] \in SessionRow /\ CaptureFits(session[s])
  BY DEF MirrorInv, MirrorColumns, Captures
<1>1. CASE BeginDial(s)
  <2> DEFINE row == [session[s] EXCEPT !.at = "dialing", !.cancelled = FALSE,
                                       !.dialed = RequiredPurpose(s)]
  <2>1. row \in SessionRow
    BY <1>0, RequiredFacts DEF SessionRow, WorkerAt
  <2>2. /\ row.life = session[s].life /\ row.device = session[s].device
        /\ row.armed = session[s].armed /\ row.at = "dialing" /\ ~ row.cancelled
        /\ row.dialed \in Purposes /\ row.stream = session[s].stream
        /\ row.open = session[s].open
    BY <1>0, RequiredFacts DEF SessionRow
  <2>3. session[s].at = "choosing" /\ StepWorker(s, row)
    BY <1>1 DEF BeginDial, MoveWorker, Worker
  <2> HIDE DEF row
  <2>4. CaptureFits(row)
    BY <1>0, <2>2, <2>3 DEF CaptureFits
  <2> QED
    BY <2>1, <2>2, <2>3, <2>4, WorkerMoves
<1>2. CASE DialOpens(s)
  <2> DEFINE row == [session[s] EXCEPT !.at = "opened", !.open = TRUE]
  <2>1. row \in SessionRow
    BY <1>0 DEF SessionRow, WorkerAt
  <2>2. /\ row.life = session[s].life /\ row.device = session[s].device
        /\ row.armed = session[s].armed /\ row.at = "opened" /\ row.open
        /\ row.dialed = session[s].dialed /\ row.stream = session[s].stream
        /\ row.cancelled = session[s].cancelled
    BY <1>0 DEF SessionRow
  <2>3. session[s].at = "launched" /\ StepWorker(s, row)
    BY <1>2 DEF DialOpens, Worker
  <2> HIDE DEF row
  <2>4. CaptureFits(row)
    BY <1>0, <2>2, <2>3 DEF CaptureFits
  <2> QED
    BY <2>1, <2>2, <2>3, <2>4, WorkerMoves
<1>3. CASE PublishStream(s)
  <2> DEFINE row == [session[s] EXCEPT !.at = "published", !.stream = TRUE]
  <2>1. row \in SessionRow
    BY <1>0 DEF SessionRow, WorkerAt
  <2>2. /\ row.life = session[s].life /\ row.device = session[s].device
        /\ row.armed = session[s].armed /\ row.at = "published" /\ row.stream
        /\ row.dialed = session[s].dialed /\ row.open = session[s].open
    BY <1>0 DEF SessionRow
  <2>3. session[s].at = "opened" /\ StepWorker(s, row)
    BY <1>3 DEF PublishStream, MoveWorker, Worker
  <2> HIDE DEF row
  <2>4. CaptureFits(row)
    BY <1>0, <2>2, <2>3 DEF CaptureFits
  <2> QED
    BY <2>1, <2>2, <2>3, <2>4, WorkerMoves
\* A stronger viewer that attached meanwhile is seen here.
<1>4. CASE CheckStronger(s)
  <2>1. session[s].at = "published" /\ session[s].dialed \in Purposes
    BY <1>0, <1>4 DEF CheckStronger, MoveWorker, Worker, CaptureFits
  <2>2. CASE Stronger(RequiredPurpose(s), session[s].dialed)
    <3>1. StepWorker(s, [session[s] EXCEPT !.at = "replacing"])
      BY <1>4, <2>2 DEF CheckStronger, MoveWorker
    <3> QED
      BY <2>1, <3>1, WorkerGoes DEF WorkerAt
  <2>3. CASE ~ Stronger(RequiredPurpose(s), session[s].dialed)
    <3>1. StepWorker(s, [session[s] EXCEPT !.at = "reading"])
      BY <1>4, <2>3 DEF CheckStronger, MoveWorker
    <3>2. OperatorWatches(s) => session[s].dialed = "operator"
      BY <2>1, <2>3, RequiredFacts DEF Stronger, Purposes
    <3> QED
      BY <2>1, <3>1, <3>2, WorkerGoes DEF WorkerAt
  <2> QED
    BY <2>2, <2>3
<1>5. CASE DialRefused(s) \/ DialFails(s) \/ NoScreen(s) \/ ReadEnds(s)
  <2>1. StepWorker(s, [session[s] EXCEPT !.at = "failing"])
    BY <1>5 DEF DialRefused, DialFails, NoScreen, ReadEnds, MoveWorker
  <2>2. session[s].at \in {"dialing", "launched", "opened", "reading"}
    BY <1>5 DEF DialRefused, DialFails, NoScreen, ReadEnds, Worker
  <2> QED
    BY <2>1, <2>2, WorkerGoes DEF WorkerAt
<1>6. CASE ReadCancelled(s)
  <2>1. PICK to \in {"failing", "replacing"} : StepWorker(s, [session[s] EXCEPT !.at = to])
    BY <1>6 DEF ReadCancelled, MoveWorker
  <2>2. session[s].at = "reading"
    BY <1>6 DEF ReadCancelled, MoveWorker, Worker
  <2> QED
    BY <2>1, <2>2, WorkerGoes DEF WorkerAt
<1>7. CASE WorkerEnded(s)
  <2>1. PICK to \in {"closing", "finished"} :
            /\ StepWorker(s, [session[s] EXCEPT !.at = to])
            /\ session[s].open => to = "closing"
    BY <1>7 DEF WorkerEnded, MoveWorker
  <2>2. session[s].at = "failing"
    BY <1>7 DEF WorkerEnded, MoveWorker, Worker
  <2> QED
    BY <2>1, <2>2, WorkerGoes DEF WorkerAt
<1>8. CASE Unpublish(s)
  <2> DEFINE row == [session[s] EXCEPT !.stream = FALSE]
  <2>1. row \in SessionRow
    BY <1>0 DEF SessionRow
  <2>2. /\ row.life = session[s].life /\ row.device = session[s].device
        /\ row.armed = session[s].armed /\ row.at = session[s].at /\ ~ row.stream
        /\ row.dialed = session[s].dialed /\ row.open = session[s].open
    BY <1>0 DEF SessionRow
  <2>3. session[s].at \in {"replacing", "closing"} /\ StepWorker(s, row)
    BY <1>8 DEF Unpublish, MoveWorker
  <2> HIDE DEF row
  <2>4. CaptureFits(row)
    BY <1>0, <2>2, <2>3 DEF CaptureFits
  <2> QED
    BY <2>1, <2>2, <2>3, <2>4, WorkerMoves
\* Whether the release completed or not, the worker goes on without the stream.
<1>9. CASE CloseStream(s) \/ CloseFails(s)
  <2>1. PICK to \in {"choosing", "finished"}, missed \in BOOLEAN :
            StepWorker(s, [session[s] EXCEPT !.open = FALSE, !.unreleased = missed, !.at = to])
    <3>1. AfterClose(s) \in {"choosing", "finished"}
      BY DEF AfterClose
    <3>2. CASE CloseFails(s)
      BY <3>1, <3>2 DEF CloseFails
    <3>3. CASE CloseStream(s)
      <4>1. [session[s] EXCEPT !.open = FALSE, !.at = AfterClose(s)] =
            [session[s] EXCEPT !.open = FALSE, !.unreleased = session[s].unreleased,
                               !.at = AfterClose(s)]
        BY <1>0 DEF SessionRow
      <4>2. session[s].unreleased \in BOOLEAN
        BY <1>0 DEF SessionRow
      <4> QED
        BY <3>1, <3>3, <4>1, <4>2 DEF CloseStream
    <3> QED
      BY <1>9, <3>2, <3>3
  <2> DEFINE row == [session[s] EXCEPT !.open = FALSE, !.unreleased = missed, !.at = to]
  <2>2. row \in SessionRow
    BY <1>0 DEF SessionRow, WorkerAt
  <2>3. /\ row.life = session[s].life /\ row.device = session[s].device
        /\ row.armed = session[s].armed /\ row.at = to /\ ~ row.open
        /\ row.stream = session[s].stream
    BY <1>0 DEF SessionRow
  <2>4. session[s].at \in {"replacing", "closing"} /\ ~ session[s].stream /\ StepWorker(s, row)
    BY <1>9, <2>1 DEF CloseStream, CloseFails
  <2> HIDE DEF row
  <2>5. CaptureFits(row)
    BY <1>0, <2>3, <2>4 DEF CaptureFits
  <2> QED
    BY <2>2, <2>3, <2>4, <2>5, WorkerMoves
<1>10. CASE DialLaunches(s)
  <2> DEFINE row == [session[s] EXCEPT !.at = "launched"]
  <2>1. row \in SessionRow
    BY <1>0 DEF SessionRow, WorkerAt
  <2>2. /\ row.life = session[s].life /\ row.device = session[s].device
        /\ row.armed = session[s].armed /\ row.at = "launched" /\ row.open = session[s].open
        /\ row.dialed = session[s].dialed /\ row.stream = session[s].stream
        /\ row.cancelled = session[s].cancelled
    BY <1>0 DEF SessionRow
  <2>3. session[s].at = "dialing" /\ StepWorker(s, row)
    BY <1>10 DEF DialLaunches, Worker
  <2> HIDE DEF row
  <2>4. CaptureFits(row)
    BY <1>0, <2>2, <2>3 DEF CaptureFits
  <2> QED
    BY <2>1, <2>2, <2>3, <2>4, WorkerMoves
<1> QED
  BY <1>1, <1>2, <1>3, <1>4, <1>5, <1>6, <1>7, <1>8, <1>9, <1>10

-----------------------------------------------------------------------------
(* Steps of the others: they change a session's life, timer or dial, never *)
(* where its worker stands.                                                *)

\* The same worker: what its place says stays true if a cancelled dial has a
\* published stream.
LEMMA SameWorker ==
    ASSUME NEW r \in SessionRow, NEW q \in SessionRow, CaptureFits(r),
           q.at = r.at, q.open = r.open, q.stream = r.stream, q.dialed = r.dialed,
           q.cancelled => r.cancelled \/ r.stream
    PROVE  CaptureFits(q)
BY DEF CaptureFits

\* The conjuncts a step keeps that leaves the workers where they are and the
\* viewers where a watching one is not new.
LEMMA WorkersStand ==
    ASSUME MirrorInv, NEW s \in Sessions, NEW row \in SessionRow,
           session' = [session EXCEPT ![s] = row],
           row.at = session[s].at, row.open = session[s].open, row.stream = session[s].stream,
           row.dialed = session[s].dialed, row.device = session[s].device,
           session[s].cancelled => row.cancelled,
           row.cancelled => session[s].cancelled \/ session[s].stream,
           UNCHANGED stop,
           \A v \in Viewers : viewer'[v].at = "watching" =>
                /\ viewer'[v].session = viewer[v].session
                /\ viewer'[v].purpose = viewer[v].purpose
                /\ \/ viewer[v].at = "watching"
                   \/ /\ viewer[v].session = s
                      /\ Reencodes(s, viewer[v].purpose) => row.cancelled
    PROVE  /\ session' \in [Sessions -> SessionRow] /\ Captures'
           /\ OperatorIsNotLeftOnPreview' /\ StoppedIsDone'
           /\ session'[s] = row /\ \A t \in Sessions \ {s} : session'[t] = session[t]
<1>0. session \in [Sessions -> SessionRow] /\ session[s] \in SessionRow
  BY DEF MirrorInv, MirrorColumns
<1>1. session'[s] = row /\ \A t \in Sessions \ {s} : session'[t] = session[t]
  BY <1>0
<1>2. CaptureFits(session[s])
  BY DEF MirrorInv, Captures
<1>3. CaptureFits(row)
  BY <1>0, <1>2, SameWorker
<1>4. Captures'
  BY <1>1, <1>3 DEF MirrorInv, Captures
<1>5. ASSUME NEW t \in Sessions, NEW v \in Viewers, viewer'[v].at = "watching",
             viewer'[v].session = t, viewer'[v].purpose = "operator",
             session'[t].at = "reading", ~ session'[t].cancelled
      PROVE  session'[t].dialed = "operator"
  <2>1. CASE viewer[v].at = "watching"
    <3>1. session[t].at = "reading" /\ ~ session[t].cancelled
          /\ session'[t].dialed = session[t].dialed
      BY <1>1, <1>5
    <3> QED
      BY <1>5, <2>1, <3>1 DEF MirrorInv, OperatorIsNotLeftOnPreview
  <2>2. CASE viewer[v].at # "watching"
    <3>1. t = s /\ viewer[v].purpose = "operator" /\ ~ Reencodes(s, "operator")
      BY <1>1, <1>5, <2>2
    <3>2. session[s].stream /\ session[s].dialed \in Purposes
      BY <1>1, <1>2, <1>5, <3>1 DEF CaptureFits
    <3> QED
      BY <1>1, <3>1, <3>2 DEF Reencodes, Stronger, Purposes
  <2> QED
    BY <2>1, <2>2
<1>6. OperatorIsNotLeftOnPreview'
  BY <1>5 DEF OperatorIsNotLeftOnPreview
<1>7. StoppedIsDone'
  BY <1>1 DEF MirrorInv, StoppedIsDone, WorkersDone
<1> QED
  BY <1>0, <1>1, <1>4, <1>6, <1>7

\* The map and the lives agree while nobody is born or dies.
LEMMA NamesStand ==
    ASSUME MirrorInv, UNCHANGED registry,
           \A t \in Sessions :
                /\ session'[t].at = session[t].at /\ session'[t].device = session[t].device
                /\ session'[t].life = session[t].life
                   \/ (session[t].life = "open" /\ session'[t].life = "ending")
    PROVE  NamesAgree' /\ Capacity'
<1>1. \A d \in Devices : registry[d] # None => registry[d] \in Sessions
  BY DEF MirrorInv, MirrorColumns
<1>2. NamesAgree'
  BY <1>1, LiveMirrorAssumption DEF MirrorInv, NamesAgree
<1>3. Capacity'
  BY DEF MirrorInv, Capacity, Registered
<1> QED
  BY <1>2, <1>3

\* end, its locked part: nobody is attached afterwards and the timer is off.
LEMMA BeginEndInv ==
    ASSUME MirrorInv, NEW s \in Sessions, NEW class \in EndClasses, BeginEnd(s, class)
    PROVE  MirrorInv'
<1>0. session[s] \in SessionRow /\ viewer \in [Viewers -> ViewerRow]
  BY DEF MirrorInv, MirrorColumns
<1> DEFINE row == [session[s] EXCEPT !.life = "ending", !.class = class, !.armed = FALSE]
<1>1. /\ session[s].life = "open" /\ session' = [session EXCEPT ![s] = row]
      /\ UNCHANGED <<registry, stop>>
  BY DEF BeginEnd
<1>2. /\ row \in SessionRow /\ row.at = session[s].at /\ row.open = session[s].open
      /\ row.stream = session[s].stream /\ row.dialed = session[s].dialed
      /\ row.device = session[s].device /\ row.cancelled = session[s].cancelled
      /\ row.life = "ending" /\ ~ row.armed
  BY <1>0 DEF SessionRow, Lives
<1> HIDE DEF row
<1>3. /\ viewer' \in [Viewers -> ViewerRow]
      /\ \A v \in Viewers :
            /\ viewer'[v].session = viewer[v].session
            /\ viewer'[v].purpose = viewer[v].purpose
            /\ viewer'[v].at = viewer[v].at
               \/ (v \in Attached(s) /\ viewer'[v].at \in {"gone", "dropped"})
  BY <1>0 DEF BeginEnd, ViewerRow, ViewerAt
<1>4. /\ session' \in [Sessions -> SessionRow] /\ Captures'
      /\ OperatorIsNotLeftOnPreview' /\ StoppedIsDone'
      /\ session'[s] = row /\ \A t \in Sessions \ {s} : session'[t] = session[t]
  BY <1>1, <1>2, <1>3, WorkersStand
<1>5. MirrorColumns'
  BY <1>1, <1>3, <1>4 DEF MirrorInv, MirrorColumns
<1>6. ViewerPlaced'
  BY <1>3 DEF MirrorInv, ViewerPlaced, Attached
<1>7. \A t \in Sessions \ {s} : Attached(t)' = Attached(t)
  BY <1>3 DEF Attached
<1>8. TimerWaits'
  BY <1>2, <1>4, <1>7 DEF MirrorInv, TimerWaits
<1>9. NamesAgree' /\ Capacity'
  BY <1>1, <1>2, <1>4, NamesStand
<1> QED
  BY <1>4, <1>5, <1>6, <1>8, <1>9 DEF MirrorInv

\* The rest of end: the map forgets the session, and no other.
LEMMA FinishEndInv ==
    ASSUME MirrorInv, NEW s \in Sessions, FinishEnd(s)
    PROVE  MirrorInv'
<1>0. /\ session[s] \in SessionRow /\ viewer \in [Viewers -> ViewerRow]
      /\ registry \in [Devices -> Sessions \cup {None}]
  BY DEF MirrorInv, MirrorColumns
<1> DEFINE row == [session[s] EXCEPT !.life = "ended"]
<1>1. /\ session[s].life = "ending" /\ session' = [session EXCEPT ![s] = row]
      /\ UNCHANGED stop
  BY DEF FinishEnd
<1>1a. registry' = [d \in Devices |-> IF registry[d] = s THEN None ELSE registry[d]]
  BY DEF FinishEnd
<1>2. /\ row \in SessionRow /\ row.at = session[s].at /\ row.open = session[s].open
      /\ row.stream = session[s].stream /\ row.dialed = session[s].dialed
      /\ row.device = session[s].device /\ row.cancelled = session[s].cancelled
      /\ row.life = "ended" /\ row.armed = session[s].armed
  BY <1>0 DEF SessionRow, Lives
<1> HIDE DEF row
<1>3. /\ viewer' \in [Viewers -> ViewerRow]
      /\ \A v \in Viewers :
            /\ viewer'[v].session = viewer[v].session
            /\ viewer'[v].purpose = viewer[v].purpose
            /\ viewer'[v].at = viewer[v].at
               \/ (viewer[v].at = "dropped" /\ viewer'[v].at = "gone")
  BY <1>0 DEF FinishEnd, ViewerRow, ViewerAt
<1>4. /\ session' \in [Sessions -> SessionRow] /\ Captures'
      /\ OperatorIsNotLeftOnPreview' /\ StoppedIsDone'
      /\ session'[s] = row /\ \A t \in Sessions \ {s} : session'[t] = session[t]
  <2>1. \A v \in Viewers : viewer'[v].at = "watching" =>
            /\ viewer[v].at = "watching"
            /\ viewer'[v].session = viewer[v].session
            /\ viewer'[v].purpose = viewer[v].purpose
    BY <1>3
  <2> QED
    BY <1>1, <1>2, <2>1, WorkersStand
<1>5. MirrorColumns'
  BY <1>0, <1>1, <1>1a, <1>3, <1>4 DEF MirrorInv, MirrorColumns
<1>6. ViewerPlaced'
  BY <1>3 DEF MirrorInv, ViewerPlaced
<1>7. \A t \in Sessions : Attached(t)' = Attached(t)
  BY <1>3 DEF Attached
<1>8. TimerWaits'
  <2>1. ~ session[s].armed
    BY <1>1 DEF MirrorInv, TimerWaits
  <2>2. ~ session'[s].armed
    BY <1>2, <1>4, <2>1
  <2> QED
    BY <1>4, <1>7, <2>2 DEF MirrorInv, TimerWaits
<1>9. NamesAgree'
  <2>1. ASSUME NEW t \in Sessions
        PROVE  /\ session'[t].life = None <=> session'[t].at = "absent"
               /\ session'[t].life # None => session'[t].device \in Devices
               /\ session'[t].life \in {"open", "ending"} => registry'[session'[t].device] = t
    <3>1. CASE t = s
      BY <1>1, <1>2, <1>4, <3>1, LiveMirrorAssumption DEF MirrorInv, NamesAgree
    <3>2. CASE t # s
      <4>1. session'[t] = session[t]
        BY <1>4, <3>2
      <4> QED
        BY <1>1a, <3>2, <4>1, LiveMirrorAssumption DEF MirrorInv, NamesAgree
    <3> QED
      BY <3>1, <3>2
  <2>2. ASSUME NEW d \in Devices, registry'[d] # None
        PROVE  /\ session'[registry'[d]].device = d
               /\ session'[registry'[d]].life \in {"open", "ending"}
    <3>1. registry[d] # None /\ registry[d] # s /\ registry'[d] = registry[d]
      BY <1>1a, <2>2
    <3>2. registry[d] \in Sessions /\ session'[registry[d]] = session[registry[d]]
      BY <1>0, <1>4, <3>1
    <3> QED
      BY <3>1, <3>2 DEF MirrorInv, NamesAgree
  <2> QED
    BY <2>1, <2>2 DEF NamesAgree
<1>10. Capacity'
  <2>1. Registered' \subseteq Registered
    BY <1>1a, LiveMirrorAssumption DEF Registered
  <2>2. IsFiniteSet(Registered') /\ Cardinality(Registered') <= Cardinality(Registered)
    BY <2>1, FS_Subset DEF MirrorInv, Capacity
  <2>3. Cardinality(Registered) \in Nat /\ Cardinality(Registered') \in Nat
    BY <2>2, FS_CardinalityType DEF MirrorInv, Capacity
  <2> QED
    BY <2>2, <2>3, LiveMirrorAssumption DEF MirrorInv, Capacity
<1> QED
  BY <1>4, <1>5, <1>6, <1>8, <1>9, <1>10 DEF MirrorInv

\* The timer that fires is no longer waiting.
LEMMA TimerFiresInv ==
    ASSUME MirrorInv, NEW s \in Sessions, TimerFires(s)
    PROVE  MirrorInv'
<1>0. session[s] \in SessionRow
  BY DEF MirrorInv, MirrorColumns
<1> DEFINE row == [session[s] EXCEPT !.armed = FALSE, !.fired = TRUE]
<1>1. session' = [session EXCEPT ![s] = row] /\ UNCHANGED <<registry, viewer, stop>>
  BY DEF TimerFires
<1>2. /\ row \in SessionRow /\ row.at = session[s].at /\ row.open = session[s].open
      /\ row.stream = session[s].stream /\ row.dialed = session[s].dialed
      /\ row.device = session[s].device /\ row.cancelled = session[s].cancelled
      /\ row.life = session[s].life /\ ~ row.armed
  BY <1>0 DEF SessionRow
<1> HIDE DEF row
<1>3. /\ session' \in [Sessions -> SessionRow] /\ Captures'
      /\ OperatorIsNotLeftOnPreview' /\ StoppedIsDone'
      /\ session'[s] = row /\ \A t \in Sessions \ {s} : session'[t] = session[t]
  BY <1>1, <1>2, WorkersStand
<1>4. \A t \in Sessions : Attached(t)' = Attached(t)
  BY <1>1 DEF Attached
<1>5. MirrorColumns' /\ ViewerPlaced' /\ TimerWaits'
  BY <1>1, <1>2, <1>3, <1>4 DEF MirrorInv, MirrorColumns, ViewerPlaced, TimerWaits
<1>6. NamesAgree' /\ Capacity'
  BY <1>1, <1>2, <1>3, NamesStand
<1> QED
  BY <1>3, <1>5, <1>6 DEF MirrorInv

-----------------------------------------------------------------------------
(* Viewers.                                                                *)

\* A viewer that takes no place and starts no watch, while the sessions stand.
LEMMA ViewerLeaves ==
    ASSUME MirrorInv, NEW v \in Viewers, viewer[v].at # "idle",
           NEW to \in {"gone", "leaving"},
           to = "leaving" => viewer[v].at = "watching",
           viewer' = [viewer EXCEPT ![v].at = to], UNCHANGED <<registry, session, stop>>
    PROVE  MirrorInv'
<1>1. /\ viewer' \in [Viewers -> ViewerRow]
      /\ \A w \in Viewers : /\ viewer'[w].session = viewer[w].session
                            /\ viewer'[w].purpose = viewer[w].purpose
                            /\ w # v => viewer'[w].at = viewer[w].at
      /\ viewer'[v].at = to
  BY DEF MirrorInv, MirrorColumns, ViewerRow, ViewerAt
<1>2. \A t \in Sessions : Attached(t)' \subseteq Attached(t)
  BY <1>1 DEF Attached
<1>3. MirrorColumns' /\ Captures' /\ StoppedIsDone'
  BY <1>1 DEF MirrorInv, MirrorColumns, Captures, StoppedIsDone, WorkersDone
<1>4. ViewerPlaced'
  BY <1>1 DEF MirrorInv, ViewerPlaced
<1>5. TimerWaits'
  BY <1>2 DEF MirrorInv, TimerWaits
<1>6. NamesAgree' /\ Capacity'
  BY NamesStand
<1>7. OperatorIsNotLeftOnPreview'
  BY <1>1 DEF MirrorInv, OperatorIsNotLeftOnPreview
<1> QED
  BY <1>3, <1>4, <1>5, <1>6, <1>7 DEF MirrorInv

\* attach stops the timer of an open session before the viewer counts.
LEMMA AttachInv ==
    ASSUME MirrorInv, NEW v \in Viewers, Attach(v)
    PROVE  MirrorInv'
<1>s. PICK s \in Sessions : s = viewer[v].session
  BY DEF Attach, MirrorInv, ViewerPlaced
<1>0. /\ viewer \in [Viewers -> ViewerRow] /\ viewer[v] \in ViewerRow
      /\ viewer[v].at = "joining" /\ session[s] \in SessionRow
      /\ UNCHANGED <<registry, stop>>
  BY DEF Attach, MirrorInv, MirrorColumns
<1>1. CASE session[s].life = "open"
  <2> DEFINE row == [session[s] EXCEPT !.armed = FALSE]
  <2>1. /\ session' = [session EXCEPT ![s] = row]
        /\ viewer' = [viewer EXCEPT ![v].at = "attaching"]
    BY <1>s, <1>1 DEF Attach
  <2>2. /\ row \in SessionRow /\ row.at = session[s].at /\ row.open = session[s].open
        /\ row.stream = session[s].stream /\ row.dialed = session[s].dialed
        /\ row.device = session[s].device /\ row.cancelled = session[s].cancelled
        /\ row.life = session[s].life /\ ~ row.armed
    BY <1>0 DEF SessionRow
  <2> HIDE DEF row
  <2>3. /\ viewer' \in [Viewers -> ViewerRow]
        /\ \A w \in Viewers : /\ viewer'[w].session = viewer[w].session
                              /\ viewer'[w].purpose = viewer[w].purpose
                              /\ w # v => viewer'[w].at = viewer[w].at
        /\ viewer'[v].at = "attaching"
    BY <1>0, <2>1 DEF ViewerRow, ViewerAt
  <2>4. /\ session' \in [Sessions -> SessionRow] /\ Captures'
        /\ OperatorIsNotLeftOnPreview' /\ StoppedIsDone'
        /\ session'[s] = row /\ \A t \in Sessions \ {s} : session'[t] = session[t]
    BY <1>0, <2>1, <2>2, <2>3, WorkersStand
  <2>5. MirrorColumns'
    BY <1>0, <2>3, <2>4 DEF MirrorInv, MirrorColumns
  <2>6. ViewerPlaced'
    <3>1. \A w \in Viewers : viewer'[w].at # "idle" => viewer[w].at # "idle"
      BY <1>0, <2>3
    <3> QED
      BY <2>3, <3>1 DEF MirrorInv, ViewerPlaced
  <2>7. \A t \in Sessions \ {s} : Attached(t)' = Attached(t)
    <3>1. \A w \in Viewers : viewer[w].session # s => viewer'[w].at = viewer[w].at
      BY <1>s, <2>3
    <3> QED
      BY <2>3, <3>1 DEF Attached
  <2>8. TimerWaits'
    BY <2>2, <2>4, <2>7 DEF MirrorInv, TimerWaits
  <2>9. NamesAgree' /\ Capacity'
    BY <1>0, <2>2, <2>4, NamesStand
  <2> QED
    BY <2>4, <2>5, <2>6, <2>8, <2>9 DEF MirrorInv
<1>2. CASE session[s].life # "open"
  <2>1. session' = session /\ viewer' = [viewer EXCEPT ![v].at = "gone"]
    BY <1>s, <1>2 DEF Attach
  <2> QED
    BY <1>0, <2>1, ViewerLeaves
<1> QED
  BY <1>1, <1>2

\* requestProfile starts the watch: a stream that is too weak is cancelled then.
LEMMA RequestProfileInv ==
    ASSUME MirrorInv, NEW v \in Viewers, RequestProfile(v)
    PROVE  MirrorInv'
<1>s. PICK s \in Sessions : s = viewer[v].session
  BY DEF RequestProfile, MirrorInv, ViewerPlaced
<1>0. /\ viewer \in [Viewers -> ViewerRow] /\ viewer[v] \in ViewerRow
      /\ viewer[v].at = "attaching" /\ session[s] \in SessionRow
      /\ UNCHANGED <<registry, stop>>
  BY DEF RequestProfile, MirrorInv, MirrorColumns
<1> DEFINE row == [session[s] EXCEPT !.cancelled =
                        session[s].cancelled \/ Reencodes(s, viewer[v].purpose)]
<1>1. /\ session' = [session EXCEPT ![s] = row]
      /\ viewer' = [viewer EXCEPT ![v].at = "watching"]
  BY <1>s DEF RequestProfile
<1>2. /\ row \in SessionRow /\ row.at = session[s].at /\ row.open = session[s].open
      /\ row.stream = session[s].stream /\ row.dialed = session[s].dialed
      /\ row.device = session[s].device /\ row.life = session[s].life
      /\ row.armed = session[s].armed
  BY <1>0 DEF SessionRow
<1>3. row.cancelled <=> session[s].cancelled \/ Reencodes(s, viewer[v].purpose)
  BY <1>0 DEF SessionRow
<1> HIDE DEF row
<1>4. /\ session[s].cancelled => row.cancelled
      /\ row.cancelled => session[s].cancelled \/ session[s].stream
      /\ Reencodes(s, viewer[v].purpose) => row.cancelled
  BY <1>3 DEF Reencodes
<1>5. /\ viewer' \in [Viewers -> ViewerRow]
      /\ \A w \in Viewers : /\ viewer'[w].session = viewer[w].session
                            /\ viewer'[w].purpose = viewer[w].purpose
                            /\ w # v => viewer'[w].at = viewer[w].at
      /\ viewer'[v].at = "watching"
  BY <1>0, <1>1 DEF ViewerRow, ViewerAt
<1>6. /\ session' \in [Sessions -> SessionRow] /\ Captures'
      /\ OperatorIsNotLeftOnPreview' /\ StoppedIsDone'
      /\ session'[s] = row /\ \A t \in Sessions \ {s} : session'[t] = session[t]
  BY <1>s, <1>0, <1>1, <1>2, <1>4, <1>5, WorkersStand
<1>7. MirrorColumns'
  BY <1>0, <1>5, <1>6 DEF MirrorInv, MirrorColumns
<1>8. ViewerPlaced'
  BY <1>0, <1>5 DEF MirrorInv, ViewerPlaced
<1>9. \A t \in Sessions : Attached(t)' = Attached(t)
  BY <1>0, <1>5 DEF Attached
<1>10. TimerWaits'
  BY <1>2, <1>6, <1>9 DEF MirrorInv, TimerWaits
<1>11. NamesAgree' /\ Capacity'
  BY <1>0, <1>2, <1>6, NamesStand
<1> QED
  BY <1>6, <1>7, <1>8, <1>10, <1>11 DEF MirrorInv

\* detach starts the timer only when it takes the last viewer.
LEMMA DetachInv ==
    ASSUME MirrorInv, NEW v \in Viewers, Detach(v)
    PROVE  MirrorInv'
<1>s. PICK s \in Sessions : s = viewer[v].session
  BY DEF Detach, MirrorInv, ViewerPlaced
<1>0. /\ viewer \in [Viewers -> ViewerRow] /\ viewer[v] \in ViewerRow
      /\ viewer[v].at = "leaving" /\ session[s] \in SessionRow
      /\ UNCHANGED <<registry, stop>>
  BY DEF Detach, MirrorInv, MirrorColumns
<1> DEFINE row == [session[s] EXCEPT !.armed =
                session[s].armed \/ (Attached(s) = {v} /\ session[s].life = "open")]
<1>1. /\ session' = [session EXCEPT ![s] = row]
      /\ viewer' = [viewer EXCEPT ![v].at = "gone"]
  BY <1>s DEF Detach
<1>2. /\ row \in SessionRow /\ row.at = session[s].at /\ row.open = session[s].open
      /\ row.stream = session[s].stream /\ row.dialed = session[s].dialed
      /\ row.device = session[s].device /\ row.life = session[s].life
      /\ row.cancelled = session[s].cancelled
  BY <1>0 DEF SessionRow
<1>3. row.armed <=> session[s].armed \/ (Attached(s) = {v} /\ session[s].life = "open")
  BY <1>0 DEF SessionRow
<1> HIDE DEF row
<1>4. v \in Attached(s) /\ ~ session[s].armed
  BY <1>s, <1>0 DEF Attached, MirrorInv, TimerWaits
<1>5. /\ viewer' \in [Viewers -> ViewerRow]
      /\ \A w \in Viewers : /\ viewer'[w].session = viewer[w].session
                            /\ viewer'[w].purpose = viewer[w].purpose
                            /\ w # v => viewer'[w].at = viewer[w].at
      /\ viewer'[v].at = "gone"
  BY <1>0, <1>1 DEF ViewerRow, ViewerAt
<1>6. /\ session' \in [Sessions -> SessionRow] /\ Captures'
      /\ OperatorIsNotLeftOnPreview' /\ StoppedIsDone'
      /\ session'[s] = row /\ \A t \in Sessions \ {s} : session'[t] = session[t]
  BY <1>0, <1>1, <1>2, <1>5, WorkersStand
<1>7. MirrorColumns'
  BY <1>0, <1>5, <1>6 DEF MirrorInv, MirrorColumns
<1>8. ViewerPlaced'
  BY <1>0, <1>5 DEF MirrorInv, ViewerPlaced
<1>9. Attached(s)' = Attached(s) \ {v} /\ \A t \in Sessions \ {s} : Attached(t)' = Attached(t)
  BY <1>s, <1>5 DEF Attached
<1>10. TimerWaits'
  <2>1. session'[s].armed => session'[s].life = "open" /\ Attached(s)' = {}
    BY <1>2, <1>3, <1>4, <1>6, <1>9
  <2> QED
    BY <1>6, <1>9, <2>1 DEF MirrorInv, TimerWaits
<1>11. NamesAgree' /\ Capacity'
  BY <1>0, <1>2, <1>6, NamesStand
<1> QED
  BY <1>6, <1>7, <1>8, <1>10, <1>11 DEF MirrorInv

\* A session that is opened for a device that has none.
LEMMA OpenSessionInv ==
    ASSUME MirrorInv, NEW v \in Viewers, NEW d \in Devices, NEW purpose \in Purposes,
           NEW s \in Sessions, viewer[v].at = "idle", stop.at = "no",
           registry[d] = None, MayOpen(purpose), session[s].at = "absent",
           registry' = [registry EXCEPT ![d] = s],
           session' = [session EXCEPT ![s] =
                [NoWorker EXCEPT !.at = "choosing", !.device = d,
                                 !.opening = purpose, !.life = "open"]],
           viewer' = [viewer EXCEPT ![v] =
                [at |-> "joining", session |-> s, purpose |-> purpose]],
           UNCHANGED stop
    PROVE  MirrorInv'
<1>0. /\ viewer \in [Viewers -> ViewerRow] /\ session \in [Sessions -> SessionRow]
      /\ registry \in [Devices -> Sessions \cup {None}]
  BY DEF MirrorInv, MirrorColumns
<1> DEFINE row == [NoWorker EXCEPT !.at = "choosing", !.device = d,
                                   !.opening = purpose, !.life = "open"]
<1>1. /\ row \in SessionRow /\ row.at = "choosing" /\ row.device = d /\ row.life = "open"
      /\ ~ row.armed /\ ~ row.open /\ ~ row.stream
  BY DEF NoWorker, SessionRow, WorkerAt, Lives
<1>2. session'[s] = row /\ \A t \in Sessions \ {s} : session'[t] = session[t]
  BY <1>0
<1>3. session' \in [Sessions -> SessionRow]
  BY <1>0, <1>1
<1> HIDE DEF row
<1>4. /\ viewer' \in [Viewers -> ViewerRow]
      /\ \A w \in Viewers \ {v} : viewer'[w] = viewer[w]
      /\ viewer'[v].at = "joining" /\ viewer'[v].session = s /\ viewer'[v].purpose = purpose
  BY <1>0 DEF ViewerRow, ViewerAt
<1>5. registry'[d] = s /\ \A e \in Devices \ {d} : registry'[e] = registry[e]
  BY <1>0
<1>6. MirrorColumns'
  BY <1>0, <1>3, <1>4 DEF MirrorInv, MirrorColumns
<1>7. ViewerPlaced'
  BY <1>4 DEF MirrorInv, ViewerPlaced
<1>8. Captures'
  <2>1. CaptureFits(row)
    BY <1>1 DEF CaptureFits
  <2> QED
    BY <1>2, <2>1 DEF MirrorInv, Captures
<1>9. \A t \in Sessions : Attached(t)' = Attached(t)
  BY <1>4 DEF Attached
<1>10. TimerWaits'
  BY <1>1, <1>2, <1>9 DEF MirrorInv, TimerWaits
<1>11. \A e \in Devices : registry[e] # s
  BY LiveMirrorAssumption DEF MirrorInv, NamesAgree
<1>12. NamesAgree'
  <2>1. ASSUME NEW t \in Sessions
        PROVE  /\ session'[t].life = None <=> session'[t].at = "absent"
               /\ session'[t].life # None => session'[t].device \in Devices
               /\ session'[t].life \in {"open", "ending"} => registry'[session'[t].device] = t
    <3>1. CASE t = s
      BY <1>1, <1>2, <1>5, <3>1, LiveMirrorAssumption
    <3>2. CASE t # s
      <4>1. session'[t] = session[t]
        BY <1>2, <3>2
      <4>2. session[t].life \in {"open", "ending"} =>
                session[t].device \in Devices \ {d} /\ registry[session[t].device] = t
        BY LiveMirrorAssumption DEF MirrorInv, NamesAgree
      <4>3. session[t].life \in {"open", "ending"} => registry'[session[t].device] = t
        BY <1>5, <4>2
      <4>4. /\ session[t].life = None <=> session[t].at = "absent"
            /\ session[t].life # None => session[t].device \in Devices
        BY DEF MirrorInv, NamesAgree
      <4> QED
        BY <4>1, <4>3, <4>4
    <3> QED
      BY <3>1, <3>2
  <2>2. ASSUME NEW e \in Devices, registry'[e] # None
        PROVE  /\ session'[registry'[e]].device = e
               /\ session'[registry'[e]].life \in {"open", "ending"}
    <3>1. CASE e = d
      BY <1>1, <1>2, <1>5, <3>1
    <3>2. CASE e # d
      <4>1. registry'[e] = registry[e] /\ registry[e] \in Sessions \ {s}
        BY <1>0, <1>5, <1>11, <2>2, <3>2
      <4> QED
        BY <1>2, <2>2, <4>1 DEF MirrorInv, NamesAgree
    <3> QED
      BY <3>1, <3>2
  <2> QED
    BY <2>1, <2>2 DEF NamesAgree
<1>13. Capacity'
  <2>1. Registered' = Registered \cup {s}
    <3>1. \A t \in Sessions, e \in Devices : registry[e] = t => registry'[e] = t
      BY <1>5, LiveMirrorAssumption
    <3> QED
      BY <1>5, <3>1 DEF Registered
  <2>2. s \notin Registered
    BY <1>11 DEF Registered
  <2>3. IsFiniteSet(Registered) /\ Cardinality(Registered) < Max
    BY DEF MirrorInv, Capacity, MayOpen
  <2>4. /\ IsFiniteSet(Registered \cup {s})
        /\ Cardinality(Registered \cup {s}) = Cardinality(Registered) + 1
    BY <2>2, <2>3, FS_AddElement
  <2>5. Cardinality(Registered) \in Nat
    BY <2>3, FS_CardinalityType
  <2>6. Cardinality(Registered) + 1 <= Max
    BY <2>3, <2>5, LiveMirrorAssumption
  <2> QED
    BY <2>1, <2>4, <2>6 DEF Capacity
<1>14. OperatorIsNotLeftOnPreview'
  <2>1. \A t \in Sessions : session'[t].at = "reading" => session'[t] = session[t]
    BY <1>1, <1>2
  <2>2. \A w \in Viewers : viewer'[w].at = "watching" => viewer'[w] = viewer[w]
    BY <1>4
  <2> QED
    BY <2>1, <2>2 DEF MirrorInv, OperatorIsNotLeftOnPreview
<1>15. StoppedIsDone'
  BY DEF StoppedIsDone
<1> QED
  BY <1>6, <1>7, <1>8, <1>10, <1>12, <1>13, <1>14, <1>15 DEF MirrorInv

\* StartViewer joins the session of the device or opens one.
LEMMA StartViewerInv ==
    ASSUME MirrorInv, NEW v \in Viewers, NEW d \in Devices, NEW purpose \in Purposes,
           StartViewer(v, d, purpose)
    PROVE  MirrorInv'
<1>1. CASE /\ registry[d] # None
           /\ viewer' = [viewer EXCEPT ![v] =
                [at |-> "joining", session |-> registry[d], purpose |-> purpose]]
           /\ UNCHANGED <<registry, session, stop>>
  <2>0. viewer[v].at = "idle"
    BY DEF StartViewer
  <2>1. registry[d] \in Sessions
    BY <1>1 DEF MirrorInv, MirrorColumns
  <2>2. /\ viewer' \in [Viewers -> ViewerRow]
        /\ \A w \in Viewers \ {v} : viewer'[w] = viewer[w]
        /\ viewer'[v].at = "joining" /\ viewer'[v].session \in Sessions
        /\ viewer'[v].purpose \in Purposes
    BY <1>1, <2>1 DEF MirrorInv, MirrorColumns, ViewerRow, ViewerAt
  <2>3. \A t \in Sessions : Attached(t)' = Attached(t)
    BY <2>0, <2>2 DEF Attached
  <2>4. MirrorColumns' /\ Captures' /\ StoppedIsDone' /\ TimerWaits'
    BY <1>1, <2>2, <2>3
    DEF MirrorInv, MirrorColumns, Captures, StoppedIsDone, WorkersDone, TimerWaits
  <2>5. ViewerPlaced'
    BY <2>2 DEF MirrorInv, ViewerPlaced
  <2>6. NamesAgree' /\ Capacity'
    BY <1>1, NamesStand
  <2>7. \A w \in Viewers : viewer'[w].at = "watching" => viewer'[w] = viewer[w]
    BY <2>2
  <2>8. OperatorIsNotLeftOnPreview'
    BY <1>1, <2>7 DEF MirrorInv, OperatorIsNotLeftOnPreview
  <2> QED
    BY <2>4, <2>5, <2>6, <2>8 DEF MirrorInv
<1>2. CASE registry[d] = None
  BY <1>2, OpenSessionInv DEF StartViewer
<1> QED
  BY <1>1, <1>2 DEF StartViewer

-----------------------------------------------------------------------------
(* Stop.                                                                   *)

\* Stop keeps its own books; it returns nil only when every worker is through.
LEMMA StopInv ==
    ASSUME MirrorInv,
           StopBegin \/ StopReturns \/ \E s \in Sessions : StopNext(s) \/ StopWaited(s)
    PROVE  MirrorInv'
<1>1. UNCHANGED <<registry, session, viewer>>
  BY DEF StopBegin, StopReturns, StopNext, StopWaited
<1>2. stop' \in StopRow
  BY DEF StopBegin, StopReturns, StopNext, StopWaited, MirrorInv, MirrorColumns, StopRow,
         Registered
<1>3. stop'.at = "returned" => stop.at = "returned" \/ WorkersDone
  BY DEF StopBegin, StopReturns, StopNext, StopWaited, MirrorInv, MirrorColumns, StopRow
<1>4. StoppedIsDone'
  BY <1>1, <1>3 DEF MirrorInv, StoppedIsDone, WorkersDone
<1>5. MirrorColumns' /\ ViewerPlaced' /\ Captures' /\ OperatorIsNotLeftOnPreview'
  BY <1>1, <1>2 DEF MirrorInv, MirrorColumns, ViewerPlaced, Captures, OperatorIsNotLeftOnPreview
<1>6. TimerWaits'
  BY <1>1 DEF MirrorInv, TimerWaits, Attached
<1>7. NamesAgree' /\ Capacity'
  BY <1>1, NamesStand
<1> QED
  BY <1>4, <1>5, <1>6, <1>7 DEF MirrorInv

-----------------------------------------------------------------------------
(* The theorems.                                                           *)

\* Every step keeps the invariant.
LEMMA MirrorNextInv ==
    ASSUME MirrorInv, [MirrorNext]_mirrorVars
    PROVE  MirrorInv'
<1>1. CASE UNCHANGED mirrorVars
  <2>1. UNCHANGED <<registry, session, viewer, stop>>
    BY <1>1 DEF mirrorVars
  <2>2. NamesAgree' /\ Capacity'
    BY <2>1, NamesStand
  <2> QED
    BY <2>1, <2>2 DEF MirrorInv, MirrorColumns, ViewerPlaced, Captures, TimerWaits, Attached,
        OperatorIsNotLeftOnPreview, StoppedIsDone, WorkersDone
<1>2. ASSUME NEW v \in Viewers, ViewerStep(v) \/ CloseViewer(v) PROVE MirrorInv'
  <2>1. ASSUME CloseViewer(v) PROVE MirrorInv'
    BY <2>1, ViewerLeaves DEF CloseViewer
  <2> QED
    BY <1>2, <2>1, AttachInv, RequestProfileInv, DetachInv DEF ViewerStep
<1>3. ASSUME NEW s \in Sessions, EndStep(s) \/ StopEnd(s) \/ WorkerEnd(s) PROVE MirrorInv'
  <2>1. FailureClass(s) \in EndClasses
    BY DEF FailureClass, EndClasses
  <2>2. {"viewer_detached", "engine_stopped"} \subseteq EndClasses
    BY DEF EndClasses
  <2> QED
    BY <1>3, <2>1, <2>2, BeginEndInv, FinishEndInv, TimerFiresInv
    DEF EndStep, IdleEnd, StopEnd, WorkerEnd
<1>4. ASSUME NEW s \in Sessions, WorkerStep(s) \/ ReadEnds(s) PROVE MirrorInv'
  BY <1>3, <1>4, WorkerInv DEF WorkerStep
<1> QED
  BY <1>1, <1>2, <1>3, <1>4, StartViewerInv, StopInv DEF MirrorNext

\* The inductive invariant, for any devices, sessions, viewers and capacity.
THEOREM MirrorInvariant == MirrorSpec => []MirrorInv
BY MirrorInitInv, MirrorNextInv, PTL DEF MirrorSpec

\* MirrorEngine.sessions holds exactly the sessions that have not ended, and
\* never more than MaxSessions of them.
THEOREM RegistryHoldsTheLive == MirrorSpec => []RegistryIsLive
BY MirrorInvariant, MirrorInvRegistry, PTL

\* attach, requestProfile and strongerStreamRequired together leave no operator
\* on a stream that was dialed for the grid.
THEOREM OperatorGetsOwnStream == MirrorSpec => []OperatorIsNotLeftOnPreview
<1>1. MirrorInv => OperatorIsNotLeftOnPreview
  BY DEF MirrorInv
<1> QED
  BY <1>1, MirrorInvariant, PTL

\* requestProfile never cancels a dial that is still being made.
THEOREM OpeningStands == MirrorSpec => []OpeningIsNotTornDown
BY MirrorInvariant, MirrorInvOpening, PTL

-----------------------------------------------------------------------------
(* Who watches what.                                                       *)

\* A viewer is recorded with a session that is open, and dropped by one that ends.
Served ==
    \A v \in Viewers :
        /\ viewer[v].at \in {"attaching", "watching", "leaving"} =>
                session[viewer[v].session].life = "open"
        /\ viewer[v].at = "dropped" => session[viewer[v].session].life = "ending"

\* While lives stand, a viewer needs an open session only to attach.
LEMMA ServedStands ==
    ASSUME MirrorInv, Served, NEW v \in Viewers,
           \A t \in Sessions : session'[t].life = session[t].life,
           \A w \in Viewers \ {v} : viewer'[w] = viewer[w],
           viewer'[v].session = viewer[v].session,
           \/ viewer'[v] = viewer[v]
           \/ viewer'[v].at = "gone"
           \/ /\ viewer'[v].at \in {"attaching", "watching", "leaving"}
              /\ viewer[v].at # "idle" /\ session[viewer[v].session].life = "open"
    PROVE  Served'
<1>1. \A w \in Viewers : viewer[w].at # "idle" => viewer[w].session \in Sessions
  BY DEF MirrorInv, ViewerPlaced
<1>2. ASSUME NEW w \in Viewers \ {v}
      PROVE  /\ viewer'[w].at \in {"attaching", "watching", "leaving"} =>
                    session'[viewer'[w].session].life = "open"
             /\ viewer'[w].at = "dropped" => session'[viewer'[w].session].life = "ending"
  BY <1>1 DEF Served
<1>3. /\ viewer'[v].at \in {"attaching", "watching", "leaving"} =>
            session'[viewer'[v].session].life = "open"
      /\ viewer'[v].at = "dropped" => session'[viewer'[v].session].life = "ending"
  BY <1>1 DEF Served
<1> QED
  BY <1>2, <1>3 DEF Served

\* A viewer that moves on.
LEMMA ServedViewer ==
    ASSUME MirrorInv, Served, NEW v \in Viewers, ViewerStep(v) \/ CloseViewer(v)
    PROVE  Served'
<1>0. viewer \in [Viewers -> ViewerRow] /\ session \in [Sessions -> SessionRow]
  BY DEF MirrorInv, MirrorColumns
<1>s. PICK s \in Sessions : s = viewer[v].session
  BY DEF ViewerStep, Attach, RequestProfile, Detach, CloseViewer, MirrorInv, ViewerPlaced
<1>1. \A t \in Sessions : session'[t].life = session[t].life
  <2>1. CASE Attach(v)
    BY <1>0, <1>s, <2>1 DEF Attach, SessionRow
  <2>2. CASE RequestProfile(v)
    BY <1>0, <1>s, <2>2 DEF RequestProfile, SessionRow
  <2>3. CASE Detach(v)
    BY <1>0, <1>s, <2>3 DEF Detach, SessionRow
  <2>4. CASE CloseViewer(v)
    BY <2>4 DEF CloseViewer
  <2> QED
    BY <2>1, <2>2, <2>3, <2>4 DEF ViewerStep
<1>2. PICK to \in ViewerAt :
        /\ viewer' = [viewer EXCEPT ![v].at = to]
        /\ \/ to = "gone"
           \/ /\ to \in {"attaching", "watching", "leaving"}
              /\ \/ session[s].life = "open"
                 \/ viewer[v].at \in {"attaching", "watching"}
    BY <1>s DEF ViewerStep, Attach, RequestProfile, Detach, CloseViewer, ViewerAt
<1>3. viewer[v].at # "idle"
  BY DEF ViewerStep, Attach, RequestProfile, Detach, CloseViewer
<1>4. viewer[v].at \in {"attaching", "watching"} => session[s].life = "open"
  BY <1>s DEF Served
<1>5. /\ viewer'[v].session = viewer[v].session /\ viewer'[v].at = to
      /\ \A w \in Viewers \ {v} : viewer'[w] = viewer[w]
  BY <1>0, <1>2 DEF ViewerRow
<1> QED
  BY <1>s, <1>1, <1>2, <1>3, <1>4, <1>5, ServedStands

\* A new session had no viewers, and who joins is not recorded yet.
LEMMA ServedStart ==
    ASSUME MirrorInv, Served, NEW v \in Viewers, NEW d \in Devices, NEW purpose \in Purposes,
           StartViewer(v, d, purpose)
    PROVE  Served'
<1>0. viewer \in [Viewers -> ViewerRow] /\ session \in [Sessions -> SessionRow]
  BY DEF MirrorInv, MirrorColumns
<1>1. viewer'[v].at = "joining" /\ \A w \in Viewers \ {v} : viewer'[w] = viewer[w]
  BY <1>0 DEF StartViewer
<1>2. \A t \in Sessions : session[t].life \in {"open", "ending"} => session'[t] = session[t]
  <2>1. CASE UNCHANGED session
    BY <2>1
  <2>2. ASSUME NEW s \in Sessions, session[s].at = "absent",
               session' = [session EXCEPT ![s] =
                    [NoWorker EXCEPT !.at = "choosing", !.device = d,
                                     !.opening = purpose, !.life = "open"]]
        PROVE  \A t \in Sessions :
                    session[t].life \in {"open", "ending"} => session'[t] = session[t]
    <3>1. session[s].life = None
      BY <2>2 DEF MirrorInv, NamesAgree
    <3> QED
      BY <1>0, <2>2, <3>1, LiveMirrorAssumption
  <2> QED
    BY <2>1, <2>2 DEF StartViewer
<1>3. \A w \in Viewers : viewer[w].at # "idle" => viewer[w].session \in Sessions
  BY DEF MirrorInv, ViewerPlaced
<1>4. ASSUME NEW w \in Viewers \ {v}
      PROVE  /\ viewer'[w].at \in {"attaching", "watching", "leaving"} =>
                    session'[viewer'[w].session].life = "open"
             /\ viewer'[w].at = "dropped" => session'[viewer'[w].session].life = "ending"
  BY <1>1, <1>2, <1>3 DEF Served
<1> QED
  BY <1>1, <1>4 DEF Served

\* end drops every viewer that is recorded with the session, and nobody else.
LEMMA ServedBeginEnd ==
    ASSUME MirrorInv, Served, NEW s \in Sessions, NEW class, BeginEnd(s, class)
    PROVE  Served'
<1>0. /\ viewer \in [Viewers -> ViewerRow] /\ session \in [Sessions -> SessionRow]
      /\ session[s].life = "open"
  BY DEF MirrorInv, MirrorColumns, BeginEnd
<1>1. /\ session'[s].life = "ending"
      /\ \A t \in Sessions \ {s} : session'[t] = session[t]
  BY <1>0 DEF BeginEnd, SessionRow
<1>2. ASSUME NEW w \in Viewers
      PROVE  /\ viewer'[w].at \in {"attaching", "watching", "leaving"} =>
                    session'[viewer'[w].session].life = "open"
             /\ viewer'[w].at = "dropped" => session'[viewer'[w].session].life = "ending"
  <2>0. /\ viewer[w].at # "idle" => viewer[w].session \in Sessions
        /\ viewer[w] \in ViewerRow
    BY <1>0 DEF MirrorInv, ViewerPlaced
  <2>1. CASE w \in Attached(s)
    <3>1. viewer'[w] = [viewer[w] EXCEPT !.at =
                IF viewer[w].at = "leaving" THEN "gone" ELSE "dropped"]
      BY <2>1 DEF BeginEnd
    <3>2. viewer'[w].session = s /\ viewer'[w].at \in {"gone", "dropped"}
      BY <2>0, <2>1, <3>1 DEF Attached, ViewerRow
    <3> QED
      BY <1>1, <3>2
  <2>2. CASE w \notin Attached(s)
    <3>1. viewer'[w] = viewer[w]
      BY <2>2 DEF BeginEnd
    <3>2. viewer[w].at \in {"attaching", "watching", "leaving"} => viewer[w].session # s
      BY <2>2 DEF Attached
    <3>3. viewer[w].at = "dropped" => viewer[w].session # s
      BY <1>0 DEF Served
    <3> QED
      BY <1>1, <2>0, <3>1, <3>2, <3>3 DEF Served
  <2> QED
    BY <2>1, <2>2
<1> QED
  BY <1>2 DEF Served

\* By the time the engine forgets a session its viewers are closed.
LEMMA ServedFinishEnd ==
    ASSUME MirrorInv, Served, NEW s \in Sessions, FinishEnd(s)
    PROVE  Served'
<1>0. /\ viewer \in [Viewers -> ViewerRow] /\ session \in [Sessions -> SessionRow]
      /\ session[s].life = "ending"
  BY DEF MirrorInv, MirrorColumns, FinishEnd
<1>1. \A t \in Sessions \ {s} : session'[t] = session[t]
  BY <1>0 DEF FinishEnd
<1>2. ASSUME NEW w \in Viewers
      PROVE  /\ viewer'[w].at \in {"attaching", "watching", "leaving"} =>
                    session'[viewer'[w].session].life = "open"
             /\ viewer'[w].at = "dropped" => session'[viewer'[w].session].life = "ending"
  <2>0. /\ viewer[w].at # "idle" => viewer[w].session \in Sessions
        /\ viewer[w] \in ViewerRow
    BY <1>0 DEF MirrorInv, ViewerPlaced
  <2>1. CASE viewer[w].session = s /\ viewer[w].at = "dropped"
    BY <2>0, <2>1 DEF FinishEnd, ViewerRow
  <2>2. CASE ~ (viewer[w].session = s /\ viewer[w].at = "dropped")
    <3>1. viewer'[w] = viewer[w]
      BY <2>2 DEF FinishEnd
    <3>2. viewer[w].at \in {"attaching", "watching", "leaving"} => viewer[w].session # s
      BY <1>0 DEF Served
    <3> QED
      BY <1>1, <2>0, <2>2, <3>1, <3>2 DEF Served
  <2> QED
    BY <2>1, <2>2
<1> QED
  BY <1>2 DEF Served

\* A worker and a timer move without touching a life or a viewer.
LEMMA ServedWorker ==
    ASSUME MirrorInv, Served, NEW s \in Sessions,
           \/ BeginDial(s) \/ DialLaunches(s) \/ DialOpens(s) \/ DialRefused(s) \/ DialFails(s)
           \/ PublishStream(s) \/ NoScreen(s) \/ CheckStronger(s) \/ ReadCancelled(s)
           \/ ReadEnds(s) \/ WorkerEnded(s) \/ Unpublish(s) \/ CloseStream(s) \/ CloseFails(s)
           \/ TimerFires(s)
    PROVE  Served'
<1>0. session \in [Sessions -> SessionRow] /\ session[s] \in SessionRow
  BY DEF MirrorInv, MirrorColumns
<1>1. session'[s].life = session[s].life
  <2>1. CASE TimerFires(s)
    BY <1>0, <2>1 DEF TimerFires, SessionRow
  <2>2. CASE BeginDial(s) \/ PublishStream(s)
    BY <1>0, <2>2 DEF BeginDial, PublishStream, MoveWorker, StepWorker, SessionRow
  <2>6. CASE DialLaunches(s) \/ DialOpens(s)
    BY <1>0, <2>6 DEF DialLaunches, DialOpens, StepWorker, SessionRow
  <2>3. CASE DialRefused(s) \/ DialFails(s) \/ NoScreen(s) \/ ReadEnds(s)
    BY <1>0, <2>3
    DEF DialRefused, DialFails, NoScreen, ReadEnds, MoveWorker, StepWorker, SessionRow
  <2>4. CASE CheckStronger(s) \/ ReadCancelled(s) \/ WorkerEnded(s)
    BY <1>0, <2>4
    DEF CheckStronger, ReadCancelled, WorkerEnded, MoveWorker, StepWorker, SessionRow
  <2>5. CASE Unpublish(s) \/ CloseStream(s) \/ CloseFails(s)
    BY <1>0, <2>5 DEF Unpublish, CloseStream, CloseFails, MoveWorker, StepWorker, SessionRow
  <2> QED
    BY <2>1, <2>2, <2>3, <2>4, <2>5, <2>6
<1>2. viewer' = viewer /\ \A t \in Sessions \ {s} : session'[t] = session[t]
  BY <1>0
  DEF BeginDial, DialLaunches, DialOpens, DialRefused, DialFails, PublishStream, NoScreen,
      CheckStronger, ReadCancelled, ReadEnds, WorkerEnded, Unpublish, CloseStream, CloseFails,
      MoveWorker, StepWorker, TimerFires
<1>3. \A t \in Sessions : session'[t].life = session[t].life
  BY <1>1, <1>2
<1>4. \A w \in Viewers : viewer[w].at # "idle" => viewer[w].session \in Sessions
  BY DEF MirrorInv, ViewerPlaced
<1> QED
  BY <1>2, <1>3, <1>4 DEF Served

\* Every step keeps every viewer with a session that serves it.
LEMMA ServedNext ==
    ASSUME MirrorInv, Served, [MirrorNext]_mirrorVars
    PROVE  Served'
<1>1. ASSUME UNCHANGED <<session, viewer>> PROVE Served'
  BY <1>1 DEF Served
<1>2. ASSUME NEW s \in Sessions, EndStep(s) \/ StopEnd(s) \/ WorkerEnd(s) PROVE Served'
  BY <1>2, ServedBeginEnd, ServedFinishEnd, ServedWorker
  DEF EndStep, IdleEnd, StopEnd, WorkerEnd
<1>3. ASSUME NEW s \in Sessions, WorkerStep(s) \/ ReadEnds(s) PROVE Served'
  BY <1>2, <1>3, ServedWorker DEF WorkerStep
<1> QED
  BY <1>1, <1>2, <1>3, ServedViewer, ServedStart
  DEF MirrorNext, StopBegin, StopReturns, StopNext, StopWaited, mirrorVars

\* Two sessions that live have two devices, and a session that serves somebody is
\* the one in the engine's map.
LEMMA ServedIsUnwatched == MirrorInv /\ Served => SpareCaptureIsUnwatched
<1> SUFFICES ASSUME MirrorInv, Served PROVE SpareCaptureIsUnwatched
  OBVIOUS
<1>1. \A s \in Sessions : Live(s) => registry[session[s].device] = s
  BY MirrorInvRegistry DEF RegistryIsLive
<1>2. \A s \in Sessions : session[s].life \in {"open", "ending"} => Live(s)
  BY LiveMirrorAssumption DEF Live
<1>3. ASSUME NEW v \in Viewers,
             viewer[v].at \in {"attaching", "watching", "leaving", "dropped"}
      PROVE  /\ viewer[v].session \in Sessions
             /\ session[viewer[v].session].life \in {"open", "ending"}
  BY <1>3 DEF Served, MirrorInv, ViewerPlaced
<1> QED
  BY <1>1, <1>2, <1>3 DEF SpareCaptureIsUnwatched

\* A session that end has made the engine forget may still hold a stream of its
\* device, but nobody watches it: all who watch a device watch one live session.
THEOREM SpareCapturesAreUnwatched == MirrorSpec => []SpareCaptureIsUnwatched
<1>1. MirrorInit => Served
  BY NoRows DEF MirrorInit, Served
<1>2. MirrorInv /\ Served /\ [MirrorNext]_mirrorVars => Served'
  BY ServedNext
<1> QED
  BY <1>1, <1>2, MirrorInvariant, ServedIsUnwatched, PTL DEF MirrorSpec

-----------------------------------------------------------------------------
(* What is left on the devices.                                            *)

\* Who is in the set after a server changed its kind.
LEMMA BecomesFacts ==
    ASSUME NEW s, NEW from, NEW to, NEW y \in Becomes(s, from, to)
    PROVE  \/ y = <<s, to>> /\ <<s, from>> \in servers
           \/ y \in servers /\ y # <<s, from>>
BY DEF Becomes

\* Nobody's server is touched and no worker's stream.
LEMMA ServersStand ==
    ASSUME ServersFit, UNCHANGED servers,
           \A t \in Sessions : session[t].at # "absent" =>
                /\ session'[t].at = session[t].at /\ session'[t].open = session[t].open
                /\ session'[t].unreleased = session[t].unreleased
    PROVE  ServersFit'
<1>1. \A t \in Sessions, k \in ServerKinds : <<t, k>> \in servers => session[t].at # "absent"
  BY DEF ServersFit
<1>2. \A x \in servers : x[1] \in Sessions
  BY DEF ServersFit
<1>3. \A x \in servers' : session'[x[1]].at # "absent"
  BY <1>2 DEF ServersFit
<1>4. {"starting", "carried", "unreleased"} \subseteq ServerKinds
  BY DEF ServerKinds
<1>5. ASSUME NEW t \in Sessions
      PROVE  /\ <<t, "starting">> \in servers' => session'[t].at = "launched"
             /\ <<t, "carried">> \in servers' => session'[t].open
             /\ <<t, "unreleased">> \in servers' => session'[t].unreleased
  BY <1>1, <1>4 DEF ServersFit
<1> QED
  BY <1>3, <1>5 DEF ServersFit

\* A worker that moves, and with it at most its own servers are new.
LEMMA ServersMove ==
    ASSUME MirrorInv, ServersFit, NEW s \in Sessions, NEW row \in SessionRow,
           StepWorker(s, row), row.at # "absent",
           servers' \subseteq Sessions \X ServerKinds,
           \A x \in servers' : x[1] # s => x \in servers,
           <<s, "starting">> \in servers' => row.at = "launched",
           <<s, "carried">> \in servers' => row.open,
           <<s, "unreleased">> \in servers' => row.unreleased
    PROVE  ServersFit'
<1>1. session'[s] = row /\ \A t \in Sessions \ {s} : session'[t] = session[t]
  BY DEF StepWorker, MirrorInv, MirrorColumns
<1>2. ASSUME NEW x \in servers' PROVE session'[x[1]].at # "absent"
  <2>1. x[1] \in Sessions
    OBVIOUS
  <2> QED
    BY <1>1, <2>1 DEF ServersFit
<1>3. ASSUME NEW t \in Sessions \ {s}
      PROVE  /\ <<t, "starting">> \in servers' => session'[t].at = "launched"
             /\ <<t, "carried">> \in servers' => session'[t].open
             /\ <<t, "unreleased">> \in servers' => session'[t].unreleased
  <2>1. \A k : <<t, k>> \in servers' => <<t, k>> \in servers
    OBVIOUS
  <2> QED
    BY <1>1, <2>1 DEF ServersFit
<1> QED
  BY <1>1, <1>2, <1>3 DEF ServersFit

\* The steps of a worker that do not reach the device.
LEMMA ServersWorker ==
    ASSUME MirrorInv, ServersFit, NEW s \in Sessions,
           \/ BeginDial(s) \/ PublishStream(s) \/ NoScreen(s) \/ CheckStronger(s)
           \/ ReadCancelled(s) \/ ReadEnds(s) \/ WorkerEnded(s) \/ Unpublish(s)
    PROVE  ServersFit'
<1>0. session[s] \in SessionRow
  BY DEF MirrorInv, MirrorColumns
<1>1. session[s].at # "launched" /\ UNCHANGED servers
  BY DEF BeginDial, PublishStream, NoScreen, CheckStronger, ReadCancelled, ReadEnds,
         WorkerEnded, Unpublish, MoveWorker, Worker
<1>2. PICK row \in SessionRow : /\ StepWorker(s, row) /\ row.at # "absent"
                                /\ row.open = session[s].open
                                /\ row.unreleased = session[s].unreleased
  <2>1. CASE BeginDial(s)
    <3> DEFINE r == [session[s] EXCEPT !.at = "dialing", !.cancelled = FALSE,
                                       !.dialed = RequiredPurpose(s)]
    <3>1. StepWorker(s, r)
      BY <2>1 DEF BeginDial, MoveWorker
    <3>2. /\ r \in SessionRow /\ r.at # "absent" /\ r.open = session[s].open
          /\ r.unreleased = session[s].unreleased
      BY <1>0, RequiredFacts DEF SessionRow, WorkerAt
    <3> QED
      BY <3>1, <3>2
  <2>2. CASE PublishStream(s)
    <3> DEFINE r == [session[s] EXCEPT !.at = "published", !.stream = TRUE]
    <3>1. StepWorker(s, r)
      BY <2>2 DEF PublishStream, MoveWorker
    <3>2. /\ r \in SessionRow /\ r.at # "absent" /\ r.open = session[s].open
          /\ r.unreleased = session[s].unreleased
      BY <1>0 DEF SessionRow, WorkerAt
    <3> QED
      BY <3>1, <3>2
  <2>3. CASE Unpublish(s)
    <3> DEFINE r == [session[s] EXCEPT !.stream = FALSE]
    <3>1. StepWorker(s, r) /\ session[s].at # "absent"
      BY <2>3 DEF Unpublish, MoveWorker
    <3>2. /\ r \in SessionRow /\ r.at = session[s].at /\ r.open = session[s].open
          /\ r.unreleased = session[s].unreleased
      BY <1>0 DEF SessionRow
    <3> QED
      BY <3>1, <3>2
  <2>4. ASSUME NEW to \in WorkerAt, MoveWorker(s, [session[s] EXCEPT !.at = to])
        PROVE  \E row \in SessionRow : /\ StepWorker(s, row) /\ row.at # "absent"
                                       /\ row.open = session[s].open
                                       /\ row.unreleased = session[s].unreleased
    <3> DEFINE r == [session[s] EXCEPT !.at = to]
    <3>1. StepWorker(s, r)
      BY <2>4 DEF MoveWorker
    <3>2. /\ r \in SessionRow /\ r.at # "absent" /\ r.open = session[s].open
          /\ r.unreleased = session[s].unreleased
      BY <1>0 DEF SessionRow, WorkerAt
    <3> QED
      BY <3>1, <3>2
  <2>5. CASE NoScreen(s) \/ CheckStronger(s) \/ ReadCancelled(s) \/ ReadEnds(s) \/ WorkerEnded(s)
    <3>1. {"failing", "replacing", "reading", "closing", "finished"} \subseteq WorkerAt
      BY DEF WorkerAt
    <3> QED
      BY <2>4, <2>5, <3>1 DEF NoScreen, CheckStronger, ReadCancelled, ReadEnds, WorkerEnded
  <2> QED
    BY <2>1, <2>2, <2>3, <2>5
<1>3. servers' \subseteq Sessions \X ServerKinds
  BY <1>1 DEF ServersFit
<1>4. /\ <<s, "starting">> \notin servers'
      /\ <<s, "carried">> \in servers' => row.open
      /\ <<s, "unreleased">> \in servers' => row.unreleased
  BY <1>1, <1>2 DEF ServersFit
<1> QED
  BY <1>1, <1>2, <1>3, <1>4, ServersMove

\* The steps that reach the device: launch, handshake, failure and release.
LEMMA ServersDevice ==
    ASSUME MirrorInv, ServersFit, NEW s \in Sessions,
           \/ DialLaunches(s) \/ DialOpens(s) \/ DialRefused(s) \/ DialFails(s)
           \/ CloseStream(s) \/ CloseFails(s)
    PROVE  ServersFit'
<1>0. session[s] \in SessionRow /\ CaptureFits(session[s])
  BY DEF MirrorInv, MirrorColumns, Captures
<1>k. {"starting", "carried", "unreleased", "aborted"} \subseteq ServerKinds
  BY DEF ServerKinds
<1>s. \A left \in Swept(s) : left \subseteq servers
  BY DEF Swept, OnDevice
<1>1. CASE DialLaunches(s)
  <2> DEFINE r == [session[s] EXCEPT !.at = "launched"]
  <2>1. StepWorker(s, r) /\ session[s].at = "dialing"
    BY <1>1 DEF DialLaunches, Worker
  <2>2. PICK left \in Swept(s) : servers' = left \cup {<<s, "starting">>}
    BY <1>1 DEF DialLaunches
  <2>3. /\ r \in SessionRow /\ r.at = "launched" /\ r.open = session[s].open
        /\ r.unreleased = session[s].unreleased
    BY <1>0 DEF SessionRow, WorkerAt
  <2>4. left \subseteq servers
    BY <1>s
  <2> HIDE DEF r
  <2>5. /\ servers' \subseteq Sessions \X ServerKinds
        /\ \A x \in servers' : x[1] # s => x \in servers
    BY <1>k, <2>2, <2>4 DEF ServersFit
  <2>6. /\ <<s, "carried">> \in servers' => r.open
        /\ <<s, "unreleased">> \in servers' => r.unreleased
    BY <2>2, <2>3, <2>4 DEF ServersFit
  <2> QED
    BY <2>1, <2>3, <2>5, <2>6, ServersMove
<1>2. CASE DialOpens(s)
  <2> DEFINE r == [session[s] EXCEPT !.at = "opened", !.open = TRUE]
  <2>1. StepWorker(s, r) /\ servers' = Becomes(s, "starting", "carried")
    BY <1>2 DEF DialOpens
  <2>2. /\ r \in SessionRow /\ r.at # "absent" /\ r.open
        /\ r.unreleased = session[s].unreleased
    BY <1>0 DEF SessionRow, WorkerAt
  <2> HIDE DEF r
  <2>3. \A y \in servers' : y = <<s, "carried">> \/ (y \in servers /\ y # <<s, "starting">>)
    BY <2>1, BecomesFacts
  <2>4. /\ servers' \subseteq Sessions \X ServerKinds
        /\ \A x \in servers' : x[1] # s => x \in servers
    BY <1>k, <2>3 DEF ServersFit
  <2>5. <<s, "starting">> \notin servers'
    BY <2>3
  <2>6. <<s, "unreleased">> \in servers' => r.unreleased
    BY <2>2, <2>3 DEF ServersFit
  <2> QED
    BY <2>1, <2>2, <2>4, <2>5, <2>6, ServersMove
<1>3. CASE DialRefused(s) \/ DialFails(s)
  <2> DEFINE r == [session[s] EXCEPT !.at = "failing"]
  <2>1. StepWorker(s, r)
    BY <1>3 DEF DialRefused, DialFails
  <2>2. /\ r \in SessionRow /\ r.at # "absent" /\ r.open = session[s].open
        /\ r.unreleased = session[s].unreleased
    BY <1>0 DEF SessionRow, WorkerAt
  <2> HIDE DEF r
  <2>3. \A y \in servers' :
            y = <<s, "aborted">> \/ (y \in servers /\ y # <<s, "starting">>)
    <3>1. CASE DialRefused(s)
      <4>1. session[s].at = "dialing" /\ servers' \subseteq servers
        BY <1>s, <3>1 DEF DialRefused, Worker
      <4>2. <<s, "starting">> \notin servers
        BY <4>1 DEF ServersFit
      <4> QED
        BY <4>1, <4>2
    <3>2. CASE DialFails(s)
      <4>1. CASE servers' = servers \ {<<s, "starting">>}
        BY <4>1
      <4>2. CASE servers' = Becomes(s, "starting", "aborted")
        BY <4>2, BecomesFacts
      <4> QED
        BY <3>2, <4>1, <4>2 DEF DialFails
    <3> QED
      BY <1>3, <3>1, <3>2
  <2>4. /\ servers' \subseteq Sessions \X ServerKinds
        /\ \A x \in servers' : x[1] # s => x \in servers
    BY <1>k, <2>3 DEF ServersFit
  <2>5. <<s, "starting">> \notin servers'
    BY <2>3
  <2>6. /\ <<s, "carried">> \in servers' => r.open
        /\ <<s, "unreleased">> \in servers' => r.unreleased
    BY <2>2, <2>3 DEF ServersFit
  <2> QED
    BY <2>1, <2>2, <2>4, <2>5, <2>6, ServersMove
<1>4. CASE CloseStream(s)
  <2> DEFINE r == [session[s] EXCEPT !.open = FALSE, !.at = AfterClose(s)]
  <2>1. /\ StepWorker(s, r) /\ servers' = servers \ {<<s, "carried">>}
        /\ session[s].at \in {"replacing", "closing"}
    BY <1>4 DEF CloseStream
  <2>2. /\ r \in SessionRow /\ r.at # "absent" /\ r.unreleased = session[s].unreleased
    BY <1>0 DEF SessionRow, WorkerAt, AfterClose
  <2> HIDE DEF r
  <2>3. /\ servers' \subseteq Sessions \X ServerKinds
        /\ \A x \in servers' : x[1] # s => x \in servers
    BY <2>1 DEF ServersFit
  <2>4. /\ <<s, "starting">> \notin servers' /\ <<s, "carried">> \notin servers'
        /\ <<s, "unreleased">> \in servers' => r.unreleased
    BY <2>1, <2>2 DEF ServersFit
  <2> QED
    BY <2>1, <2>2, <2>3, <2>4, ServersMove
<1>5. CASE CloseFails(s)
  <2> DEFINE r == [session[s] EXCEPT !.open = FALSE, !.unreleased = TRUE, !.at = AfterClose(s)]
  <2>1. /\ StepWorker(s, r) /\ servers' \in LeftByClose(s)
        /\ session[s].at \in {"replacing", "closing"}
    BY <1>5 DEF CloseFails
  <2>2. r \in SessionRow /\ r.at # "absent" /\ r.unreleased
    BY <1>0 DEF SessionRow, WorkerAt, AfterClose
  <2> HIDE DEF r
  <2>3. \A y \in servers' : y = <<s, "unreleased">> \/ (y \in servers /\ y # <<s, "carried">>)
    <3>1. CASE servers' = servers \ {<<s, "carried">>}
      BY <3>1
    <3>2. CASE servers' = Becomes(s, "carried", "unreleased")
      BY <3>2, BecomesFacts
    <3> QED
      BY <2>1, <3>1, <3>2 DEF LeftByClose
  <2>4. /\ servers' \subseteq Sessions \X ServerKinds
        /\ \A x \in servers' : x[1] # s => x \in servers
    BY <1>k, <2>3 DEF ServersFit
  <2>5. <<s, "starting">> \notin servers' /\ <<s, "carried">> \notin servers'
    <3>1. <<s, "starting">> \notin servers
      BY <2>1 DEF ServersFit
    <3> QED
      BY <2>3, <3>1
  <2> QED
    BY <2>1, <2>2, <2>4, <2>5, ServersMove
<1> QED
  BY <1>1, <1>2, <1>3, <1>4, <1>5

\* Every step keeps it.
LEMMA ServersNext ==
    ASSUME MirrorInv, ServersFit, [MirrorNext]_mirrorVars
    PROVE  ServersFit'
<1>0. session \in [Sessions -> SessionRow] /\ viewer \in [Viewers -> ViewerRow]
  BY DEF MirrorInv, MirrorColumns
<1>1. ASSUME UNCHANGED <<session, servers>> PROVE ServersFit'
  BY <1>1, ServersStand
<1>2. ASSUME NEW s \in Sessions, NEW class, BeginEnd(s, class) PROVE ServersFit'
  BY <1>0, <1>2, ServersStand DEF BeginEnd, SessionRow
<1>3. ASSUME NEW s \in Sessions, FinishEnd(s) \/ TimerFires(s) PROVE ServersFit'
  BY <1>0, <1>3, ServersStand DEF FinishEnd, TimerFires, SessionRow
<1>4. ASSUME NEW v \in Viewers, ViewerStep(v) \/ CloseViewer(v) PROVE ServersFit'
  <2>1. CASE Attach(v)
    BY <1>0, <2>1, ServersStand DEF Attach, SessionRow
  <2>2. CASE RequestProfile(v)
    BY <1>0, <2>2, ServersStand DEF RequestProfile, SessionRow
  <2>3. CASE Detach(v)
    BY <1>0, <2>3, ServersStand DEF Detach, SessionRow
  <2>4. CASE CloseViewer(v)
    BY <1>1, <2>4 DEF CloseViewer
  <2> QED
    BY <1>4, <2>1, <2>2, <2>3, <2>4 DEF ViewerStep
<1>5. ASSUME NEW v \in Viewers, NEW d \in Devices, NEW purpose \in Purposes,
             StartViewer(v, d, purpose)
      PROVE  ServersFit'
  BY <1>0, <1>5, ServersStand DEF StartViewer
<1>6. ASSUME NEW s \in Sessions, WorkerStep(s) \/ ReadEnds(s) PROVE ServersFit'
  BY <1>2, <1>6, ServersWorker, ServersDevice DEF WorkerStep, WorkerEnd
<1>7. ASSUME NEW s \in Sessions, EndStep(s) \/ StopEnd(s) PROVE ServersFit'
  BY <1>2, <1>3, <1>7 DEF EndStep, IdleEnd, StopEnd
<1> QED
  BY <1>1, <1>4, <1>5, <1>6, <1>7
  DEF MirrorNext, StopBegin, StopReturns, StopNext, StopWaited, mirrorVars

\* A server on a device belongs to a session that has it to release, that was told
\* it could not, or whose dial failed.
LEMMA ServersInvariant == MirrorSpec => []ServersFit
<1>1. MirrorInit => ServersFit
  BY DEF MirrorInit, ServersFit
<1>2. MirrorInv /\ ServersFit /\ [MirrorNext]_mirrorVars => ServersFit'
  BY ServersNext
<1> QED
  BY <1>1, <1>2, MirrorInvariant, PTL DEF MirrorSpec

\* Every variable of the mirror engine keeps its type, and an idle timer never
\* waits on a session that somebody watches.
THEOREM MirrorTypes == MirrorSpec => []MirrorTypeOK
BY MirrorInvariant, ServersInvariant, MirrorInvTypes, PTL

\* Stop returns nil only when no worker runs and none holds a stream; a server that
\* a release did not take off its device makes the audit unclean, and it stays so.
THEOREM StopAndAuditAccount == MirrorSpec => []StopIsAccounted
BY MirrorInvariant, ServersInvariant, MirrorInvStop, PTL

\* The sweep of a dial reaches only what sessions left that have ended: the session
\* whose dial may still sweep is the one the engine holds for the device.
THEOREM SweepSparesTheLive == MirrorSpec => LiveServerStands
<1>1. ASSUME MirrorInv, ServersFit, [MirrorNext]_mirrorVars, NEW x \in servers \ servers',
             Live(x[1])
      PROVE  session'[x[1]] # session[x[1]]
  <2>0. x[1] \in Sessions
    BY <1>1 DEF ServersFit
  <2>1. PICK s \in Sessions : \/ DialLaunches(s) \/ DialOpens(s) \/ DialRefused(s)
                              \/ DialFails(s) \/ CloseStream(s) \/ CloseFails(s)
    BY <1>1
    DEF MirrorNext, StopBegin, StopReturns, StopNext, StopWaited, StopEnd, mirrorVars, BeginEnd,
        FinishEnd, TimerFires, IdleEnd, EndStep, ViewerStep, Attach, RequestProfile, Detach,
        CloseViewer, StartViewer, WorkerStep, BeginDial, PublishStream, NoScreen, CheckStronger,
        ReadCancelled, ReadEnds, WorkerEnd, WorkerEnded, Unpublish, MoveWorker
  <2>2. session[s] \in SessionRow /\ session \in [Sessions -> SessionRow]
    BY <1>1 DEF MirrorInv, MirrorColumns
  <2>3. session'[s] # session[s]
    <3>1. session'[s].at # session[s].at
      <4>1. CASE DialLaunches(s) \/ DialOpens(s)
        BY <2>2, <4>1 DEF DialLaunches, DialOpens, StepWorker, Worker, SessionRow
      <4>2. CASE DialRefused(s) \/ DialFails(s)
        BY <2>2, <4>2 DEF DialRefused, DialFails, StepWorker, Worker, SessionRow
      <4>3. CASE CloseStream(s)
        BY <2>2, <4>3 DEF CloseStream, AfterClose, StepWorker, SessionRow
      <4>4. CASE CloseFails(s)
        BY <2>2, <4>4 DEF CloseFails, AfterClose, StepWorker, SessionRow
      <4> QED
        BY <2>1, <4>1, <4>2, <4>3, <4>4
    <3> QED
      BY <3>1
  <2>4. ASSUME x[1] # s PROVE FALSE
    <3>1. /\ DialLaunches(s) \/ DialRefused(s)
          /\ x \in OnDevice(s) /\ session[s].at = "dialing" /\ session[s].life # "ended"
      <4>1. CASE DialLaunches(s)
        BY <1>1, <4>1 DEF DialLaunches, Swept, Worker
      <4>2. CASE DialRefused(s)
        BY <1>1, <4>2 DEF DialRefused, Swept, Worker
      <4>3. CASE DialOpens(s) \/ DialFails(s)
        BY <1>1, <2>4, <4>3 DEF DialOpens, DialFails, Becomes
      <4>4. CASE CloseStream(s) \/ CloseFails(s)
        BY <1>1, <2>4, <4>4 DEF CloseStream, CloseFails, LeftByClose, Becomes
      <4> QED
        BY <2>1, <4>1, <4>2, <4>3, <4>4
    <3>2. Live(s)
      BY <1>1, <3>1 DEF Live, MirrorInv, NamesAgree
    <3>3. \A t \in Sessions : Live(t) => registry[session[t].device] = t
      BY <1>1, MirrorInvRegistry DEF RegistryIsLive
    <3> QED
      BY <1>1, <2>0, <2>4, <3>1, <3>2, <3>3 DEF OnDevice
  <2> QED
    BY <2>3, <2>4
<1>2. MirrorInv /\ ServersFit /\ [MirrorNext]_mirrorVars =>
        [\A x \in servers \ servers' :
            Live(x[1]) => session'[x[1]] # session[x[1]]]_mirrorVars
  BY <1>1
<1> QED
  BY <1>2, MirrorInvariant, ServersInvariant, PTL DEF MirrorSpec, LiveServerStands

=============================================================================
