------------------------ MODULE TransportWatchProofs ------------------------
(***************************************************************************)
(* The safety properties of TransportWatch for any transports, devices and *)
(* scans.  What makes the type invariant inductive: while a poll is under  *)
(* way, everything owed is in the answer it read (so nothing owed is lost  *)
(* when that answer becomes the view), and what it found departed is not   *)
(* in that answer.                                                         *)
(***************************************************************************)
EXTENDS TransportWatch, TLAPS

PollRow == [step : {"idle", "arrivals", "departures"}, current : SUBSET Keys,
            pending : SUBSET Keys, departed : SUBSET Transports]
ScanRow == [state : {"none", "requested", "running", "seen"} \cup ScanEnded,
            saved : BOOLEAN, seen : SUBSET InScope]

\* The poll under way agrees with the answer it read.
PollAgrees ==
    /\ poll.step = "idle" => poll = NoPoll /\ unrecorded \subseteq view
    /\ poll.step # "idle" => unrecorded \subseteq poll.current
    /\ poll.pending \subseteq poll.current
    /\ poll.departed \cap Named(poll.current) = {}
    /\ ~ baseline => poll = NoPoll /\ unrecorded = {}

\* Every variable alone.
WatchColumns ==
    /\ ident \in [Transports -> Idents \cup {None}]
    /\ at \in EndpointRows
    /\ baseline \in BOOLEAN
    /\ view \subseteq Keys
    /\ poll \in PollRow
    /\ scan \in [Scans -> ScanRow]

WatchInv == WatchColumns /\ PollAgrees

\* The invariant is stronger than the type invariant.
LEMMA WatchInvTypes == WatchInv => WatchTypeOK
<1> SUFFICES ASSUME WatchInv PROVE WatchTypeOK
  OBVIOUS
<1>1. poll \in [step : {"idle", "arrivals", "departures"}, current : SUBSET Keys,
                pending : SUBSET poll.current, departed : SUBSET Transports]
  BY DEF WatchInv, WatchColumns, PollAgrees, PollRow
<1>2. unrecorded \subseteq view \cup poll.current
  BY DEF WatchInv, PollAgrees
<1> QED
  BY <1>1, <1>2 DEF WatchInv, WatchColumns, WatchTypeOK, ScanRow

\* An enumeration names transports under identifiers.
LEMMA AnswersAreKeys ==
    ASSUME WatchInv, NEW answer \in Answers
    PROVE  answer \subseteq Keys
<1>1. Attached \subseteq Keys
  BY DEF Attached, Keys, WatchInv, WatchColumns
<1> QED
  BY <1>1 DEF Answers

\* The transports of keys are transports.
LEMMA NamedTransports ==
    ASSUME NEW keys \in SUBSET Keys
    PROVE  Named(keys) \subseteq Transports
BY DEF Named, Keys

\* Between polls, and in a new process, no poll is under way.
LEMMA NoPollFacts ==
    /\ NoPoll \in PollRow
    /\ NoPoll.step = "idle" /\ NoPoll.pending = {} /\ NoPoll.departed = {}
BY DEF NoPoll, PollRow

\* An idle scan is a scan row.
LEMMA NoScanFacts == NoScan \in ScanRow
BY DEF NoScan, ScanRow

\* PollAgrees between polls.
LEMMA IdleAgrees ==
    ASSUME poll = NoPoll, unrecorded \subseteq view, ~ baseline => unrecorded = {}
    PROVE  PollAgrees
BY NoPollFacts DEF PollAgrees

\* The invariant holds when the process starts.
LEMMA WatchInitInv == WatchInit => WatchInv
<1> SUFFICES ASSUME WatchInit PROVE WatchInv
  OBVIOUS
<1>1. WatchColumns
  BY NoPollFacts, NoScanFacts DEF WatchInit, WatchColumns, EndpointRows
<1>2. PollAgrees
  BY IdleAgrees DEF WatchInit
<1> QED
  BY <1>1, <1>2 DEF WatchInv

\* Poll reads an answer: nothing owed is outside it.
LEMMA PollInv ==
    ASSUME WatchInv, NEW answer \in Answers, Poll(answer)
    PROVE  WatchInv'
<1>1. answer \subseteq Keys
  BY AnswersAreKeys
<1>2. /\ baseline /\ poll.step = "idle" /\ unrecorded \subseteq view
      /\ view \subseteq Keys
  BY DEF Poll, WatchInv, PollAgrees, WatchColumns
<1> DEFINE pending == (unrecorded \cap answer) \cup (answer \ view)
<1>3. poll' = [step |-> "arrivals", current |-> answer, pending |-> pending,
               departed |-> Departed(answer)]
  BY DEF Poll
<1>4. Departed(answer) \subseteq Transports
  BY <1>2, NamedTransports DEF Departed
<1>5. Departed(answer) \cap Named(answer) = {}
  BY DEF Departed
<1>6. /\ poll' \in PollRow
      /\ poll'.step = "arrivals" /\ poll'.current = answer
      /\ poll'.pending \subseteq answer /\ poll'.departed = Departed(answer)
  BY <1>1, <1>3, <1>4 DEF PollRow
<1>7. unrecorded' \subseteq answer
  BY <1>2 DEF Poll, StillOwed
<1>8. poll'.step # "idle"
  BY <1>6
<1>9. baseline' = TRUE /\ Named(poll.current)' = Named(answer)
  BY <1>2, <1>6 DEF Poll, Named
<1>10. PollAgrees'
  BY <1>5, <1>6, <1>7, <1>8, <1>9 DEF PollAgrees
<1>11. WatchColumns'
  BY <1>6 DEF Poll, WatchInv, WatchColumns
<1> QED
  BY <1>10, <1>11 DEF WatchInv

\* A hand-over, accepted or refused, goes on to the departures.
LEMMA ArrivalsInv ==
    ASSUME WatchInv, RecordArrivals \/ RefuseArrivals
    PROVE  WatchInv'
<1>0. poll \in PollRow /\ poll.step = "arrivals"
  BY DEF WatchInv, WatchColumns, RecordArrivals, RefuseArrivals
<1>1. poll' = [poll EXCEPT !.step = "departures"]
  BY DEF RecordArrivals, RefuseArrivals
<1>2. /\ poll' \in PollRow /\ poll'.step = "departures" /\ poll'.current = poll.current
      /\ poll'.pending = poll.pending /\ poll'.departed = poll.departed
  BY <1>0, <1>1 DEF PollRow
<1>3. /\ unrecorded \subseteq poll.current /\ poll.pending \subseteq poll.current
      /\ poll.departed \cap Named(poll.current) = {} /\ baseline
  BY <1>0, NoPollFacts DEF WatchInv, PollAgrees
<1>4. unrecorded' \subseteq poll.current
  BY <1>3 DEF RecordArrivals, RefuseArrivals
<1>5. at' \in EndpointRows /\ baseline' = baseline
  BY DEF RecordArrivals, RefuseArrivals, WatchInv, WatchColumns
<1>6. Named(poll.current)' = Named(poll.current)
  BY <1>2 DEF Named
<1>7. PollAgrees'
  BY <1>2, <1>3, <1>4, <1>5, <1>6 DEF PollAgrees
<1>8. WatchColumns'
  BY <1>2, <1>5 DEF RecordArrivals, RefuseArrivals, WatchInv, WatchColumns
<1> QED
  BY <1>7, <1>8 DEF WatchInv

\* The end of a poll: what it read becomes the view, and nothing owed is lost.
LEMMA DeparturesInv ==
    ASSUME WatchInv, RecordDepartures \/ RefuseDepartures
    PROVE  WatchInv'
<1>1. /\ poll.step = "departures" /\ view' = poll.current /\ poll' = NoPoll
      /\ UNCHANGED <<ident, baseline, unrecorded, scan>>
  BY DEF RecordDepartures, RefuseDepartures
<1>2. unrecorded \subseteq poll.current /\ poll.current \subseteq Keys /\ baseline
  BY <1>1, NoPollFacts DEF WatchInv, WatchColumns, PollAgrees, PollRow
<1>3. at' \in EndpointRows
  BY DEF RecordDepartures, RefuseDepartures, WatchInv, WatchColumns, EndpointRows
<1>4. WatchColumns'
  BY <1>1, <1>2, <1>3, NoPollFacts DEF WatchInv, WatchColumns
<1>5. PollAgrees'
  BY <1>1, <1>2, NoPollFacts DEF PollAgrees, Named
<1> QED
  BY <1>4, <1>5 DEF WatchInv

\* A scan writes scan rows and endpoints and leaves the watcher alone.
LEMMA ScanInv ==
    ASSUME WatchInv, NEW s \in Scans, ScanStep(s)
    PROVE  WatchInv'
<1>0. scan \in [Scans -> ScanRow] /\ at \in EndpointRows
  BY DEF WatchInv, WatchColumns
<1>1. scan' \in [Scans -> ScanRow] /\ at' \in EndpointRows
  <2>1. ASSUME NEW saved \in BOOLEAN, BeginScan(s, saved)
        PROVE  scan' \in [Scans -> ScanRow] /\ at' \in EndpointRows
    BY <1>0, <2>1 DEF BeginScan, ScanRow
  <2>2. ASSUME MarkScanRunning(s)
        PROVE  scan' \in [Scans -> ScanRow] /\ at' \in EndpointRows
    BY <1>0, <2>2 DEF MarkScanRunning, ScanRow
  <2>3. ASSUME NEW answer \in Answers, ScanEnumerates(s, answer)
        PROVE  scan' \in [Scans -> ScanRow] /\ at' \in EndpointRows
    BY <1>0, <2>3 DEF ScanEnumerates, ScanRow
  <2>4. ASSUME FinishScan(s)
        PROVE  scan' \in [Scans -> ScanRow] /\ at' \in EndpointRows
    <3>1. [NoScan EXCEPT !.state = "completed"] \in ScanRow
      BY DEF NoScan, ScanRow, ScanEnded
    <3>2. scan' \in [Scans -> ScanRow]
      BY <1>0, <2>4, <3>1 DEF FinishScan
    <3>3. at' \in EndpointRows
      BY <2>4 DEF FinishScan, EndpointRows
    <3> QED
      BY <3>2, <3>3
  <2>5. ASSUME FailScan(s)
        PROVE  scan' \in [Scans -> ScanRow] /\ at' \in EndpointRows
    <3>1. [NoScan EXCEPT !.state = "failed"] \in ScanRow
      BY DEF NoScan, ScanRow, ScanEnded
    <3> QED
      BY <1>0, <2>5, <3>1 DEF FailScan
  <2>6. ASSUME AbandonScan(s)
        PROVE  scan' \in [Scans -> ScanRow] /\ at' \in EndpointRows
    <3>1. [NoScan EXCEPT !.state = "abandoned"] \in ScanRow
      BY DEF NoScan, ScanRow, ScanEnded
    <3> QED
      BY <1>0, <2>6, <3>1 DEF AbandonScan
  <2> QED
    BY <2>1, <2>2, <2>3, <2>4, <2>5, <2>6 DEF ScanStep
<1>2. UNCHANGED <<ident, baseline, view, unrecorded, poll>>
  BY DEF ScanStep, BeginScan, MarkScanRunning, ScanEnumerates, FinishScan, FailScan,
         AbandonScan
<1> QED
  BY <1>1, <1>2 DEF WatchInv, WatchColumns, PollAgrees, Named

\* Every step keeps the invariant.
LEMMA WatchNextInv ==
    ASSUME WatchInv, [WatchNext]_watchVars
    PROVE  WatchInv'
<1>1. CASE UNCHANGED watchVars
  BY <1>1 DEF watchVars, WatchInv, WatchColumns, PollAgrees, Named
<1>2. ASSUME NEW t \in Transports, Detach(t) \/ \E i \in Idents : Attach(t, i)
      PROVE  WatchInv'
  BY <1>2 DEF Detach, Attach, WatchInv, WatchColumns, PollAgrees, Named
<1>3. ASSUME NEW answer \in Answers, PollBaseline(answer)
      PROVE  WatchInv'
  <2>1. answer \subseteq Keys
    BY AnswersAreKeys
  <2>2. /\ poll = NoPoll /\ unrecorded = {} /\ baseline' = TRUE /\ view' = answer
        /\ UNCHANGED <<ident, at, unrecorded, poll, scan>>
    BY <1>3 DEF PollBaseline, WatchInv, PollAgrees
  <2>3. PollAgrees'
    BY <2>2, NoPollFacts DEF PollAgrees, Named
  <2> QED
    BY <2>1, <2>2, <2>3 DEF WatchInv, WatchColumns
<1>4. CASE Restart
  <2>1. PollAgrees'
    BY <1>4, NoPollFacts DEF Restart, PollAgrees, Named
  <2>2. WatchColumns'
    BY <1>4, NoPollFacts, NoScanFacts DEF Restart, WatchInv, WatchColumns
  <2> QED
    BY <2>1, <2>2 DEF WatchInv
<1> QED
  BY <1>1, <1>2, <1>3, <1>4, PollInv, ArrivalsInv, DeparturesInv, ScanInv DEF WatchNext

\* The inductive invariant, for any transports, devices and scans.
THEOREM WatchInvariant == WatchSpec => []WatchInv
BY WatchInitInv, WatchNextInv, PTL DEF WatchSpec

\* The watcher owes an arrival only for what it has, or takes, in view.
THEOREM WatchTypes == WatchSpec => []WatchTypeOK
BY WatchInvariant, WatchInvTypes, PTL

-----------------------------------------------------------------------------
(* Who may end an endpoint.                                                *)

\* A batch of observations ends no endpoint.
LEMMA UpsertKeeps ==
    ASSUME NEW seen \in SUBSET Transports, NEW rows \in EndpointRows, Upserted(seen, rows),
           NEW d \in Devices
    PROVE  rows[d] = at[d] \/ rows[d] \in seen
BY DEF Upserted

\* An endpoint is ended by the end of a poll or of a scan whose enumeration
\* did not name its transport, and by nothing else.
THEOREM EndedWasUnseen == WatchSpec => OnlyUnseenIsEnded
<1> DEFINE ByPoll(d) == /\ poll.step = "departures" /\ poll' = NoPoll
                        /\ at[d] \notin Named(poll.current)
           ByScan(d) == \E s \in Scans : /\ scan[s].state = "seen"
                                         /\ scan'[s].state = "completed"
                                         /\ at[d] \notin scan[s].seen
<1>1. ASSUME WatchInv, [WatchNext]_watchVars, NEW d \in Devices, at[d] # None, at'[d] = None
      PROVE  ByPoll(d) \/ ByScan(d)
  <2>0. /\ poll \in PollRow /\ scan \in [Scans -> ScanRow]
        /\ poll.pending \subseteq poll.current
        /\ poll.departed \cap Named(poll.current) = {}
    BY <1>1 DEF WatchInv, WatchColumns, PollAgrees
  <2>1. CASE UNCHANGED at
    BY <1>1, <2>1
  <2>2. ASSUME RecordArrivals PROVE FALSE
    <3>1. Named(poll.pending) \subseteq Transports
      BY <2>0, NamedTransports DEF PollRow
    <3>2. PICK rows \in EndpointRows : Upserted(Named(poll.pending), rows) /\ at' = rows
      BY <2>2 DEF RecordArrivals
    <3>3. at'[d] = at[d] \/ at'[d] \in Transports
      BY <3>1, <3>2, UpsertKeeps
    <3> QED
      BY <1>1, <3>3, WatchAssumption
  <2>3. CASE RecordDepartures
    <3>1. at[d] \in poll.departed
      BY <1>1, <2>3 DEF RecordDepartures
    <3> QED
      BY <2>0, <2>3, <3>1 DEF RecordDepartures
  <2>4. ASSUME NEW s \in Scans, FinishScan(s)
        PROVE  ByScan(d)
    <3>1. PICK rows \in EndpointRows :
            /\ Upserted(scan[s].seen, rows)
            /\ at' = [x \in Devices |-> IF x \in Missing(s, rows) THEN None ELSE rows[x]]
      BY <2>4 DEF FinishScan
    <3>2. scan[s].seen \subseteq Transports
      BY <2>0, WatchAssumption DEF ScanRow
    <3>3. rows[d] = at[d] \/ rows[d] \in scan[s].seen
      BY <3>1, <3>2, UpsertKeeps
    <3>4. rows[d] # None
      BY <1>1, <3>2, <3>3, WatchAssumption
    <3>5. d \in Missing(s, rows)
      BY <1>1, <3>1, <3>4
    <3>6. at[d] \notin scan[s].seen
      BY <3>3, <3>5 DEF Missing
    <3>7. scan[s].state = "seen" /\ scan'[s].state = "completed"
      BY <2>0, <2>4 DEF FinishScan, NoScan
    <3> QED
      BY <3>6, <3>7
  <2> QED
    BY <1>1, <2>1, <2>2, <2>3, <2>4
    DEF WatchNext, ScanStep, Detach, Attach, PollBaseline, Poll, RefuseArrivals,
        RefuseDepartures, BeginScan, MarkScanRunning, ScanEnumerates, FailScan,
        AbandonScan, Restart, watchVars
<1>2. WatchInv /\ [WatchNext]_watchVars =>
        [\A d \in Devices : at[d] # None /\ at'[d] = None =>
            \/ /\ poll.step = "departures" /\ poll' = NoPoll
               /\ at[d] \notin Named(poll.current)
            \/ \E s \in Scans : /\ scan[s].state = "seen" /\ scan'[s].state = "completed"
                                /\ at[d] \notin scan[s].seen
        ]_watchVars
  BY <1>1
<1> QED
  BY <1>2, WatchInvariant, PTL DEF WatchSpec, OnlyUnseenIsEnded

-----------------------------------------------------------------------------
(* Nothing owed slips away.                                                *)

\* A committed batch gives the device of every pending arrival an endpoint.
LEMMA PendingIsRecorded ==
    ASSUME WatchInv, RecordArrivals, NEW k \in poll.pending
    PROVE  at'[DeviceOf[k[1]]] # None
<1>1. poll.pending \subseteq Keys
  BY DEF WatchInv, WatchColumns, PollRow
<1>2. k[1] \in Named(poll.pending) /\ DeviceOf[k[1]] \in Devices
  BY <1>1, WatchAssumption DEF Named, Keys
<1>3. Named(poll.pending) \subseteq Transports
  BY <1>1, NamedTransports
<1>4. Upserted(Named(poll.pending), at')
  BY DEF RecordArrivals
<1>5. CASE at'[DeviceOf[k[1]]] \in Named(poll.pending)
  BY <1>3, <1>5, WatchAssumption
<1>6. CASE at'[DeviceOf[k[1]]] \notin Named(poll.pending)
  BY <1>2, <1>4, <1>6 DEF Upserted
<1> QED
  BY <1>5, <1>6

\* A step and an arrival the watcher owes: still owed, recorded, not in the
\* answer that was read any more, or the process ended.
LEMMA OwedStep ==
    ASSUME WatchInv, [WatchNext]_watchVars, NEW k \in Owed
    PROVE  \/ k \in Owed'
           \/ poll.step = "arrivals" /\ at'[DeviceOf[k[1]]] # None
           \/ poll'.step = "arrivals" /\ k \notin poll'.current
           \/ ~ baseline'
<1>0. poll \in PollRow
  BY DEF WatchInv, WatchColumns
<1>1. ASSUME NEW answer \in Answers, Poll(answer)
      PROVE  k \in Owed' \/ (poll'.step = "arrivals" /\ k \notin poll'.current)
  <2>1. poll'.step = "arrivals" /\ poll'.current = answer
    BY <1>1 DEF Poll
  <2>2. k \in unrecorded
    BY <1>1 DEF Owed, Poll
  <2>3. k \in answer => k \in unrecorded'
    BY <1>1, <2>2 DEF Poll, StillOwed
  <2> QED
    BY <2>1, <2>3 DEF Owed
<1>2. ASSUME RecordArrivals
      PROVE  k \in Owed' \/ (poll.step = "arrivals" /\ at'[DeviceOf[k[1]]] # None)
  <2>1. CASE k \in poll.pending
    BY <1>2, <2>1, PendingIsRecorded DEF RecordArrivals
  <2>2. CASE k \notin poll.pending
    BY <1>2, <2>2 DEF Owed, RecordArrivals
  <2> QED
    BY <2>1, <2>2
<1>3. ASSUME RefuseArrivals PROVE k \in Owed'
  BY <1>3 DEF Owed, RefuseArrivals
<1>4. ASSUME RecordDepartures \/ RefuseDepartures PROVE k \in Owed'
  BY <1>4 DEF Owed, RecordDepartures, RefuseDepartures
<1>5. ASSUME UNCHANGED <<unrecorded, poll>> PROVE k \in Owed'
  BY <1>5 DEF Owed
<1> QED
  BY <1>1, <1>2, <1>3, <1>4, <1>5
  DEF WatchNext, ScanStep, Detach, Attach, PollBaseline, BeginScan, MarkScanRunning,
      ScanEnumerates, FinishScan, FailScan, AbandonScan, Restart, watchVars

\* Between a refused hand-over and the next poll no arrival is lost: it is owed
\* until it is recorded, until the adapter answers without it, or until a restart.
THEOREM OwedIsKept == WatchSpec => OwedUntilRecorded
<1>1. WatchInv /\ [WatchNext]_watchVars =>
        [\A k \in Owed :
            \/ k \in Owed'
            \/ poll.step = "arrivals" /\ at'[DeviceOf[k[1]]] # None
            \/ poll'.step = "arrivals" /\ k \notin poll'.current
            \/ ~ baseline'
        ]_watchVars
  BY OwedStep
<1> QED
  BY <1>1, WatchInvariant, PTL DEF WatchSpec, OwedUntilRecorded

=============================================================================
