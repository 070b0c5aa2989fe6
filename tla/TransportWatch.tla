--------------------------- MODULE TransportWatch ---------------------------
(***************************************************************************)
(* How the registry learns where devices are: the transport watcher of     *)
(* internal/product/transport_watcher.go, the startup scan and the scans   *)
(* an operator asks for (internal/product/startup_scan.go,                 *)
(* internal/discovery/service.go), and the endpoint rows they write        *)
(* (internal/store/sqlite/registry.go).                                    *)
(*                                                                         *)
(* A transport is what a departure is recorded against: a serial with the  *)
(* address it answers at.  The adapter gives it an identifier of its own,  *)
(* which changes when it is registered again.  An enumeration is a set of  *)
(* <<transport, identifier>> pairs.  A poll enumerates first and writes    *)
(* afterwards, in two transactions; a scan enumerates and writes in one.   *)
(* Transports come and go, and the other writer commits, in between.       *)
(***************************************************************************)
EXTENDS Naturals, FiniteSets

CONSTANTS
    Transports,
    Devices,            \* device rows
    DeviceOf,           \* the row deviceIDForObservation resolves to
    AddressOf,          \* observedTransportAddress; a USB serial has none
    InScope,            \* USB transports and hosts of the saved profile
    Idents,             \* transport identifiers of the adapter
    MayAnswerEmpty,     \* whether the adapter may answer empty out of turn
    Scans,              \* "startup", begun once per process, and others
    None                \* NULL

ASSUME WatchAssumption ==
    /\ DeviceOf \in [Transports -> Devices]
    /\ InScope \subseteq Transports
    /\ \A t, u \in Transports :
        AddressOf[t] = AddressOf[u] => (t \in InScope <=> u \in InScope)
    /\ MayAnswerEmpty \in BOOLEAN
    /\ None \notin Transports \cup Idents

VARIABLES
    ident,              \* the identifier a transport answers under, None if away
    at,                 \* the transport of the current endpoint row of a device
    baseline,           \* haveBaseline of watch
    view,               \* attached of watch: the previous answer
    unrecorded,         \* TransportWatcher.unrecorded, by transportKey
    poll,               \* the poll under way
    scan                \* scan_runs under way, with what their scanner saw

watchVars == <<ident, at, baseline, view, unrecorded, poll, scan>>

Keys == Transports \X Idents
Named(keys) == {k[1] : k \in keys}      \* transportRecordKey of each

\* Finished, recorded as failed, or given up with the run row left as it was.
ScanEnded == {"completed", "failed", "abandoned"}

NoPoll == [step |-> "idle", current |-> {}, pending |-> {}, departed |-> {}]
NoScan == [state |-> "none", saved |-> FALSE, seen |-> {}]

Attached == {<<t, ident[t]>> : t \in {u \in Transports : ident[u] # None}}

\* What Enumerate may answer.  A server that just restarted answers empty; a
\* failed enumeration leaves everything as it was.
Answers == {Attached} \cup (IF MayAnswerEmpty THEN {{}} ELSE {})

-----------------------------------------------------------------------------
\* Cables, hubs and networks.
Attach(t, i) ==
    /\ ident[t] # i
    /\ ident' = [ident EXCEPT ![t] = i]
    /\ UNCHANGED <<at, baseline, view, unrecorded, poll, scan>>

Detach(t) ==
    /\ ident[t] # None
    /\ ident' = [ident EXCEPT ![t] = None]
    /\ UNCHANGED <<at, baseline, view, unrecorded, poll, scan>>

-----------------------------------------------------------------------------
\* The first readable answer is what later ones are compared with.
PollBaseline(answer) ==
    /\ ~ baseline
    /\ baseline' = TRUE
    /\ view' = answer
    /\ UNCHANGED <<ident, at, unrecorded, poll, scan>>

\* An empty answer while transports are in view is not read as absence.
Readable(answer) == answer = {} => view = {}

\* Mutant of Departed: the identifier decides, not the transport.
DepartedByKey(answer) == Named(view \ answer)

\* What left: a transport that answers under another identifier did not.
Departed(answer) == Named(view \ answer) \ Named(answer)

\* Mutant of StillOwed: what left is owed for ever.
StillOwedAll(answer) == unrecorded

\* An arrival that left, or answers under another identifier, is not owed.
StillOwed(answer) == unrecorded \ (view \ answer)

\* poll, up to the hand-over: new keys and those still owed are pending.
Poll(answer) ==
    /\ baseline /\ poll.step = "idle"
    /\ Readable(answer)
    /\ unrecorded' = StillOwed(answer)
    /\ poll' = [step     |-> "arrivals",
                current  |-> answer,
                pending  |-> (unrecorded \cap answer) \cup (answer \ view),
                departed |-> Departed(answer)]
    /\ UNCHANGED <<ident, at, baseline, view, scan>>

\* persistObservation for a batch: one current endpoint per device.  upsertEndpoint
\* compares addresses: the row stays, with the serial it has, while every transport
\* of the batch answers at its address; otherwise it moves to one of the batch (the
\* last one in an order left open here).
Upserted(seen, rows) ==
    \A d \in Devices :
        LET ofDevice == {t \in seen : DeviceOf[t] = d} IN
        IF \A t \in ofDevice : at[d] # None /\ AddressOf[t] = AddressOf[at[d]]
            THEN rows[d] = at[d] ELSE rows[d] \in ofDevice

EndpointRows == [Devices -> Transports \cup {None}]

\* recordArrivals, the sink accepting.
RecordArrivals ==
    /\ poll.step = "arrivals"
    /\ at' \in {rows \in EndpointRows : Upserted(Named(poll.pending), rows)}
    /\ unrecorded' = unrecorded \ poll.pending
    /\ poll' = [poll EXCEPT !.step = "departures"]
    /\ UNCHANGED <<ident, baseline, view, scan>>

\* Mutant of RefuseArrivals: a refused batch is not remembered.
RefuseArrivalsForgotten ==
    /\ poll.step = "arrivals" /\ poll.pending # {}
    /\ poll' = [poll EXCEPT !.step = "departures"]
    /\ UNCHANGED <<ident, at, baseline, view, unrecorded, scan>>

\* recordArrivals, the sink refusing: the batch is owed to a later poll.
RefuseArrivals ==
    /\ poll.step = "arrivals" /\ poll.pending # {}
    /\ unrecorded' = unrecorded \cup poll.pending
    /\ poll' = [poll EXCEPT !.step = "departures"]
    /\ UNCHANGED <<ident, at, baseline, view, scan>>

\* recordDepartures, and poll returns.  Only the endpoint that is current
\* under the transport that left is superseded.
RecordDepartures ==
    /\ poll.step = "departures"
    /\ at' = [d \in Devices |-> IF at[d] \in poll.departed THEN None ELSE at[d]]
    /\ view' = poll.current
    /\ poll' = NoPoll
    /\ UNCHANGED <<ident, baseline, unrecorded, scan>>

\* A refused batch of departures is counted and not tried again.
RefuseDepartures ==
    /\ poll.step = "departures" /\ poll.departed # {}
    /\ view' = poll.current
    /\ poll' = NoPoll
    /\ UNCHANGED <<ident, at, baseline, unrecorded, scan>>

-----------------------------------------------------------------------------
\* BeginScan and MarkScanRunning.  The startup scan names the default profile
\* and is begun once per process; an entered range has no profile.
BeginScan(s, saved) ==
    /\ scan[s].state \in IF s = "startup" THEN {"none"} ELSE {"none"} \cup ScanEnded
    /\ s = "startup" => saved
    /\ scan' = [scan EXCEPT ![s] = [state |-> "requested", saved |-> saved, seen |-> {}]]
    /\ UNCHANGED <<ident, at, baseline, view, unrecorded, poll>>

MarkScanRunning(s) ==
    /\ scan[s].state = "requested"
    /\ scan' = [scan EXCEPT ![s].state = "running"]
    /\ UNCHANGED <<ident, at, baseline, view, unrecorded, poll>>

\* AuthorizedLabScanner.Scan: what the bounds admit of one enumeration.
ScanEnumerates(s, answer) ==
    /\ scan[s].state = "running"
    /\ scan' = [scan EXCEPT ![s].state = "seen",
                            ![s].seen = Named(answer) \cap InScope]
    /\ UNCHANGED <<ident, at, baseline, view, unrecorded, poll>>

\* reconcileMissingEndpoints: current endpoints in scope that were not seen.
Missing(s, rows) ==
    {d \in Devices : scan[s].saved /\ rows[d] \in InScope \ scan[s].seen}

\* FinishScan: one transaction over an enumeration that may be old by now.
FinishScan(s) ==
    /\ scan[s].state = "seen"
    /\ \E rows \in EndpointRows :
        /\ Upserted(scan[s].seen, rows)
        /\ at' = [d \in Devices |-> IF d \in Missing(s, rows) THEN None ELSE rows[d]]
    /\ scan' = [scan EXCEPT ![s] = [NoScan EXCEPT !.state = "completed"]]
    /\ UNCHANGED <<ident, baseline, view, unrecorded, poll>>

\* FailScan: the enumeration failed or is not valid, or the startup scan's context
\* ended before its run was finished, wherever it was (recordInterruptedRun).
FailScan(s) ==
    /\ \/ scan[s].state = "running"
       \/ s = "startup" /\ scan[s].state \in {"requested", "seen"}
    /\ scan' = [scan EXCEPT ![s] = [NoScan EXCEPT !.state = "failed"]]
    /\ UNCHANGED <<ident, at, baseline, view, unrecorded, poll>>

\* A write of the scan failed, MarkScanRunning, FinishScan or FailScan: runScan
\* returns and the run stays requested or running.
AbandonScan(s) ==
    /\ scan[s].state \in {"requested", "running", "seen"}
    /\ scan' = [scan EXCEPT ![s] = [NoScan EXCEPT !.state = "abandoned"]]
    /\ UNCHANGED <<ident, at, baseline, view, unrecorded, poll>>

\* The process ends and starts again: only the endpoint rows are kept.
Restart ==
    /\ baseline' = FALSE
    /\ view' = {}
    /\ unrecorded' = {}
    /\ poll' = NoPoll
    /\ scan' = [s \in Scans |-> NoScan]
    /\ UNCHANGED <<ident, at>>

-----------------------------------------------------------------------------
WatchInit ==
    /\ ident \in [Transports -> Idents \cup {None}]
    /\ at = [d \in Devices |-> None]
    /\ baseline = FALSE
    /\ view = {}
    /\ unrecorded = {}
    /\ poll = NoPoll
    /\ scan = [s \in Scans |-> NoScan]

ScanStep(s) ==
    \/ \E saved \in BOOLEAN : BeginScan(s, saved)
    \/ MarkScanRunning(s)
    \/ \E answer \in Answers : ScanEnumerates(s, answer)
    \/ FinishScan(s)
    \/ FailScan(s)
    \/ AbandonScan(s)

WatchNext ==
    \/ \E t \in Transports : Detach(t) \/ \E i \in Idents : Attach(t, i)
    \/ \E answer \in Answers : PollBaseline(answer) \/ Poll(answer)
    \/ RecordArrivals \/ RefuseArrivals
    \/ RecordDepartures \/ RefuseDepartures
    \/ \E s \in Scans : ScanStep(s)
    \/ Restart

\* The watcher polls for as long as the process lives; the enumeration is
\* readable and the store accepts a batch again and again, and a scan that
\* was begun is carried on.
WatchFairness ==
    /\ WF_watchVars(PollBaseline(Attached))
    /\ SF_watchVars(Poll(Attached))
    /\ SF_watchVars(RecordArrivals)
    /\ WF_watchVars(RecordDepartures \/ RefuseDepartures)
    /\ \A s \in Scans : WF_watchVars(
            \/ MarkScanRunning(s) \/ ScanEnumerates(s, Attached)
            \/ FinishScan(s) \/ FailScan(s) \/ AbandonScan(s))

WatchSpec == WatchInit /\ [][WatchNext]_watchVars /\ WatchFairness

-----------------------------------------------------------------------------
\* The watcher holds keys of enumerations; an arrival is owed only for a
\* transport the watcher has in view or is about to take into view.
WatchTypeOK ==
    /\ ident \in [Transports -> Idents \cup {None}]
    /\ at \in EndpointRows
    /\ baseline \in BOOLEAN
    /\ view \subseteq Keys
    /\ unrecorded \subseteq view \cup poll.current
    /\ poll \in [step : {"idle", "arrivals", "departures"}, current : SUBSET Keys,
                 pending : SUBSET poll.current, departed : SUBSET Transports]
    /\ scan \in [Scans -> [state : {"none", "requested", "running", "seen"} \cup ScanEnded,
                           saved : BOOLEAN, seen : SUBSET InScope]]

\* A device loses its endpoint only to an enumeration that did not name the
\* transport: neither a poll whose answer has the transport under a new
\* identifier nor a scan that saw it ends the endpoint, whatever the other
\* writer committed in between.
OnlyUnseenIsEnded ==
    [][\A d \in Devices :
        at[d] # None /\ at'[d] = None =>
            \/ /\ poll.step = "departures" /\ poll' = NoPoll
               /\ at[d] \notin Named(poll.current)
            \/ \E s \in Scans : /\ scan[s].state = "seen" /\ scan'[s].state = "completed"
                                /\ at[d] \notin scan[s].seen
      ]_watchVars

\* An arrival the watcher took up reaches the registry although the store
\* refused it and the transport was registered anew meanwhile: in the end
\* its device has a current endpoint, unless the transport leaves or the
\* process ends first.
ArrivalsAreRecorded ==
    \A t \in Transports :
        (poll.step = "arrivals" /\ t \in Named(poll.pending))
            ~> (at[DeviceOf[t]] # None \/ ident[t] = None \/ ~ baseline)

\* What the watcher still has to hand over.
Owed == unrecorded \cup (IF poll.step = "arrivals" THEN poll.pending ELSE {})

\* No arrival slips away between a refused hand-over and the next poll: what
\* the watcher owes it goes on owing until a batch with it is committed, an
\* enumeration no longer has it under that identifier, or the process ends.
OwedUntilRecorded ==
    [][\A k \in Owed :
        \/ k \in Owed'
        \/ poll.step = "arrivals" /\ at'[DeviceOf[k[1]]] # None
        \/ poll'.step = "arrivals" /\ k \notin poll'.current
        \/ ~ baseline'
      ]_watchVars

\* What the comments on the watcher say: the startup scan covers what is
\* attached when the process starts and the watcher what attaches after it.
\* So once the startup scan completed and the watcher has its first view, a
\* transport that stays attached has, or gets, its device a current endpoint.
AttachedReachesRegistry ==
    \A t \in InScope :
        (/\ ident[t] # None /\ baseline
         /\ \E s \in Scans \cap {"startup"} : scan[s].state = "completed")
            ~> (at[DeviceOf[t]] # None \/ ident[t] = None \/ ~ baseline)

=============================================================================
