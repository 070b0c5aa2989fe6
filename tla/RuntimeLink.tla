---------------------------- MODULE RuntimeLink ----------------------------
(***************************************************************************)
(* The edge runtime's link to the control plane: the connection session    *)
(* (internal/edge/connection/session.go), the bounded spool                *)
(* (internal/edge/spool/spool.go) and the RPC handlers that drive both     *)
(* (internal/transport/connect/runtime.go).                                *)
(*                                                                         *)
(* Session and spool have a mutex each, so each of their methods is one    *)
(* action.  A handler holds a third mutex across several such calls: it is *)
(* a sequence of actions, and runtime workers interleave with it.          *)
(***************************************************************************)
EXTENDS Naturals, Sequences, FiniteSets

CONSTANTS
    Workers,            \* runtime threads that drain the spool
    Keys,               \* idempotency keys of spool items
    Actions,            \* action identifiers of the session's dispatches
    MaxSize,            \* spool capacity
    Retention,          \* age above which Expire drops an item
    LastSeq,            \* bound: the last sequence number handed out
    LastFence,          \* bound: the last fence token
    Horizon             \* bound: the last instant of the clock

ASSUME RuntimeLinkAssumption ==
    /\ {Retention, LastSeq, Horizon} \subseteq Nat
    /\ {MaxSize, LastFence} \subseteq Nat \ {0}

VARIABLES
    now,                \* clock
    session,            \* Session.state
    dispatches,         \* Session.dispatches
    link, fence,        \* Queue.state, Queue.fenceToken
    items, nextSeq,     \* Queue.items, Queue.nextSeq
    byKey,              \* Queue.byKey: 0 is no entry
    handler,            \* where the handler that holds RuntimeHandler.mu stands
    hand                \* per worker, the item NextReplayable gave it: 0 is none

queueVars == <<link, fence, items, nextSeq, byKey>>
linkVars == <<now, session, dispatches, queueVars, handler, hand>>

LinkStates == {"connected", "reconnecting", "disconnected"}
Outcomes   == {"pending", "dispatched", "indeterminate", "confirmed_replay"}
Risks      == {"low", "medium", "high"}     \* irreversible is treated as high

Item == [seq : 1 .. LastSeq, key : Keys, risk : Risks, fence : 1 .. LastFence,
         at : 0 .. Horizon, sent : BOOLEAN, outcome : Outcomes]

-----------------------------------------------------------------------------
(* Queue.                                                                  *)

\* Mutant of MayEnqueue: the capacity is not tested.
MayEnqueueUnbounded(k, risk, token) ==
    /\ byKey[k] = 0
    /\ token = fence
    /\ link = "connected" \/ risk = "low"

MayEnqueue(k, risk, token) ==
    /\ byKey[k] = 0
    /\ token = fence
    /\ link = "connected" \/ risk = "low"
    /\ Len(items) < MaxSize

Enqueue(k, risk, token) ==
    /\ nextSeq <= LastSeq
    /\ MayEnqueue(k, risk, token)
    /\ items' = Append(items, [seq |-> nextSeq, key |-> k, risk |-> risk, fence |-> token,
                               at |-> now, sent |-> FALSE, outcome |-> "pending"])
    /\ nextSeq' = nextSeq + 1
    /\ byKey' = [byKey EXCEPT ![k] = nextSeq]
    /\ UNCHANGED <<now, session, dispatches, link, fence, handler, hand>>

\* Mutant of OutcomeOnDispatch: the link is not looked at.
OutcomeOnDispatchBlind == "dispatched"

OutcomeOnDispatch == IF link = "connected" THEN "dispatched" ELSE "indeterminate"

\* The worker reports that the item it holds may have left.  An item that was
\* dropped meanwhile is not found; any other is marked whatever its outcome.
MarkDispatched(w) ==
    /\ hand[w] # 0
    /\ items' = [i \in DOMAIN items |->
            IF items[i].seq = hand[w]
            THEN [items[i] EXCEPT !.sent = TRUE, !.outcome = OutcomeOnDispatch]
            ELSE items[i]]
    /\ hand' = [hand EXCEPT ![w] = 0]
    /\ UNCHANGED <<now, session, dispatches, link, fence, nextSeq, byKey, handler>>

\* While disconnected, NextReplayable first turns dispatched into indeterminate.
Swept == IF link # "disconnected" THEN items
         ELSE [i \in DOMAIN items |->
                IF items[i].outcome = "dispatched"
                THEN [items[i] EXCEPT !.outcome = "indeterminate"] ELSE items[i]]

\* Mutant of Replayable: an item whose fate is in doubt is handed out too.
ReplayableInDoubt(its) ==
    {i \in DOMAIN its : its[i].outcome \in {"pending", "indeterminate"}}

Replayable(its) == {i \in DOMAIN its : its[i].outcome = "pending"}

\* A worker asks for the first pending item; the item stays in the queue.
NextReplayable(w) ==
    /\ hand[w] = 0
    /\ items' = Swept
    /\ hand' = [hand EXCEPT ![w] =
            IF Replayable(Swept) = {} THEN 0
            ELSE Swept[CHOOSE i \in Replayable(Swept) :
                            \A j \in Replayable(Swept) : i <= j].seq]
    /\ UNCHANGED <<now, session, dispatches, link, fence, nextSeq, byKey, handler>>

\* byKey without the keys of the items that go.
Forget(gone) ==
    [k \in Keys |-> IF \E i \in gone : items[i].key = k THEN 0 ELSE byKey[k]]

\* Mutant of Kept: the last item takes the place of the one removed.
KeptSwapped(gone) ==
    LET n == Len(items)  g == CHOOSE i \in gone : TRUE IN
    IF gone = {} THEN items
    ELSE [i \in 1 .. n - 1 |-> IF i = g THEN items[n] ELSE items[i]]

\* The numbers of a finite set, ascending.
Ascending(S) == CHOOSE f \in [1 .. Cardinality(S) -> S] :
                    \A i, j \in 1 .. Cardinality(S) : i < j => f[i] < f[j]

\* The items that stay, in order.
Kept(gone) ==
    LET stay == DOMAIN items \ gone IN
    [i \in 1 .. Cardinality(stay) |-> items[Ascending(stay)[i]]]

Aged == {i \in DOMAIN items : now - items[i].at > Retention}

Expire ==
    /\ items' = Kept(Aged)
    /\ byKey' = Forget(Aged)
    /\ UNCHANGED <<now, session, dispatches, link, fence, nextSeq, handler, hand>>

-----------------------------------------------------------------------------
(* Session.                                                                *)

\* The three refusals together admit no dispatch off line, whatever its risk; an
\* entry that is already there is overwritten.
RecordDispatch(a) ==
    /\ session = "connected"
    /\ dispatches' = [dispatches EXCEPT ![a] = "accepted"]
    /\ UNCHANGED <<now, session, queueVars, handler, hand>>

ClassifyAfterDisconnect(a) ==
    /\ dispatches[a] = "accepted"
    /\ dispatches' = [dispatches EXCEPT ![a] = "indeterminate"]
    /\ UNCHANGED <<now, session, queueVars, handler, hand>>

-----------------------------------------------------------------------------
(* RuntimeHandler.  SetConnectionState is the second call of each handler. *)

SetConnectionState(state, token) ==
    /\ link' = state
    /\ fence' = IF token > 0 THEN token ELSE fence
    /\ UNCHANGED <<items, nextSeq, byKey>>

DisconnectRuntime ==
    /\ handler = "idle"
    /\ session' = "disconnected"
    /\ dispatches' = [a \in Actions |->
            IF dispatches[a] = "accepted" THEN "indeterminate" ELSE dispatches[a]]
    /\ handler' = "disconnecting"
    /\ UNCHANGED <<now, queueVars, hand>>

DisconnectSpool ==
    /\ handler = "disconnecting"
    /\ fence < LastFence
    /\ SetConnectionState("disconnected", fence + 1)
    /\ handler' = "sweeping"
    /\ UNCHANGED <<now, session, dispatches, hand>>

\* The handler calls NextReplayable for its sweep and drops what it returns.
SweepSpool ==
    /\ handler = "sweeping"
    /\ items' = Swept
    /\ handler' = "idle"
    /\ UNCHANGED <<now, session, dispatches, link, fence, nextSeq, byKey, hand>>

BeginRuntimeReconnect ==
    /\ handler = "idle"
    /\ session # "connected"
    /\ session' = "reconnecting"
    /\ handler' = "beginning"
    /\ UNCHANGED <<now, dispatches, queueVars, hand>>

BeginSpool ==
    /\ handler = "beginning"
    /\ SetConnectionState("reconnecting", 0)
    /\ handler' = "idle"
    /\ UNCHANGED <<now, session, dispatches, hand>>

\* Mutant of CompleteRuntimeReconnect: the session need not be reconnecting.
CompleteRuntimeReconnectAnytime ==
    /\ handler = "idle"
    /\ session' = "connected"
    /\ UNCHANGED <<now, dispatches, queueVars, handler, hand>>

CompleteRuntimeReconnect ==
    /\ handler = "idle"
    /\ session = "reconnecting"
    /\ session' = "connected"
    /\ handler' = "completing"
    /\ UNCHANGED <<now, dispatches, queueVars, hand>>

CompleteSpool ==
    /\ handler = "completing"
    /\ fence < LastFence
    /\ SetConnectionState("connected", fence + 1)
    /\ handler' = "idle"
    /\ UNCHANGED <<now, session, dispatches, hand>>

\* ConfirmSpoolReplay: the operator decides on an item in doubt.
ConfirmReplay(i, confirm) ==
    /\ handler = "idle"
    /\ items[i].outcome = "indeterminate"
    /\ IF confirm
       THEN /\ items' = [items EXCEPT ![i].outcome = "confirmed_replay"]
            /\ UNCHANGED byKey
       ELSE /\ items' = Kept({i})
            /\ byKey' = Forget({i})
    /\ UNCHANGED <<now, session, dispatches, link, fence, nextSeq, handler, hand>>

\* ConfirmIndeterminateAction.
ResolveIndeterminate(a) ==
    /\ handler = "idle"
    /\ dispatches[a] = "indeterminate"
    /\ dispatches' = [dispatches EXCEPT ![a] = "resolved"]
    /\ UNCHANGED <<now, session, queueVars, handler, hand>>

-----------------------------------------------------------------------------
Tick == /\ now < Horizon
        /\ now' = now + 1
        /\ UNCHANGED <<session, dispatches, queueVars, handler, hand>>

LinkInit ==
    /\ now = 0
    /\ session = "connected"
    /\ dispatches = [a \in Actions |-> "none"]
    /\ link = "connected" /\ fence = 1
    /\ items = <<>> /\ nextSeq = 1
    /\ byKey = [k \in Keys |-> 0]
    /\ handler = "idle"
    /\ hand = [w \in Workers |-> 0]

LinkNext ==
    \/ Tick
    \/ \E k \in Keys, risk \in Risks, token \in 1 .. LastFence : Enqueue(k, risk, token)
    \/ \E w \in Workers : NextReplayable(w) \/ MarkDispatched(w)
    \/ Expire
    \/ \E a \in Actions :
        \/ RecordDispatch(a)
        \/ ClassifyAfterDisconnect(a)
        \/ ResolveIndeterminate(a)
    \/ DisconnectRuntime \/ DisconnectSpool \/ SweepSpool
    \/ BeginRuntimeReconnect \/ BeginSpool
    \/ CompleteRuntimeReconnect \/ CompleteSpool
    \/ \E i \in DOMAIN items, confirm \in BOOLEAN : ConfirmReplay(i, confirm)

LinkSpec == LinkInit /\ [][LinkNext]_linkVars

-----------------------------------------------------------------------------
(* Properties.                                                             *)

\* Every variable has its type.
LinkTypeOK ==
    /\ now \in 0 .. Horizon
    /\ session \in LinkStates /\ link \in LinkStates
    /\ dispatches \in [Actions -> {"none", "accepted", "indeterminate", "resolved"}]
    /\ fence \in 1 .. LastFence
    /\ items \in Seq(Item) /\ Len(items) <= MaxSize
    /\ nextSeq \in 1 .. LastSeq + 1
    /\ byKey \in [Keys -> 0 .. LastSeq]
    /\ handler \in {"idle", "disconnecting", "sweeping", "beginning", "completing"}
    /\ hand \in [Workers -> 0 .. LastSeq]

\* The spool stays one queue through enqueues, expiry and drops in any order:
\* items are in sequence order and, with it, in fence order, and the key index
\* names exactly the item that has the key.
SpoolWellFormed ==
    /\ \A i, j \in DOMAIN items : i < j =>
            items[i].seq < items[j].seq /\ items[i].fence <= items[j].fence
    /\ \A i \in DOMAIN items : items[i].seq < nextSeq /\ items[i].fence <= fence
    /\ \A k \in Keys : byKey[k] # 0 <=>
            \E i \in DOMAIN items : items[i].key = k /\ items[i].seq = byKey[k]
    /\ \A i \in DOMAIN items : byKey[items[i].key] = items[i].seq

\* What left before a disconnect is in doubt afterwards: once DisconnectRuntime
\* has returned, and until the link is up again, no item and no action counts
\* as on its way, whatever a worker reported in the middle of the handler.
LeftBeforeDisconnectIsInDoubt ==
    /\ link # "connected" /\ handler # "sweeping"
            => \A i \in DOMAIN items : items[i].outcome # "dispatched"
    /\ session # "connected" => \A a \in Actions : dispatches[a] # "accepted"

\* An item that may have left the runtime is never handed out again: whatever
\* disconnects, sweeps and confirmations come after, only a worker that took it
\* before the first send was reported can still hold it.
NoBlindReplay ==
    [][\A w \in Workers :
        hand'[w] # hand[w] /\ hand'[w] # 0
            => \A i \in DOMAIN items : items[i].seq = hand'[w] => ~ items[i].sent
      ]_linkVars

\* Between handlers the session and the spool agree on the link.
LinkAgrees == handler = "idle" => link = session

\* The item x became y: at most its outcome moved on, never back to pending or to
\* unsent.
MovedOn(x, y) ==
    /\ y = [x EXCEPT !.sent = y.sent, !.outcome = y.outcome]
    /\ x.sent => y.sent
    /\ y.outcome = "pending" => x.outcome = "pending"

\* The item x is still in the queue its.
Survives(x, its) == \E j \in DOMAIN its : MovedOn(x, its[j])

\* Nothing leaves the spool unnoticed: an item goes only by age or, in doubt, by the
\* operator's refusal, whatever sweeps, late reports and drops of other items do.
NoSilentLoss ==
    [][\A i \in DOMAIN items :
        \/ Survives(items[i], items')
        \/ i \in Aged
        \/ items[i].outcome = "indeterminate"
      ]_linkVars

\* An item whose replay was confirmed is parked: no worker is given it, and it keeps
\* its slot and its key until it is too old.
ConfirmedIsParked ==
    [][\A i \in DOMAIN items : items[i].outcome = "confirmed_replay" =>
        /\ \A w \in Workers : hand'[w] = items[i].seq => hand[w] = items[i].seq
        /\ \/ i \in Aged
           \/ Survives(items[i], items') /\ byKey'[items[i].key] = items[i].seq
      ]_linkVars

=============================================================================
