---------------------------- MODULE AttemptLife ----------------------------
(***************************************************************************)
(* The life of an action attempt, as everything that keeps attempts has to *)
(* tell it: the action service (ActionKernel), the run service             *)
(* (RunLifecycle) and the edge, which sees the attempts of the action      *)
(* service one transaction at a time (EdgeRunner).  Each implements this.  *)
(*                                                                         *)
(* An attempt is authorized and sent at most once.  Once sent it may end   *)
(* up in doubt, and doubt is left only by a decision.  A decision is final *)
(* and success is decided only for what was sent.                          *)
(***************************************************************************)
CONSTANT Attempts

VARIABLE life           \* the state of each attempt

lifeVars == <<life>>

LifeInFlight == {"authorized", "dispatched"}
LifeDecided  == {"verified", "failed", "timed_out", "cancelled"}

\* What an attempt in each state may be decided as.
LifeOutcomes(st) ==
    CASE st = "authorized"    -> {"failed", "timed_out", "cancelled"}
      [] st = "dispatched"    -> LifeDecided
      [] st = "indeterminate" -> {"verified", "failed", "cancelled"}
      [] OTHER                -> {}

-----------------------------------------------------------------------------
LifeInit == life = [a \in Attempts |-> "absent"]

Authorized(a) ==
    /\ life[a] = "absent"
    /\ life' = [life EXCEPT ![a] = "authorized"]

Sent(a) ==
    /\ life[a] = "authorized"
    /\ life' = [life EXCEPT ![a] = "dispatched"]

Doubted(a) ==
    /\ life[a] = "dispatched"
    /\ life' = [life EXCEPT ![a] = "indeterminate"]

Settled(a) ==
    \E outcome \in LifeOutcomes(life[a]) : life' = [life EXCEPT ![a] = outcome]

\* An emergency stop, the cancellation of a run or a restart meets several
\* attempts in flight at once: some are cancelled, and of those that were sent
\* some are put in doubt.
Interrupted(cancelled, doubted) ==
    /\ \A a \in cancelled : life[a] \in LifeInFlight
    /\ \A a \in doubted : life[a] = "dispatched"
    /\ life' = [a \in Attempts |-> IF a \in cancelled THEN "cancelled"
                                   ELSE IF a \in doubted THEN "indeterminate"
                                   ELSE life[a]]

LifeNext ==
    \/ \E a \in Attempts : Authorized(a) \/ Sent(a) \/ Doubted(a) \/ Settled(a)
    \/ \E cancelled, doubted \in SUBSET Attempts : Interrupted(cancelled, doubted)

LifeSpec == LifeInit /\ [][LifeNext]_lifeVars

-----------------------------------------------------------------------------
\* A decision is final, an attempt is sent only from authorized, so once, and
\* what is in doubt is neither sent nor authorized again.
LifeGoesForward ==
    [][\A a \in Attempts :
        /\ life[a] \in LifeDecided => life'[a] = life[a]
        /\ life[a] = "indeterminate" =>
                life'[a] \in {"indeterminate"} \cup LifeOutcomes(life[a])
        /\ life[a] = "dispatched" => life'[a] \notin {"absent", "authorized"}
        /\ life'[a] = "dispatched" => life[a] \in LifeInFlight
        /\ life'[a] = "verified" => life[a] \notin {"absent", "authorized"}
      ]_lifeVars
=============================================================================
