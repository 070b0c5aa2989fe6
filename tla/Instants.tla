------------------------------ MODULE Instants ------------------------------
(***************************************************************************)
(* Wall-clock instants as the control plane stores and compares them.      *)
(*                                                                         *)
(* An instant is a whole second and a fraction of it, in steps of          *)
(* 1/Resolution.  Go code compares parsed instants (time.Time.Before);     *)
(* the SQL statements compare the text time.RFC3339Nano produces.  That    *)
(* layout drops trailing zeros, so an instant on a whole second ends in    *)
(* "Z" where any other one has a "." and '.' sorts before 'Z': the two     *)
(* orders agree on different seconds and disagree inside one.              *)
(* Resolution is 2, 4, 5 or 10, so no fraction is a prefix of another.     *)
(***************************************************************************)
EXTENDS Integers

CONSTANT Resolution     \* clock readings per second

ASSUME ResolutionAssumption == Resolution \in Nat /\ Resolution > 0

Instant == [sec : Nat, frac : 0 .. Resolution - 1]

Zero == [sec |-> 0, frac |-> 0]

\* a.Before(b) on parsed instants.
Before(a, b) == \/ a.sec < b.sec
                \/ a.sec = b.sec /\ a.frac < b.frac

AddSeconds(t, n) == [sec |-> t.sec + n, frac |-> t.frac]

\* The clamp of a requested deadline to the deadline of its session.
Clamp(t, limit) == IF Before(limit, t) THEN limit ELSE t

\* Where a fraction sorts in RFC3339Nano text: the whole second comes last.
TextRank(frac) == IF frac = 0 THEN Resolution ELSE frac

\* a < b as SQLite compares the stored texts.
TextBefore(a, b) == \/ a.sec < b.sec
                    \/ a.sec = b.sec /\ TextRank(a.frac) < TextRank(b.frac)

\* The next reading of the clock.
Successor(t) ==
    IF t.frac + 1 < Resolution THEN [sec |-> t.sec, frac |-> t.frac + 1]
                               ELSE [sec |-> t.sec + 1, frac |-> 0]
=============================================================================
