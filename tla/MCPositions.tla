----------------------------- MODULE MCPositions -----------------------------
\* Small instances of PositionMonitor for TLC.
EXTENDS PositionMonitor

Off == [on |-> FALSE, act |-> 1, dist |-> 1]
On(a, d) == [on |-> TRUE, act |-> a, dist |-> d]

\* The defaults of the rules at a unit of five pips, with an entry ATR of two
\* units, and rules in which break-even comes after the trailing stop.
Default == [be |-> On(3, 1), trail |-> On(4, 2), atr |-> On(3, 2),
            partial |-> On(4, 1), time |-> FALSE]
Timed == [Default EXCEPT !.atr = Off, !.partial = Off, !.time = TRUE]
Late == [be |-> On(4, 0), trail |-> On(2, 1), atr |-> Off, partial |-> Off,
         time |-> FALSE]
Wide == [be |-> Off, trail |-> On(1, 3), atr |-> On(2, 1), partial |-> Off,
         time |-> FALSE]

AllRules == {Default, Timed, Late, Wide}
PriceRange == -3 .. 5
EveryOutcome == {"done", "refused", "unknown"}
OnlyTimed == {Timed}
Answered == {"done"}
=============================================================================
