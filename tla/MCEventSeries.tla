--------------------------- MODULE MCEventSeries ---------------------------
\* Three slots; two schedules that share one.
EXTENDS EventSeries, TLC

CONSTANTS X, Y

MCSlotsOf == (X :> {1, 2}) @@ (Y :> {2, 3})

MCSymmetry == Permutations(Id \ {Main}) \cup Permutations(Op)
=============================================================================
