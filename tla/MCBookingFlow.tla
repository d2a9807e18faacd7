--------------------------- MODULE MCBookingFlow ---------------------------
(* One or two runs of BookingFlow.                                          *)
EXTENDS BookingFlow, TLC

CONSTANTS r1, r2

OneRun == {r1}
TwoRuns == {r1, r2}
Symmetry == Permutations(Runs)
=============================================================================
