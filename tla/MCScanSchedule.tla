--------------------------- MODULE MCScanSchedule ---------------------------
(* Instances of ScanSchedule for TLC. *)
EXTENDS ScanSchedule

\* The list that may fail has the shortest, the longest or any other period; in
\* the last case no period is below MaxDelay.
FastAndSlow     == {<<1, 2, 5>>, <<5, 1, 2>>, <<4, 5, 6>>}
OneSlow         == {<<5>>}

\* The bound of OneFails for three lists, of which the first may fail.
LongestTransfer == 2
LongestConnect  == 1
WorstCase       == (2 * Lists + 1 - 3) * LongestTransfer + 2 * LongestConnect
=============================================================================
