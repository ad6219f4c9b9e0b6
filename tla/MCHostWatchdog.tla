--------------------------- MODULE MCHostWatchdog ---------------------------
(* The board with any host on a small range of angles and speeds, and times *)
(* in the proportions of the code (keepalive 250 ms, timeout 1 s).         *)
EXTENDS HostWatchdog

\* One angle out of range on either side, so that the clamp is met.
MCHostDegs == {-2, 1, 7}
\* One speed within the limit and one beyond it.
MCHostErpms == {-1, 3}

\* One line of either kind, for the run that follows one outage.
MCOneDeg == {1}
MCOneErpm == {-1}
=============================================================================
