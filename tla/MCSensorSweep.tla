---------------------------- MODULE MCSensorSweep ----------------------------
(* One sensor of each kind; the clock has run before the program starts.   *)
EXTENDS SensorSweep

MCConfig == <<"cpu", "ta_deg", "link", "weight">>
MCInterval == [s \in Sensor |-> IF s = "ta_deg" THEN 1 ELSE 2]
\* The reader thread spins, or is caught up at once.
MCUnset == {0, 3}
=============================================================================
