------------------------- MODULE MCOlimexinoControl -------------------------
(* Values for the constants of OlimexinoControl.                           *)
EXTENDS OlimexinoControl

\* One angle off the telemetry's grid, and one beyond the action's range.
MCTaRequests == {1, 5}
MCOneTaRequest == {5}
\* A speed that rounds (1.5 ERPM), and one beyond the action's range.
MCAkRequests == {3, -9}
MCOneAkRequest == {3}
MCAkMin == -4
MCTaOnly == {"ta"}
MCBoth == {"ak", "ta"}
=============================================================================
