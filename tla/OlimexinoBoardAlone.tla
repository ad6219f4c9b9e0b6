------------------------- MODULE OlimexinoBoardAlone -------------------------
(***************************************************************************)
(* The board with any host: every line it understands, in any order,       *)
(* interleaved with its own loop.  What holds here holds whatever the       *)
(* client sends.                                                           *)
(***************************************************************************)
EXTENDS OlimexinoBoard

CONSTANTS
    HostDegs,   \* angles a host may put into "ta pos" and "ta rel"
    HostErpms   \* speeds a host may put into "ak"

\* Hypothesis of the theorems about any host.
HostAssumption == HostDegs \subseteq Int /\ HostErpms \subseteq Int

\* handle(): one line of the host.
HostLine ==
    \/ PlainLine
    \/ AkStopLine
    \/ AkIdleLine
    \/ \E erpm \in HostErpms : AkSpeedLine(erpm)
    \/ TaModePosLine
    \/ \E deg \in HostDegs : TaPosLine(deg)
    \/ \E deg \in HostDegs : TaRelLine(deg)
    \/ TaStopLine
    \/ \E locked \in {0, 1} : TaBrakeLine(locked)
    \/ StopAllLine

Next == HostLine \/ Step \/ HostFallsSilent

Spec == BoardInit /\ [][Next]_boardVars

\* The loop never stops; the mode switch and the dwell in the settle band
\* take a bounded time, so the step that finds them over comes.
FairSpec ==
    /\ Spec
    /\ WF_boardVars(Step)
    /\ SF_boardVars(EnterMode)
    /\ SF_boardVars(Settle)

\* A move that is taken ends, by settling or by an abort, so a target refused
\* "during a move" can be sent again: nothing a host sends meanwhile can
\* restart the way to the target or the dwell of step().
MoveEnds == taMoveActive ~> ~taMoveActive
=============================================================================
