--------------------------- MODULE OlimexinoBoard ---------------------------
(***************************************************************************)
(* The OLIMEXINO motor controller as src/src/driver/olimexino_sim.cpp      *)
(* simulates it: the rules by which it takes host lines, and one physics   *)
(* step of its 50 ms loop.  It drives the AK80-6 (a speed) and the TA70-100 *)
(* (an angle, moved in Profile Position Mode only, held by a brake).       *)
(*                                                                         *)
(* Angles are integers in a unit finer than the telemetry's: DegGrid units *)
(* make one thousandth of a degree.  Time is abstracted: a switch of mode  *)
(* or a dwell in the settle band is over at some later step, and the host  *)
(* watchdog's clock is the flag hostSilent.                                *)
(***************************************************************************)
EXTENDS Integers

CONSTANTS
    DegGrid,      \* units of angle per digit the telemetry prints
    TaMaxDeg,     \* TA_MAX_DEG; TA_MIN_DEG is 0
    TaStepDeg,    \* the way the TA70 travels in one step
    TaSettleDeg,  \* TA_SETTLE_DEG
    AkMaxErpm     \* AK_MAX_ERPM

ASSUME BoardAssumption ==
    /\ DegGrid \in Nat \ {0} /\ TaMaxDeg \in Nat /\ TaStepDeg \in Nat \ {0}
    /\ TaMaxDeg % DegGrid = 0 /\ TaSettleDeg \in Nat /\ AkMaxErpm \in Nat

VARIABLES
    akTarget,      \* ak_target
    akActive,      \* ak_active
    taMode,        \* ta_mode: 7 is Profile Position Mode, 0 is none
    taBrake,       \* ta_brake: 1 locked, 0 released, -1 unknown after boot
    taTarget,      \* ta_target
    taActual,      \* ta_actual
    taMoveActive,  \* ta_move_active
    taSwitch,      \* ta_switch_until is set: the mode switch is under way
    taSettled,     \* ta_settled_since is set: in the settle band
    hostSeen,      \* last_host_line is set
    hostSilent,    \* last_host_line is older than HOST_TIMEOUT
    hostTimedOut   \* host_timed_out

akVars    == <<akTarget, akActive>>
switchVars == <<taMode, taBrake, taMoveActive, taSwitch>>
taVars    == <<switchVars, taTarget, taActual, taSettled>>
hostVars  == <<hostSeen, hostSilent, hostTimedOut>>
boardVars == <<akVars, taVars, hostVars>>

ProfilePosition == 7

BoundBy(x, low, high) == IF x < low THEN low ELSE IF x > high THEN high ELSE x
Distance(x, y) == IF x > y THEN x - y ELSE y - x

BoardInit ==
    /\ akTarget = 0 /\ akActive = FALSE
    /\ taMode = 0 /\ taBrake = -1 /\ taTarget = 0 /\ taActual = 0
    /\ taMoveActive = FALSE /\ taSwitch = FALSE /\ taSettled = FALSE
    /\ hostSeen = FALSE /\ hostSilent = FALSE /\ hostTimedOut = FALSE

-----------------------------------------------------------------------------
(* Host lines.  Every line, whatever it says, feeds the watchdog first.    *)

FeedWatchdog == hostSeen' = TRUE /\ hostSilent' = FALSE /\ hostTimedOut' = FALSE

\* "ping" and the lines that set RAM parameters: they only feed the watchdog.
PlainLine == FeedWatchdog /\ UNCHANGED <<akVars, taVars>>

AkStopLine == FeedWatchdog /\ akTarget' = 0 /\ akActive' = TRUE /\ UNCHANGED taVars

AkIdleLine == FeedWatchdog /\ akTarget' = 0 /\ akActive' = FALSE /\ UNCHANGED taVars

\* "ak <erpm>": a speed beyond the limit is ignored.
AkSpeedLine(erpm) ==
    /\ FeedWatchdog
    /\ \/ Distance(erpm, 0) <= AkMaxErpm /\ akTarget' = erpm /\ akActive' = TRUE
       \/ Distance(erpm, 0) > AkMaxErpm /\ UNCHANGED akVars
    /\ UNCHANGED taVars

\* "ta mode pos": refused while the AK80 turns, otherwise the drive locks and
\* starts to switch.
TaModePosRefused == akActive /\ akTarget # 0
\* Mutant: an active move survives the switch.
MutTaModePosKeepsMove ==
    /\ FeedWatchdog
    /\ \/ TaModePosRefused /\ UNCHANGED taVars
       \/ /\ ~TaModePosRefused
          /\ taMode' = 0 /\ taBrake' = 1 /\ taSwitch' = TRUE
          /\ UNCHANGED <<taMoveActive, taTarget, taActual, taSettled>>
    /\ UNCHANGED akVars
TaModePosLine ==
    /\ FeedWatchdog
    /\ \/ TaModePosRefused /\ UNCHANGED taVars
       \/ /\ ~TaModePosRefused
          /\ taMode' = 0 /\ taBrake' = 1 /\ taMoveActive' = FALSE /\ taSwitch' = TRUE
          /\ UNCHANGED <<taTarget, taActual, taSettled>>
    /\ UNCHANGED akVars

\* "ta pos" and "ta rel": taken only in position mode and with no move active.
\* Mutants: one of the two conditions is dropped.
MutAcceptsOutOfMode == ~taMoveActive
MutAcceptsDuringMove == taMode = ProfilePosition
TaAcceptsTarget == taMode = ProfilePosition /\ ~taMoveActive
TaMoveLine(deg) ==
    /\ FeedWatchdog
    /\ \/ ~TaAcceptsTarget /\ UNCHANGED taVars
       \/ /\ TaAcceptsTarget
          /\ taTarget' = BoundBy(deg, 0, TaMaxDeg)
          /\ taMoveActive' = TRUE /\ taSettled' = FALSE
          /\ UNCHANGED <<taMode, taBrake, taSwitch, taActual>>
    /\ UNCHANGED akVars
TaPosLine(deg) == TaMoveLine(deg)
TaRelLine(deg) == TaMoveLine(taActual + deg)

\* Mutants: a switch under way, or an active move, survives the abort.
MutAbortKeepsSwitch == taMode' = 0 /\ taBrake' = 1 /\ taMoveActive' = FALSE /\ UNCHANGED taSwitch
MutAbortKeepsMove == taMode' = 0 /\ taBrake' = 1 /\ taSwitch' = FALSE /\ UNCHANGED taMoveActive
TaAbort == taMode' = 0 /\ taBrake' = 1 /\ taMoveActive' = FALSE /\ taSwitch' = FALSE

TaStopLine == FeedWatchdog /\ TaAbort /\ UNCHANGED <<akVars, taTarget, taActual, taSettled>>

\* "ta brake lock" and "ta brake release".
TaBrakeLine(locked) ==
    /\ FeedWatchdog
    /\ taBrake' = IF TaAcceptsTarget THEN locked ELSE taBrake
    /\ UNCHANGED <<akVars, taMode, taMoveActive, taSwitch, taTarget, taActual, taSettled>>

StopAll ==
    /\ TaAbort /\ akTarget' = 0 /\ akActive' = FALSE
    /\ UNCHANGED <<taTarget, taActual, taSettled>>

StopAllLine == FeedWatchdog /\ StopAll

-----------------------------------------------------------------------------
(* One step of the board's loop is one of the four actions below.  A switch *)
(* under way excludes an active move (part of Interlock), so no step enters *)
(* the mode and travels.                                                   *)

HostExpired == hostSeen /\ hostSilent /\ ~hostTimedOut

HostTimeout ==
    /\ HostExpired
    /\ hostTimedOut' = TRUE /\ StopAll /\ UNCHANGED <<hostSeen, hostSilent>>

\* TA_MODE_SWITCH has passed: mode entry releases the brake.
EnterMode ==
    /\ ~HostExpired /\ taSwitch
    /\ taSwitch' = FALSE /\ taMode' = ProfilePosition /\ taBrake' = 0
    /\ taTarget' = taActual
    /\ UNCHANGED <<akVars, hostVars, taActual, taMoveActive, taSettled>>

Travelling == taMode = ProfilePosition /\ taMoveActive
\* Mutant: the step is clamped from above only.
MutTravelsUp == taActual + BoundBy(taTarget - taActual, 0, TaStepDeg)
Travelled == taActual + BoundBy(taTarget - taActual, -TaStepDeg, TaStepDeg)

\* Travel towards the target; in the settle band the dwell begins ...
Travel ==
    /\ ~HostExpired /\ Travelling
    /\ taActual' = Travelled
    /\ taSettled' = (taSettled \/ Distance(taTarget, Travelled) <= TaSettleDeg)
    /\ UNCHANGED <<akVars, hostVars, switchVars, taTarget>>

\* ... and after TA_SETTLE_DWELL in it the move is over.
Settle ==
    /\ ~HostExpired /\ Travelling /\ taSettled
    /\ Distance(taTarget, Travelled) <= TaSettleDeg
    /\ taActual' = taTarget /\ taMoveActive' = FALSE
    /\ UNCHANGED <<akVars, hostVars, taMode, taBrake, taSwitch, taTarget, taSettled>>

\* Nothing is due: no expired watchdog, no move; a switch may still take time.
Rest == ~HostExpired /\ ~Travelling /\ UNCHANGED boardVars

Step == HostTimeout \/ EnterMode \/ Travel \/ Settle \/ Rest

\* More than HOST_TIMEOUT passes with no host line.
HostFallsSilent ==
    /\ hostSeen /\ ~hostSilent
    /\ hostSilent' = TRUE /\ UNCHANGED <<akVars, taVars, hostSeen, hostTimedOut>>

-----------------------------------------------------------------------------
Erpm == -AkMaxErpm..AkMaxErpm
Deg == 0..TaMaxDeg

BoardTypeOK ==
    /\ akTarget \in Erpm /\ akActive \in BOOLEAN
    /\ taMode \in {0, ProfilePosition} /\ taBrake \in {-1, 0, 1}
    /\ taTarget \in Deg /\ taActual \in Deg
    /\ taMoveActive \in BOOLEAN /\ taSwitch \in BOOLEAN /\ taSettled \in BOOLEAN
    /\ hostSeen \in BOOLEAN /\ hostSilent \in BOOLEAN /\ hostTimedOut \in BOOLEAN

Stopped ==
    /\ akTarget = 0 /\ taMode = 0 /\ taBrake # 0
    /\ ~taMoveActive /\ ~taSwitch

\* The phases of the TA70 exclude each other: a move runs in position mode
\* only, a drive that switches its mode is locked and moves nowhere, and the
\* brake is released in position mode only (ta_mode, ta_brake, ta_move_active
\* and ta_switch_until are written by five different lines and by step()).
Interlock ==
    /\ taMoveActive => taMode = ProfilePosition
    /\ taSwitch => taMode = 0 /\ taBrake = 1
    /\ taBrake = 0 => taMode = ProfilePosition

\* Once the watchdog has tripped (step(), HOST_TIMEOUT) everything is at rest,
\* and it stays so until the host speaks again.
TrippedIsStopped == hostTimedOut => hostSeen /\ Stopped
=============================================================================
