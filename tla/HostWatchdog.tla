---------------------------- MODULE HostWatchdog ----------------------------
(***************************************************************************)
(* The board's host watchdog in counted time: a client that pings, loses   *)
(* its ground station, crashes and comes back, a port that is lost and     *)
(* reopened, and the board of OlimexinoBoardAlone on its own loop, which   *)
(* runs on meanwhile.  The flag hostSilent of the board is here an age of  *)
(* the last host line.                                                     *)
(***************************************************************************)
EXTENDS Integers

CONSTANTS
    DegGrid, TaMaxDeg, TaStepDeg, TaSettleDeg, AkMaxErpm, HostDegs, HostErpms,
    WatchdogTimeout,  \* HOST_TIMEOUT
    KeepalivePeriod,  \* KEEPALIVE_PERIOD
    PingLateness,     \* how late the keepalive thread may wake up
    BoardPeriod,      \* the longest time between two steps of the board
    RestartDelay      \* the sleep of autostart.bash before the client starts

ASSUME WatchdogAssumption ==
    /\ WatchdogTimeout \in Nat /\ KeepalivePeriod \in Nat \ {0} /\ PingLateness \in Nat
    /\ BoardPeriod \in Nat \ {0} /\ RestartDelay \in Nat
    /\ KeepalivePeriod + PingLateness <= WatchdogTimeout
    /\ WatchdogTimeout + BoardPeriod < RestartDelay

VARIABLES
    akTarget, akActive,
    taMode, taBrake, taTarget, taActual, taMoveActive, taSwitch, taSettled,
    hostSeen, hostTimedOut,
    client,    \* down, waiting for the ground station, running with it, alone
    portOpen,  \* the client's fd is open
    lineAge,   \* time since last_host_line
    pingAge,   \* time since the keepalive thread went to sleep
    stepAge,   \* time since the board's last step
    downFor,   \* time since the client ended
    openFor,   \* history: time since the port was opened
    outage     \* history: what became of the stop of this outage

HostSilent == lineAge > WatchdogTimeout
Board == INSTANCE OlimexinoBoardAlone WITH hostSilent <- HostSilent

ASSUME BoardConstants == Board!BoardAssumption /\ Board!HostAssumption

motorVars == <<akTarget, akActive, taMode, taBrake, taTarget, taActual,
               taMoveActive, taSwitch, taSettled, hostSeen, hostTimedOut>>
boardKeeps == <<motorVars, lineAge, stepAge>>
clientVars == <<client, portOpen, pingAge, downFor, openFor, outage>>
vars == <<motorVars, clientVars, lineAge, stepAge>>

\* The board and the Pi are switched on; ages stop at RestartDelay, beyond
\* every time that is compared with them.
Init ==
    /\ akTarget = 0 /\ akActive = FALSE
    /\ taMode = 0 /\ taBrake = -1 /\ taTarget = 0 /\ taActual = 0
    /\ taMoveActive = FALSE /\ taSwitch = FALSE /\ taSettled = FALSE
    /\ hostSeen = FALSE /\ hostTimedOut = FALSE
    /\ client = "down" /\ portOpen = FALSE /\ outage = "none"
    /\ lineAge = 0 /\ pingAge = 0 /\ stepAge = 0 /\ downFor = 0 /\ openFor = 0

Older(age) == IF age < RestartDelay THEN age + 1 ELSE age

\* So long without a host line that the board must have stopped everything.
Overdue(age) == age > WatchdogTimeout + BoardPeriod

-----------------------------------------------------------------------------
\* A line that the board takes, and send(): it returns false while the port is
\* closed, and nobody looks at that.
Deliver(Line) == lineAge' = 0 /\ Line /\ UNCHANGED stepAge
Send(Line) == IF portOpen THEN Deliver(Line) ELSE UNCHANGED boardKeeps

\* keepalive_loop(): a ping, then sleep_for(KEEPALIVE_PERIOD).  The thread
\* starts with the link, before there is a ground station.
\* Mutant: no ping is sent before there is one.
PingDue == client # "down" /\ pingAge >= KeepalivePeriod
MutPingsWhenRunning ==
    /\ PingDue /\ pingAge' = 0
    /\ IF client = "waiting" THEN UNCHANGED boardKeeps ELSE Send(Board!PlainLine)
    /\ UNCHANGED <<client, portOpen, downFor, openFor, outage>>
Ping ==
    /\ PingDue /\ pingAge' = 0 /\ Send(Board!PlainLine)
    /\ UNCHANGED <<client, portOpen, downFor, openFor, outage>>

\* The actions of a running client may send any line; commands that came with
\* the outage, or during it, are carried out too, and end its standstill.
ClientLine ==
    /\ client \in {"running", "alone"} /\ portOpen /\ Deliver(Board!HostLine)
    /\ outage' = IF client = "alone" THEN "commanded" ELSE outage
    /\ UNCHANGED <<client, portOpen, pingAge, downFor, openFor>>

\* Without any command update() resends its pending target, alone or not (with
\* a ground station it is one of the lines above).
Resend ==
    /\ client = "alone" /\ portOpen
    /\ Deliver(\E deg \in HostDegs : Board!TaPosLine(deg)) /\ UNCHANGED clientVars

\* main() has found a ground station, ...
GsConnects ==
    /\ client = "waiting" /\ client' = "running"
    /\ UNCHANGED <<boardKeeps, portOpen, pingAge, downFor, openFor, outage>>

\* ... loses it and sends "stop all", once, ...
\* Mutant: it stops the AK80 only.
LossNoticed == client = "running" /\ client' = "alone"
LossOutcome == IF portOpen \/ Overdue(lineAge) THEN "stopped" ELSE "undelivered"
MutStopsAkOnly ==
    /\ LossNoticed /\ Send(Board!AkStopLine) /\ outage' = LossOutcome
    /\ UNCHANGED <<portOpen, pingAge, downFor, openFor>>
GsIsLost ==
    /\ LossNoticed /\ Send(Board!StopAllLine) /\ outage' = LossOutcome
    /\ UNCHANGED <<portOpen, pingAge, downFor, openFor>>

\* ... and has it again.
GsReturns ==
    /\ client = "alone" /\ client' = "running" /\ outage' = "none"
    /\ UNCHANGED <<boardKeeps, portOpen, pingAge, downFor, openFor>>

\* The client ends, at any point of its program; its port is closed with it.
Crash ==
    /\ client # "down" /\ client' = "down" /\ downFor' = 0 /\ portOpen' = FALSE
    /\ outage' = "none"
    /\ UNCHANGED <<boardKeeps, pingAge, openFor>>

\* autostart.bash sleeps, then the client starts its link, which pings at once.
\* Mutant: no sleep.
MutRestartsAtOnce == client = "down"
RestartDue == client = "down" /\ downFor >= RestartDelay
Restart ==
    /\ RestartDue /\ client' = "waiting" /\ pingAge' = KeepalivePeriod
    /\ UNCHANGED <<boardKeeps, portOpen, downFor, openFor, outage>>

\* The reader thread finds the device, or loses it (cable, reset of the board's
\* USB; the board itself runs on).  After a loss it tries again at once.
PortOpens ==
    /\ client # "down" /\ ~portOpen /\ portOpen' = TRUE /\ openFor' = 0
    /\ UNCHANGED <<boardKeeps, client, pingAge, downFor, outage>>
PortIsLost ==
    /\ portOpen /\ portOpen' = FALSE
    /\ UNCHANGED <<boardKeeps, client, pingAge, downFor, openFor, outage>>

\* One pass of the board's loop, at the latest BoardPeriod after the last.
BoardStep == stepAge' = 0 /\ UNCHANGED <<clientVars, lineAge>> /\ Board!Step

\* One unit of time, while no thread is overdue.
Tick ==
    /\ client # "down" => pingAge < KeepalivePeriod + PingLateness
    /\ stepAge < BoardPeriod
    /\ lineAge' = IF hostSeen THEN Older(lineAge) ELSE lineAge
    /\ pingAge' = IF client # "down" THEN pingAge + 1 ELSE pingAge
    /\ stepAge' = stepAge + 1
    /\ downFor' = IF client = "down" THEN Older(downFor) ELSE downFor
    /\ openFor' = IF portOpen THEN Older(openFor) ELSE openFor
    /\ outage' = IF outage = "undelivered" /\ Overdue(lineAge') THEN "stopped" ELSE outage
    /\ UNCHANGED <<motorVars, client, portOpen>>

Next ==
    \/ Ping \/ ClientLine \/ Resend
    \/ GsConnects \/ GsIsLost \/ GsReturns \/ Crash \/ Restart
    \/ PortOpens \/ PortIsLost \/ BoardStep \/ Tick

Spec == Init /\ [][Next]_vars

\* Time passes (the deadlines in Tick then make the threads run), and as in
\* OlimexinoBoardAlone a switch and a dwell are finite.
FairSpec ==
    /\ Spec
    /\ WF_vars(Tick) /\ WF_vars(BoardStep) /\ WF_vars(Ping)
    /\ SF_vars(BoardStep /\ Board!EnterMode) /\ SF_vars(BoardStep /\ Board!Settle)

-----------------------------------------------------------------------------
(* Properties of the board with a client that may fail at any moment.      *)

WatchdogTypeOK ==
    /\ Board!BoardTypeOK
    /\ client \in {"down", "waiting", "running", "alone"} /\ portOpen \in BOOLEAN
    /\ lineAge \in 0..RestartDelay /\ downFor \in 0..RestartDelay /\ openFor \in 0..RestartDelay
    /\ pingAge \in 0..KeepalivePeriod + PingLateness /\ stepAge \in 0..BoardPeriod
    /\ outage \in {"none", "undelivered", "stopped", "commanded"}

\* A move runs in position mode only, a switch is locked (olimexino_sim.cpp).
Interlock == Board!Interlock

\* A tripped watchdog means standstill until the host speaks again.
TrippedIsStopped == Board!TrippedIsStopped

\* A move that is taken ends, by settling or by an abort, so that a target
\* refused "during a move" can be sent again.
MoveEnds == Board!MoveEnds

\* src/README.md:87: "the board stops everything by itself when the Pi stops
\* talking (crash, cable)": at the latest a step after the timeout all is at
\* rest, wherever the silence caught a move or a switch.
SilentIsStopped == lineAge > WatchdogTimeout + BoardPeriod => Board!Stopped

\* A client that comes back begins with a board at rest, and its pings, which
\* quieten the watchdog before anybody can command, set nothing going.
WaitingIsStandstill == client = "waiting" => Board!Stopped

\* One keepalive period after the port opened the watchdog is quiet, and it
\* stays so as long as the port is open, whatever the operator does or not.
LiveIsNotTripped ==
    portOpen /\ openFor > KeepalivePeriod + PingLateness
        => hostSeen /\ ~hostTimedOut /\ lineAge <= KeepalivePeriod + PingLateness

\* An outage of the ground station is a standstill from the moment the "stop
\* all" arrives or, where the port was closed, the watchdog must have tripped:
\* no ping after the port reopens and no retry of a pending target ends it,
\* only a command does, or the ground station's return.
QuietOutage == outage = "stopped" => Board!Stopped

-----------------------------------------------------------------------------
(* A claim of the documentation that the code does not keep.               *)

\* src/src/main.cpp:247: "Without the ground station nobody can stop the
\* motors: the board would keep the AK80 turning, so stop everything there".
\* Asked only of an outage without commands whose port is open again for good:
\* a stop that was sent into the closed port must then be made up for.
StopAllArrives ==
    outage = "undelivered" /\ portOpen
        ~> akTarget = 0 \/ ~portOpen \/ outage # "undelivered"
=============================================================================
