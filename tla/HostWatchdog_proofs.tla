------------------------- MODULE HostWatchdog_proofs -------------------------
(* Theorems about HostWatchdog: a silent client's motors stop in time, a   *)
(* restarted one finds them at rest, and an outage leaves them so.         *)
EXTENDS HostWatchdog, TLAPS

-----------------------------------------------------------------------------
(* The untimed board, with any host.                                      *)

BoardInv == Board!BoardTypeOK /\ Board!Interlock /\ Board!TrippedIsStopped

LEMMA ZeroErpm == 0 \in Board!Erpm
  BY BoardConstants DEF Board!BoardAssumption, Board!Erpm

LEMMA BoardInitInv == Board!BoardInit => BoardInv
<1> SUFFICES ASSUME Board!BoardInit PROVE BoardInv
  OBVIOUS
<1>1. 0 \in Board!Erpm /\ 0 \in Board!Deg
  BY BoardConstants DEF Board!BoardAssumption, Board!Erpm, Board!Deg
<1>2. Board!BoardTypeOK
  BY <1>1 DEF Board!BoardInit, Board!BoardTypeOK
<1>3. Board!Interlock /\ Board!TrippedIsStopped
  BY DEF Board!BoardInit, Board!Interlock, Board!TrippedIsStopped
<1> QED BY <1>2, <1>3 DEF BoardInv

\* A line leaves the watchdog fed, so only types and interlock are to be shown.
LEMMA FedBoardInv ==
    ASSUME Board!BoardTypeOK', Board!Interlock', Board!FeedWatchdog
    PROVE  BoardInv'
  BY DEF BoardInv, Board!TrippedIsStopped, Board!FeedWatchdog

\* Lines that write the AK80 only.
LEMMA AkWritten ==
    ASSUME BoardInv, Board!FeedWatchdog, akTarget' \in Board!Erpm, akActive' \in BOOLEAN, UNCHANGED Board!taVars
    PROVE  BoardInv'
<1>1. Board!BoardTypeOK'
  BY DEF BoardInv, Board!BoardTypeOK, Board!FeedWatchdog, Board!taVars, Board!switchVars
<1>2. Board!Interlock'
  BY DEF BoardInv, Board!Interlock, Board!taVars, Board!switchVars
<1> QED BY <1>1, <1>2, FedBoardInv

\* Lines that write the TA70 only: the interlock of the phases they leave.
LEMMA TaWritten ==
    ASSUME BoardInv, Board!FeedWatchdog, UNCHANGED Board!akVars,
           taMode' \in {0, Board!ProfilePosition}, taBrake' \in {-1, 0, 1},
           taTarget' \in Board!Deg, taActual' \in Board!Deg,
           taMoveActive' \in BOOLEAN, taSwitch' \in BOOLEAN, taSettled' \in BOOLEAN,
           Board!Interlock'
    PROVE  BoardInv'
<1>1. Board!BoardTypeOK'
  BY DEF BoardInv, Board!BoardTypeOK, Board!FeedWatchdog, Board!akVars
<1> QED BY <1>1, FedBoardInv

LEMMA AkLineInv ==
    ASSUME BoardInv, Board!AkStopLine \/ Board!AkIdleLine \/ \E erpm \in HostErpms : Board!AkSpeedLine(erpm)
    PROVE  BoardInv'
<1>2. CASE Board!AkStopLine
  BY ZeroErpm, <1>2, AkWritten DEF Board!AkStopLine
<1>3. CASE Board!AkIdleLine
  BY ZeroErpm, <1>3, AkWritten DEF Board!AkIdleLine
<1>4. CASE \E erpm \in HostErpms : Board!AkSpeedLine(erpm)
  <2>1. PICK erpm \in HostErpms : Board!AkSpeedLine(erpm)
    BY <1>4
  <2>2. erpm \in Int /\ AkMaxErpm \in Nat
    BY BoardConstants DEF Board!BoardAssumption, Board!HostAssumption
  <2>3. Board!Distance(erpm, 0) <= AkMaxErpm => erpm \in Board!Erpm
    BY <2>2 DEF Board!Distance, Board!Erpm
  <2>4. akTarget' \in Board!Erpm /\ akActive' \in BOOLEAN
    BY <2>1, <2>3 DEF Board!AkSpeedLine, BoardInv, Board!BoardTypeOK, Board!akVars
  <2> QED BY <2>1, <2>4, AkWritten DEF Board!AkSpeedLine
<1> QED BY <1>2, <1>3, <1>4

LEMMA PlainLineInv ==
    ASSUME BoardInv, Board!PlainLine
    PROVE  BoardInv'
  BY AkWritten DEF Board!PlainLine, Board!akVars, BoardInv, Board!BoardTypeOK

LEMMA TaModePosLineInv ==
    ASSUME BoardInv, Board!TaModePosLine
    PROVE  BoardInv'
<1>1. CASE Board!TaModePosRefused /\ UNCHANGED Board!taVars
  BY <1>1, PlainLineInv DEF Board!TaModePosLine, Board!PlainLine
<1>2. CASE ~Board!TaModePosRefused
  <2>1. /\ Board!FeedWatchdog /\ UNCHANGED Board!akVars
        /\ taMode' = 0 /\ taBrake' = 1 /\ taMoveActive' = FALSE /\ taSwitch' = TRUE
        /\ UNCHANGED <<taTarget, taActual, taSettled>>
    BY <1>2 DEF Board!TaModePosLine
  <2>2. Board!Interlock'
    BY <2>1 DEF Board!Interlock, Board!ProfilePosition
  <2> QED BY <2>1, <2>2, TaWritten DEF BoardInv, Board!BoardTypeOK
<1> QED BY <1>1, <1>2 DEF Board!TaModePosLine

\* "ta pos" and "ta rel", of any angle.
LEMMA TaMoveLineInv ==
    ASSUME BoardInv, NEW deg \in Int, Board!TaMoveLine(deg)
    PROVE  BoardInv'
<1>1. Board!BoundBy(deg, 0, TaMaxDeg) \in Board!Deg
  BY BoardConstants DEF Board!BoardAssumption, Board!Deg, Board!BoundBy
<1>2. CASE ~Board!TaAcceptsTarget
  BY <1>2, PlainLineInv DEF Board!TaMoveLine, Board!PlainLine
<1>3. CASE Board!TaAcceptsTarget
  <2>1. /\ Board!FeedWatchdog /\ UNCHANGED Board!akVars
        /\ taTarget' \in Board!Deg /\ taMoveActive' = TRUE /\ taSettled' = FALSE
        /\ UNCHANGED <<taMode, taBrake, taSwitch, taActual>>
    BY <1>1, <1>3 DEF Board!TaMoveLine
  <2>2. Board!Interlock'
    BY <1>3, <2>1 DEF Board!Interlock, BoardInv, Board!TaAcceptsTarget
  <2> QED BY <2>1, <2>2, TaWritten DEF BoardInv, Board!BoardTypeOK
<1> QED BY <1>2, <1>3

LEMMA TaBrakeLineInv ==
    ASSUME BoardInv, NEW locked \in {0, 1}, Board!TaBrakeLine(locked)
    PROVE  BoardInv'
<1>1. /\ Board!FeedWatchdog /\ taBrake' = IF Board!TaAcceptsTarget THEN locked ELSE taBrake
      /\ UNCHANGED <<Board!akVars, taMode, taMoveActive, taSwitch, taTarget, taActual, taSettled>>
  BY DEF Board!TaBrakeLine
<1>2. Board!Interlock'
  BY <1>1 DEF Board!Interlock, BoardInv, Board!TaAcceptsTarget, Board!ProfilePosition
<1> QED BY <1>1, <1>2, TaWritten DEF BoardInv, Board!BoardTypeOK

LEMMA StopLinesInv ==
    ASSUME BoardInv, Board!TaStopLine \/ Board!StopAllLine
    PROVE  BoardInv'
<1>1. /\ Board!FeedWatchdog /\ UNCHANGED <<taTarget, taActual, taSettled>>
      /\ taMode' = 0 /\ taBrake' = 1 /\ taMoveActive' = FALSE /\ taSwitch' = FALSE
      /\ akTarget' \in {akTarget, 0} /\ akActive' \in {akActive, FALSE}
  <2>1. CASE Board!TaStopLine
    BY <2>1 DEF Board!TaStopLine, Board!TaAbort, Board!akVars
  <2>2. CASE Board!StopAllLine
    BY <2>2 DEF Board!StopAllLine, Board!StopAll, Board!TaAbort
  <2> QED BY <2>1, <2>2
<1>2. Board!BoardTypeOK'
  BY <1>1, ZeroErpm DEF BoardInv, Board!BoardTypeOK, Board!FeedWatchdog
<1>3. Board!Interlock'
  BY <1>1 DEF Board!Interlock
<1> QED BY <1>1, <1>2, <1>3, FedBoardInv

LEMMA HostLineInv ==
    ASSUME BoardInv, Board!HostLine
    PROVE  BoardInv'
<1>1. CASE Board!PlainLine
  BY <1>1, PlainLineInv
<1>2. CASE Board!AkStopLine \/ Board!AkIdleLine \/ \E erpm \in HostErpms : Board!AkSpeedLine(erpm)
  BY <1>2, AkLineInv
<1>3. CASE Board!TaModePosLine
  BY <1>3, TaModePosLineInv
<1>4. CASE \E deg \in HostDegs : Board!TaPosLine(deg)
  BY <1>4, BoardConstants, TaMoveLineInv DEF Board!TaPosLine, Board!HostAssumption
<1>5. CASE \E deg \in HostDegs : Board!TaRelLine(deg)
  <2>1. PICK deg \in HostDegs : Board!TaMoveLine(taActual + deg)
    BY <1>5 DEF Board!TaRelLine
  <2>2. taActual + deg \in Int
    BY BoardConstants DEF Board!BoardAssumption, Board!HostAssumption, BoardInv, Board!BoardTypeOK, Board!Deg
  <2> QED BY <2>1, <2>2, TaMoveLineInv
<1>6. CASE Board!TaStopLine \/ Board!StopAllLine
  BY <1>6, StopLinesInv
<1>7. CASE \E locked \in {0, 1} : Board!TaBrakeLine(locked)
  BY <1>7, TaBrakeLineInv
<1> QED BY <1>1, <1>2, <1>3, <1>4, <1>5, <1>6, <1>7 DEF Board!HostLine

\* One step of the board's own loop.
LEMMA TravelledInDeg ==
    ASSUME taActual \in Board!Deg, taTarget \in Board!Deg
    PROVE  Board!Travelled \in Board!Deg
  BY BoardConstants DEF Board!BoardAssumption, Board!Travelled, Board!BoundBy, Board!Deg

LEMMA StepInv ==
    ASSUME BoardInv, Board!Step
    PROVE  BoardInv'
<1> USE DEF BoardInv
<1>1. CASE Board!HostTimeout
  <2>1. /\ hostSeen' = TRUE /\ hostTimedOut' = TRUE /\ HostSilent' = HostSilent
        /\ taMode' = 0 /\ taBrake' = 1 /\ taMoveActive' = FALSE /\ taSwitch' = FALSE
        /\ akTarget' = 0 /\ akActive' = FALSE
        /\ UNCHANGED <<taTarget, taActual, taSettled>>
    BY <1>1 DEF Board!HostTimeout, Board!HostExpired, Board!StopAll, Board!TaAbort, Board!BoardTypeOK
  <2>2. Board!BoardTypeOK'
    BY <2>1, ZeroErpm DEF Board!BoardTypeOK
  <2>3. Board!Interlock' /\ Board!TrippedIsStopped'
    BY <2>1 DEF Board!Interlock, Board!TrippedIsStopped, Board!Stopped
  <2> QED BY <2>2, <2>3
<1>2. CASE Board!EnterMode
  <2>1. /\ UNCHANGED <<Board!akVars, Board!hostVars, taActual, taMoveActive, taSettled>> /\ taSwitch
        /\ taSwitch' = FALSE /\ taMode' = Board!ProfilePosition /\ taBrake' = 0 /\ taTarget' = taActual
    BY <1>2 DEF Board!EnterMode
  <2>2. Board!BoardTypeOK'
    BY <2>1 DEF Board!BoardTypeOK, Board!akVars, Board!hostVars
  <2>3. Board!Interlock' /\ Board!TrippedIsStopped'
    BY <2>1 DEF Board!Interlock, Board!TrippedIsStopped, Board!Stopped, Board!akVars, Board!hostVars
  <2> QED BY <2>2, <2>3
<1>3. CASE Board!Travel \/ Board!Settle
  <2>1. /\ UNCHANGED <<Board!akVars, Board!hostVars, taMode, taBrake, taSwitch, taTarget>> /\ taMoveActive
        /\ taActual' \in Board!Deg /\ taMoveActive' \in BOOLEAN /\ taSettled' \in BOOLEAN
    BY <1>3, TravelledInDeg
    DEF Board!Travel, Board!Settle, Board!Travelling, Board!switchVars, Board!BoardTypeOK
  <2>2. Board!BoardTypeOK'
    BY <2>1 DEF Board!BoardTypeOK, Board!akVars, Board!hostVars
  <2>3. Board!Interlock' /\ Board!TrippedIsStopped'
    BY <2>1 DEF Board!Interlock, Board!TrippedIsStopped, Board!Stopped, Board!akVars, Board!hostVars
  <2> QED BY <2>2, <2>3
<1>4. CASE Board!Rest
  BY <1>4 DEF Board!Rest, Board!boardVars, Board!akVars, Board!taVars, Board!switchVars, Board!hostVars,
              Board!BoardTypeOK, Board!Interlock, Board!TrippedIsStopped, Board!Stopped
<1> QED BY <1>1, <1>2, <1>3, <1>4 DEF Board!Step

\* Every step of the board with any host.
LEMMA BoardNextInv ==
    ASSUME BoardInv, [Board!Next]_(Board!boardVars)
    PROVE  BoardInv'
<1>1. CASE Board!HostLine
  BY <1>1, HostLineInv
<1>2. CASE Board!Step
  BY <1>2, StepInv
<1>3. CASE Board!HostFallsSilent \/ UNCHANGED Board!boardVars
  <2>1. /\ UNCHANGED <<Board!akVars, Board!taVars, hostSeen, hostTimedOut>>
        /\ HostSilent' \in {HostSilent, TRUE}
    BY <1>3 DEF Board!HostFallsSilent, Board!boardVars, Board!hostVars
  <2>2. UNCHANGED <<akTarget, akActive, taMode, taBrake, taMoveActive, taSwitch,
                    taTarget, taActual, taSettled>>
    BY <2>1 DEF Board!akVars, Board!taVars, Board!switchVars
  <2>3. Board!BoardTypeOK'
    BY <2>1, <2>2 DEF BoardInv, Board!BoardTypeOK
  <2>4. Board!Interlock' /\ Board!TrippedIsStopped'
    BY <2>1, <2>2 DEF BoardInv, Board!Interlock, Board!TrippedIsStopped, Board!Stopped
  <2> QED BY <2>3, <2>4 DEF BoardInv
<1> QED BY <1>1, <1>2, <1>3 DEF Board!Next

\* The board keeps its types (no line moves the TA70 out of its range or the
\* AK80 beyond its limit), its interlock and the watchdog's stop against a host
\* that sends any line at any time (olimexino_sim.cpp: handle, step).
THEOREM BoardKeepsInv == Board!Spec => []BoardInv
<1>1. BoardInv /\ [Board!Next]_(Board!boardVars) => BoardInv'
  BY BoardNextInv
<1> QED BY <1>1, BoardInitInv, PTL DEF Board!Spec

-----------------------------------------------------------------------------
(* What lines and steps do to the watchdog and to a board at rest.         *)

AtRest == akTarget = 0 /\ taMode = 0 /\ taBrake # 0 /\ ~taMoveActive /\ ~taSwitch

LEMMA AtRestIsStopped == AtRest <=> Board!Stopped
  BY DEF AtRest, Board!Stopped

LEMMA PlainLineFacts ==
    ASSUME Board!PlainLine
    PROVE  /\ hostSeen' = TRUE /\ hostTimedOut' = FALSE
           /\ UNCHANGED <<akTarget, taMode, taBrake, taMoveActive, taSwitch>>
  BY DEF Board!PlainLine, Board!FeedWatchdog, Board!akVars, Board!taVars, Board!switchVars

\* A board at rest refuses every target.
LEMMA TargetLineFacts ==
    ASSUME \E deg \in HostDegs : Board!TaPosLine(deg)
    PROVE  /\ hostSeen' = TRUE /\ hostTimedOut' = FALSE
           /\ AtRest => AtRest'
<1>1. PICK deg \in HostDegs : Board!TaMoveLine(deg)
  BY DEF Board!TaPosLine
<1>2. Board!FeedWatchdog /\ UNCHANGED Board!akVars
  BY <1>1 DEF Board!TaMoveLine
<1>3. AtRest => UNCHANGED Board!taVars
  BY <1>1 DEF Board!TaMoveLine, Board!TaAcceptsTarget, Board!ProfilePosition, AtRest
<1> QED BY <1>2, <1>3
    DEF Board!FeedWatchdog, Board!akVars, Board!taVars, Board!switchVars, AtRest

LEMMA StopAllLineFacts ==
    ASSUME Board!StopAllLine
    PROVE  hostSeen' = TRUE /\ hostTimedOut' = FALSE /\ AtRest'
  BY DEF Board!StopAllLine, Board!FeedWatchdog, Board!StopAll, Board!TaAbort, AtRest

LEMMA HostLineFacts ==
    ASSUME Board!HostLine
    PROVE  hostSeen' = TRUE /\ hostTimedOut' = FALSE
<1>1. Board!FeedWatchdog
  BY DEF Board!HostLine, Board!PlainLine, Board!AkStopLine, Board!AkIdleLine, Board!AkSpeedLine,
         Board!TaModePosLine, Board!TaPosLine, Board!TaRelLine, Board!TaMoveLine,
         Board!TaStopLine, Board!TaBrakeLine, Board!StopAllLine
<1> QED BY <1>1 DEF Board!FeedWatchdog

LEMMA StepFacts ==
    ASSUME Board!Step
    PROVE  /\ hostSeen' = hostSeen
           /\ Board!HostExpired => hostTimedOut' = TRUE
           /\ ~Board!HostExpired => hostTimedOut' = hostTimedOut
           /\ AtRest => AtRest'
<1> USE DEF AtRest, Board!ProfilePosition
<1>1. CASE Board!HostTimeout
  BY <1>1 DEF Board!HostTimeout, Board!StopAll, Board!TaAbort
<1>2. CASE Board!EnterMode
  BY <1>2 DEF Board!EnterMode, Board!hostVars
<1>3. CASE Board!Travel \/ Board!Settle
  BY <1>3 DEF Board!Travel, Board!Settle, Board!Travelling, Board!hostVars
<1>4. CASE Board!Rest
  BY <1>4 DEF Board!Rest, Board!boardVars, Board!akVars, Board!taVars, Board!switchVars, Board!hostVars
<1> QED BY <1>1, <1>2, <1>3, <1>4 DEF Board!Step

-----------------------------------------------------------------------------
(* The inductive invariant.                                                *)

ClocksTypeOK ==
    /\ client \in {"down", "waiting", "running", "alone"} /\ portOpen \in BOOLEAN
    /\ lineAge \in 0..RestartDelay /\ downFor \in 0..RestartDelay /\ openFor \in 0..RestartDelay
    /\ pingAge \in 0..KeepalivePeriod + PingLateness /\ stepAge \in 0..BoardPeriod
    /\ outage \in {"none", "undelivered", "stopped", "commanded"}

\* A board that has heard nothing is at rest, and so is one that is overdue:
\* between the timeout and its trip there is no step.
WatchdogInvariant ==
    /\ ~hostSeen => AtRest
    /\ hostSeen /\ ~hostTimedOut => lineAge <= WatchdogTimeout + stepAge
    /\ hostTimedOut => AtRest /\ lineAge > WatchdogTimeout

\* The silence is at least as old as the client's end.
DownInv == client = "down" /\ hostSeen => lineAge >= downFor

\* Since the port opened there was a ping, or none was due yet.
PingInv ==
    portOpen => client # "down" /\ ((hostSeen /\ lineAge <= pingAge) \/ openFor <= pingAge)

\* A client that waits, or whose outage has stopped the motors, has them at rest.
RestInv ==
    /\ outage # "none" => client = "alone"
    /\ client = "waiting" \/ outage = "stopped" => AtRest

ClockInv ==
    ClocksTypeOK /\ WatchdogInvariant /\ DownInv /\ PingInv /\ RestInv

TimedInv == BoardInv /\ ClockInv

LEMMA InitTimedInv == Init => TimedInv
<1> SUFFICES ASSUME Init PROVE TimedInv
  OBVIOUS
<1>1. Board!BoardInit
  BY WatchdogAssumption DEF Init, Board!BoardInit, HostSilent
<1>2. BoardInv
  BY <1>1, BoardInitInv
<1>3. ClocksTypeOK
  <2>1. 0 \in 0..RestartDelay /\ 0 \in 0..BoardPeriod /\ 0 \in 0..KeepalivePeriod + PingLateness
    BY WatchdogAssumption
  <2> QED BY <2>1 DEF Init, ClocksTypeOK
<1>4. ClockInv
  BY <1>3 DEF Init, ClockInv, WatchdogInvariant, DownInv, PingInv, RestInv, AtRest
<1> QED BY <1>2, <1>4 DEF TimedInv

\* Every step is a step of the untimed board, or leaves it alone.
LEMMA StepsAreBoardSteps ==
    ASSUME ClocksTypeOK, [Next]_vars
    PROVE  [Board!Next]_(Board!boardVars)
<1> USE DEF Board!Next
<1>1. CASE (Ping \/ GsIsLost) /\ portOpen
  BY <1>1 DEF Ping, GsIsLost, Send, Deliver, Board!HostLine
<1>2. CASE ClientLine \/ Resend
  BY <1>2 DEF ClientLine, Resend, Deliver, Board!HostLine
<1>3. CASE BoardStep
  BY <1>3 DEF BoardStep
<1>4. CASE Tick
  <2>1. UNCHANGED motorVars /\ lineAge' = IF hostSeen THEN Older(lineAge) ELSE lineAge
    BY <1>4 DEF Tick
  <2>2. CASE hostSeen /\ lineAge = WatchdogTimeout
    <3>1. ~HostSilent /\ HostSilent'
      BY <2>1, <2>2, WatchdogAssumption DEF HostSilent, Older
    <3> QED BY <2>1, <2>2, <3>1
        DEF Board!HostFallsSilent, Board!akVars, Board!taVars, Board!switchVars, motorVars
  <2>3. CASE ~(hostSeen /\ lineAge = WatchdogTimeout)
    <3>1. HostSilent' = HostSilent
      BY <2>1, <2>3, WatchdogAssumption DEF HostSilent, Older, ClocksTypeOK
    <3> QED BY <2>1, <3>1
        DEF Board!boardVars, Board!akVars, Board!taVars, Board!switchVars, Board!hostVars, motorVars
  <2> QED BY <2>2, <2>3
<1>5. CASE UNCHANGED <<motorVars, lineAge>>
  BY <1>5 DEF Board!boardVars, Board!akVars, Board!taVars, Board!switchVars, Board!hostVars,
              motorVars, HostSilent
<1> QED BY <1>1, <1>2, <1>3, <1>4, <1>5
    DEF Next, Ping, GsIsLost, Send, GsConnects, GsReturns, Crash, Restart,
        PortOpens, PortIsLost, boardKeeps, vars

LEMMA BoardInvKept ==
    ASSUME TimedInv, [Next]_vars
    PROVE  BoardInv'
<1>1. [Board!Next]_(Board!boardVars)
  BY StepsAreBoardSteps DEF TimedInv, ClockInv
<1> QED BY <1>1, BoardNextInv DEF TimedInv

\* src/README.md:87: between the timeout and the step that trips no step is left.
LEMMA OverdueIsAtRest ==
    ASSUME ClocksTypeOK, WatchdogInvariant, Overdue(lineAge)
    PROVE  AtRest
<1>1. ~(lineAge <= WatchdogTimeout + stepAge)
  BY WatchdogAssumption DEF Overdue, ClocksTypeOK
<1> QED BY <1>1 DEF WatchdogInvariant

\* Lines: what they do to the clocks, and what is left to show of them.
LineKeepsRest ==
    /\ client # "down" /\ portOpen /\ lineAge' = 0
    /\ hostSeen' = TRUE /\ hostTimedOut' = FALSE
    /\ client' # "down" /\ portOpen' = portOpen /\ pingAge' \in {pingAge, 0}
    /\ UNCHANGED <<downFor, openFor, stepAge>>
    /\ client' \in {client, "alone"}
    /\ outage' \in {"none", "undelivered", "stopped", "commanded"}

LEMMA LineKeepsClocks ==
    ASSUME ClockInv, LineKeepsRest
    PROVE  ClocksTypeOK' /\ WatchdogInvariant' /\ DownInv' /\ PingInv'
<1> USE DEF ClockInv, LineKeepsRest
<1>1. ClocksTypeOK'
  BY WatchdogAssumption DEF ClocksTypeOK
<1>2. WatchdogInvariant' /\ DownInv'
  BY WatchdogAssumption DEF WatchdogInvariant, DownInv, ClocksTypeOK
<1>3. PingInv'
  BY <1>1 DEF PingInv, ClocksTypeOK
<1> QED BY <1>1, <1>2, <1>3

LEMMA PingKeepsClocks ==
    ASSUME ClockInv, Ping
    PROVE  ClockInv'
<1> USE DEF ClockInv
<1>1. /\ client # "down" /\ pingAge' = 0
      /\ UNCHANGED <<client, portOpen, downFor, openFor, outage, stepAge>>
  BY DEF Ping, PingDue, Send, Deliver, boardKeeps
<1>2. CASE portOpen
  <2>1. /\ lineAge' = 0 /\ hostSeen' = TRUE /\ hostTimedOut' = FALSE
        /\ UNCHANGED <<akTarget, taMode, taBrake, taMoveActive, taSwitch>>
    BY <1>2, PlainLineFacts DEF Ping, Send, Deliver
  <2>2. LineKeepsRest
    BY <1>1, <1>2, <2>1 DEF LineKeepsRest, ClocksTypeOK
  <2>3. RestInv'
    BY <1>1, <2>1 DEF RestInv, AtRest
  <2> QED BY <2>2, <2>3, LineKeepsClocks
<1>3. CASE ~portOpen
  <2>1. UNCHANGED <<motorVars, lineAge>>
    BY <1>3 DEF Ping, Send, boardKeeps
  <2>2. ClocksTypeOK'
    BY <1>1, <2>1, WatchdogAssumption DEF ClocksTypeOK
  <2>3. WatchdogInvariant' /\ DownInv' /\ RestInv'
    BY <1>1, <2>1 DEF WatchdogInvariant, DownInv, RestInv, AtRest, motorVars
  <2>4. PingInv'
    BY <1>1, <1>3 DEF PingInv
  <2> QED BY <2>2, <2>3, <2>4
<1> QED BY <1>2, <1>3

\* A command ends the standstill of an outage, a resent target does not.
LEMMA ClientLineKeepsClocks ==
    ASSUME ClockInv, ClientLine \/ Resend
    PROVE  ClockInv'
<1> USE DEF ClockInv
<1>1. CASE ClientLine
  <2>1. /\ client \in {"running", "alone"} /\ portOpen /\ lineAge' = 0
        /\ hostSeen' = TRUE /\ hostTimedOut' = FALSE
        /\ outage' = IF client = "alone" THEN "commanded" ELSE outage
        /\ UNCHANGED <<client, portOpen, pingAge, downFor, openFor, stepAge>>
    BY <1>1, HostLineFacts DEF ClientLine, Deliver
  <2>2. LineKeepsRest
    BY <2>1 DEF LineKeepsRest, ClocksTypeOK
  <2>3. RestInv'
    BY <2>1 DEF RestInv
  <2> QED BY <2>2, <2>3, LineKeepsClocks
<1>2. CASE Resend
  <2>1. /\ client = "alone" /\ portOpen /\ lineAge' = 0
        /\ hostSeen' = TRUE /\ hostTimedOut' = FALSE
        /\ UNCHANGED <<clientVars, stepAge>> /\ (AtRest => AtRest')
    BY <1>2, TargetLineFacts DEF Resend, Deliver
  <2>2. LineKeepsRest
    BY <2>1 DEF LineKeepsRest, ClocksTypeOK, clientVars
  <2>3. RestInv'
    BY <2>1 DEF RestInv, clientVars
  <2> QED BY <2>2, <2>3, LineKeepsClocks
<1> QED BY <1>1, <1>2

\* The stop of an outage arrives, or is lost with the port closed.
LEMMA LossKeepsClocks ==
    ASSUME ClockInv, GsIsLost
    PROVE  ClockInv'
<1> USE DEF ClockInv
<1>1. /\ client = "running" /\ client' = "alone" /\ outage' = LossOutcome
      /\ UNCHANGED <<portOpen, pingAge, downFor, openFor, stepAge>>
  BY DEF GsIsLost, LossNoticed, Send, Deliver, boardKeeps
<1>2. CASE portOpen
  <2>1. lineAge' = 0 /\ hostSeen' = TRUE /\ hostTimedOut' = FALSE /\ AtRest'
    BY <1>2, StopAllLineFacts DEF GsIsLost, Send, Deliver
  <2>2. LineKeepsRest
    BY <1>1, <1>2, <2>1 DEF LineKeepsRest, ClocksTypeOK, LossOutcome
  <2>3. RestInv'
    BY <1>1, <2>1 DEF RestInv
  <2> QED BY <2>2, <2>3, LineKeepsClocks
<1>3. CASE ~portOpen
  <2>1. UNCHANGED <<motorVars, lineAge>>
    BY <1>3 DEF GsIsLost, Send, boardKeeps
  <2>2. ClocksTypeOK'
    BY <1>1, <2>1 DEF ClocksTypeOK, LossOutcome
  <2>3. WatchdogInvariant' /\ DownInv' /\ PingInv'
    BY <1>1, <1>3, <2>1 DEF WatchdogInvariant, DownInv, PingInv, AtRest, motorVars
  <2>4. outage' = "stopped" => AtRest
    BY <1>1, <1>3, OverdueIsAtRest DEF LossOutcome
  <2>5. RestInv'
    BY <1>1, <2>1, <2>4 DEF RestInv, AtRest, motorVars
  <2> QED BY <2>2, <2>3, <2>5
<1> QED BY <1>2, <1>3

\* The client comes and goes, and so do its ground station and its port.
LEMMA ClientKeepsClocks ==
    ASSUME ClockInv, GsConnects \/ GsReturns \/ Crash \/ Restart \/ PortOpens \/ PortIsLost
    PROVE  ClockInv'
<1> USE DEF ClockInv
<1>1. UNCHANGED <<motorVars, lineAge, stepAge>> /\ AtRest' = AtRest
  BY DEF GsConnects, GsReturns, Crash, Restart, PortOpens, PortIsLost, boardKeeps, AtRest, motorVars
<1>2. WatchdogInvariant'
  BY <1>1 DEF WatchdogInvariant, motorVars
<1>3. CASE GsConnects \/ GsReturns
  <2>1. /\ client \in {"waiting", "alone"} /\ client' = "running" /\ outage' \in {outage, "none"}
        /\ client = "alone" => outage' = "none"
        /\ UNCHANGED <<portOpen, pingAge, downFor, openFor>>
    BY <1>3 DEF GsConnects, GsReturns
  <2>2. ClocksTypeOK' /\ DownInv' /\ PingInv'
    BY <1>1, <2>1 DEF ClocksTypeOK, DownInv, PingInv, motorVars
  <2>3. RestInv'
    BY <1>1, <2>1 DEF RestInv
  <2> QED BY <1>2, <2>2, <2>3
<1>4. CASE Crash
  <2>1. /\ client' = "down" /\ downFor' = 0 /\ portOpen' = FALSE /\ outage' = "none"
        /\ UNCHANGED <<pingAge, openFor>>
    BY <1>4 DEF Crash
  <2>2. ClocksTypeOK'
    <3>1. 0 \in 0..RestartDelay
      BY WatchdogAssumption
    <3> QED BY <1>1, <2>1, <3>1 DEF ClocksTypeOK
  <2>3. DownInv' /\ PingInv' /\ RestInv'
    BY <1>1, <2>1 DEF DownInv, PingInv, RestInv, ClocksTypeOK, motorVars
  <2> QED BY <1>2, <2>2, <2>3
<1>5. CASE Restart
  <2>1. /\ client = "down" /\ downFor >= RestartDelay /\ client' = "waiting"
        /\ pingAge' = KeepalivePeriod /\ UNCHANGED <<portOpen, downFor, openFor, outage>>
    BY <1>5 DEF Restart, RestartDue
  <2>2. hostSeen => lineAge > WatchdogTimeout + stepAge
    BY <2>1, WatchdogAssumption DEF DownInv, ClocksTypeOK
  <2>3. AtRest
    <3>1. lineAge \in Int /\ WatchdogTimeout + stepAge \in Int
      BY WatchdogAssumption DEF ClocksTypeOK
    <3>2. hostSeen => hostTimedOut
      BY <2>2, <3>1 DEF WatchdogInvariant
    <3> QED BY <3>2 DEF WatchdogInvariant
  <2>4. RestInv'
    BY <1>1, <2>1, <2>3 DEF RestInv
  <2>5. ClocksTypeOK'
    BY <1>1, <2>1, WatchdogAssumption DEF ClocksTypeOK
  <2>6. DownInv' /\ PingInv'
    BY <2>1 DEF DownInv, PingInv
  <2> QED BY <1>2, <2>4, <2>5, <2>6
<1>6. CASE PortOpens
  <2>1. /\ client # "down" /\ portOpen' = TRUE /\ openFor' = 0
        /\ UNCHANGED <<client, pingAge, downFor, outage>>
    BY <1>6 DEF PortOpens
  <2>2. ClocksTypeOK'
    BY <1>1, <2>1, WatchdogAssumption DEF ClocksTypeOK
  <2>3. DownInv' /\ PingInv'
    BY <1>1, <2>1 DEF DownInv, PingInv, ClocksTypeOK, motorVars
  <2>4. RestInv'
    BY <1>1, <2>1 DEF RestInv
  <2> QED BY <1>2, <2>2, <2>3, <2>4
<1>7. CASE PortIsLost
  <2>1. portOpen' = FALSE /\ UNCHANGED <<client, pingAge, downFor, openFor, outage>>
    BY <1>7 DEF PortIsLost
  <2>2. ClocksTypeOK'
    BY <1>1, <2>1 DEF ClocksTypeOK
  <2>3. DownInv' /\ PingInv' /\ RestInv'
    BY <1>1, <2>1 DEF DownInv, PingInv, RestInv, motorVars
  <2> QED BY <1>2, <2>2, <2>3
<1> QED BY <1>3, <1>4, <1>5, <1>6, <1>7

LEMMA BoardStepKeepsClocks ==
    ASSUME ClockInv, BoardStep
    PROVE  ClockInv'
<1> USE DEF ClockInv
<1>1. /\ stepAge' = 0 /\ UNCHANGED <<clientVars, lineAge, hostSeen>>
      /\ Board!HostExpired => hostTimedOut' = TRUE
      /\ ~Board!HostExpired => hostTimedOut' = hostTimedOut
      /\ AtRest => AtRest'
  BY StepFacts DEF BoardStep
<1>2. ClocksTypeOK'
  BY <1>1, WatchdogAssumption DEF ClocksTypeOK, clientVars
<1>3. DownInv' /\ PingInv' /\ RestInv'
  <2>1. DownInv' /\ PingInv'
    BY <1>1 DEF DownInv, PingInv, clientVars
  <2> QED BY <1>1, <2>1 DEF RestInv, clientVars
<1>4. CASE Board!HostExpired
  <2>1. Board!HostTimeout
    BY <1>4 DEF BoardStep, Board!Step, Board!HostTimeout, Board!EnterMode, Board!Travel,
                Board!Settle, Board!Rest
  <2>2. AtRest'
    BY <2>1 DEF Board!HostTimeout, Board!StopAll, Board!TaAbort, AtRest
  <2>3. WatchdogInvariant'
    BY <1>1, <1>4, <2>2 DEF WatchdogInvariant, Board!HostExpired, HostSilent
  <2> QED BY <1>2, <1>3, <2>3
<1>5. CASE ~Board!HostExpired
  <2>1. hostSeen /\ ~hostTimedOut => ~(lineAge > WatchdogTimeout)
    BY <1>5 DEF Board!HostExpired, HostSilent
  <2>2. WatchdogInvariant'
    BY <1>1, <1>5, <2>1, WatchdogAssumption DEF WatchdogInvariant, ClocksTypeOK
  <2> QED BY <1>2, <1>3, <2>2
<1> QED BY <1>4, <1>5

LEMMA TickKeepsClocks ==
    ASSUME ClockInv, Tick
    PROVE  ClockInv'
<1> USE DEF ClockInv
<1>1. /\ client # "down" => pingAge < KeepalivePeriod + PingLateness
      /\ stepAge < BoardPeriod /\ stepAge' = stepAge + 1
      /\ lineAge' = IF hostSeen THEN Older(lineAge) ELSE lineAge
      /\ pingAge' = IF client # "down" THEN pingAge + 1 ELSE pingAge
      /\ downFor' = IF client = "down" THEN Older(downFor) ELSE downFor
      /\ openFor' = IF portOpen THEN Older(openFor) ELSE openFor
      /\ outage' = IF outage = "undelivered" /\ Overdue(lineAge') THEN "stopped" ELSE outage
      /\ UNCHANGED <<motorVars, client, portOpen>>
  BY DEF Tick
<1>2. /\ hostSeen' = hostSeen /\ hostTimedOut' = hostTimedOut
      /\ AtRest' = AtRest
  BY <1>1 DEF motorVars, AtRest
<1>3. ClocksTypeOK'
  BY <1>1, WatchdogAssumption DEF ClocksTypeOK, Older
<1>4. WatchdogInvariant'
  <2>1. lineAge' <= lineAge + 1 /\ (lineAge' >= lineAge)
    BY <1>1, WatchdogAssumption DEF ClocksTypeOK, Older
  <2>2. hostTimedOut => lineAge' > WatchdogTimeout
    BY <2>1, <1>3, WatchdogAssumption DEF WatchdogInvariant, ClocksTypeOK
  <2>3. hostSeen /\ ~hostTimedOut => lineAge' <= WatchdogTimeout + stepAge'
    BY <1>1, <2>1, <1>3, WatchdogAssumption DEF WatchdogInvariant, ClocksTypeOK
  <2> QED BY <1>2, <2>2, <2>3 DEF WatchdogInvariant
<1>5. DownInv'
  BY <1>1, <1>2, WatchdogAssumption DEF DownInv, ClocksTypeOK, Older
<1>6. PingInv'
  <2>1. portOpen => pingAge' = pingAge + 1
    BY <1>1 DEF PingInv
  <2>2. portOpen => openFor' <= openFor + 1
    BY <1>1, WatchdogAssumption DEF ClocksTypeOK, Older
  <2>3. hostSeen => lineAge' <= lineAge + 1
    BY <1>1, WatchdogAssumption DEF ClocksTypeOK, Older
  <2> QED BY <1>1, <1>2, <1>3, <2>1, <2>2, <2>3, WatchdogAssumption DEF PingInv, ClocksTypeOK
<1>7. Overdue(lineAge') => AtRest'
  <2>1. lineAge' \in Nat /\ stepAge' \in 0..BoardPeriod
    BY <1>3, WatchdogAssumption DEF ClocksTypeOK
  <2>2. \A age \in Nat, step \in 0..BoardPeriod : Overdue(age) => ~(age <= WatchdogTimeout + step)
    BY WatchdogAssumption DEF Overdue
  <2>3. Overdue(lineAge') => ~(lineAge' <= WatchdogTimeout + stepAge')
    BY <2>1, <2>2
  <2> QED BY <1>4, <2>3 DEF WatchdogInvariant
<1>8. RestInv'
  BY <1>1, <1>2, <1>7 DEF RestInv
<1> QED BY <1>3, <1>4, <1>5, <1>6, <1>8

LEMMA NextTimedInv ==
    ASSUME TimedInv, [Next]_vars
    PROVE  TimedInv'
<1>1. BoardInv'
  BY BoardInvKept
<1>2. ClockInv'
  <2>1. CASE UNCHANGED vars
    BY <2>1 DEF TimedInv, ClockInv, ClocksTypeOK, WatchdogInvariant, DownInv, PingInv, RestInv,
                AtRest, vars, motorVars, clientVars
  <2> QED BY <2>1, PingKeepsClocks, ClientLineKeepsClocks, LossKeepsClocks,
             ClientKeepsClocks, BoardStepKeepsClocks, TickKeepsClocks DEF Next, TimedInv
<1> QED BY <1>1, <1>2 DEF TimedInv

-----------------------------------------------------------------------------
THEOREM TimedInvariance == Spec => []TimedInv
  BY InitTimedInv, NextTimedInv, PTL DEF Spec

\* src/README.md:87, for every timing the assumption allows: one step after
\* HOST_TIMEOUT a board that hears nothing is at rest.
THEOREM SilenceStops == Spec => []SilentIsStopped
<1>1. TimedInv => SilentIsStopped
  BY OverdueIsAtRest, AtRestIsStopped DEF Overdue, SilentIsStopped, TimedInv, ClockInv
<1> QED BY <1>1, TimedInvariance, PTL

\* A client that starts, or starts again after a crash, finds the board at rest
\* and leaves it so until it has a ground station: autostart.bash sleeps longer
\* than the watchdog waits.
THEOREM StartFindsStandstill == Spec => []WaitingIsStandstill
<1>1. TimedInv => WaitingIsStandstill
  BY AtRestIsStopped DEF WaitingIsStandstill, TimedInv, ClockInv, RestInv
<1> QED BY <1>1, TimedInvariance, PTL

\* While the port stays open the pings keep the watchdog quiet.
THEOREM PingsKeepQuiet == Spec => []LiveIsNotTripped
<1>1. TimedInv => LiveIsNotTripped
  <2> SUFFICES ASSUME ClockInv, portOpen, openFor > KeepalivePeriod + PingLateness
               PROVE  hostSeen /\ ~hostTimedOut /\ lineAge <= KeepalivePeriod + PingLateness
    BY DEF LiveIsNotTripped, TimedInv
  <2>1. hostSeen /\ lineAge <= pingAge
    BY WatchdogAssumption DEF ClockInv, PingInv, ClocksTypeOK
  <2>2. lineAge <= KeepalivePeriod + PingLateness /\ ~(lineAge > WatchdogTimeout)
    BY <2>1, WatchdogAssumption DEF ClockInv, ClocksTypeOK
  <2> QED BY <2>1, <2>2 DEF ClockInv, WatchdogInvariant
<1> QED BY <1>1, TimedInvariance, PTL

\* Once the stop of an outage has arrived, or the watchdog has made up for it,
\* pings, reopened ports and resent targets leave the board at rest, for every
\* timing the assumption allows.
THEOREM OutageStaysQuiet == Spec => []QuietOutage
<1>1. TimedInv => QuietOutage
  BY AtRestIsStopped DEF QuietOutage, TimedInv, ClockInv, RestInv
<1> QED BY <1>1, TimedInvariance, PTL

\* The board's own properties, with a client that fails at any moment.
THEOREM TimedBoardInvariants ==
    Spec => [](WatchdogTypeOK /\ Interlock /\ TrippedIsStopped)
<1>1. TimedInv => WatchdogTypeOK /\ Interlock /\ TrippedIsStopped
  <2> SUFFICES ASSUME TimedInv PROVE WatchdogTypeOK /\ Interlock /\ TrippedIsStopped
    OBVIOUS
  <2>1. Board!BoardTypeOK /\ Interlock /\ TrippedIsStopped
    BY DEF TimedInv, BoardInv, Interlock, TrippedIsStopped
  <2> QED BY <2>1 DEF TimedInv, ClockInv, ClocksTypeOK, WatchdogTypeOK
<1> QED BY <1>1, TimedInvariance, PTL

\* Types: no line and no lateness takes a variable out of its range.
THEOREM TimedTypes == Spec => []WatchdogTypeOK
  BY TimedBoardInvariants, PTL

\* The phases of the TA70 exclude each other, also across crashes.
THEOREM TimedInterlock == Spec => []Interlock
  BY TimedBoardInvariants, PTL

\* A tripped watchdog means standstill until the client is back.
THEOREM TimedTripIsStandstill == Spec => []TrippedIsStopped
  BY TimedBoardInvariants, PTL
=============================================================================
