----------------------- MODULE OlimexinoControl_proofs -----------------------
(* Theorems about OlimexinoControl, for every value of its constants.      *)
EXTENDS OlimexinoControl, TLAPS

\* "%.3f" stays within the drive's limits and within the confirm tolerance.
LEMMA FormatDegBounds ==
    ASSUME NEW deg \in Deg
    PROVE  /\ FormatDeg(deg) \in Deg
           /\ Distance(FormatDeg(deg), deg) <= ConfirmTol
<1> DEFINE g == DegGrid
           h == DegGrid \div 2
           k == (deg + h) \div g
           m == TaMaxDeg \div g
<1>1. g \in Nat /\ g > 0 /\ TaMaxDeg \in Nat /\ deg \in Nat /\ deg <= TaMaxDeg
  BY BoardAssumption DEF Deg
<1>2. h \in Nat /\ 2 * h <= g /\ g <= 2 * h + 1
  BY <1>1
<1>3. k \in Nat /\ g * k <= deg + h /\ deg + h < g * k + g
  BY <1>1, <1>2
<1>4. m \in Nat /\ TaMaxDeg = g * m
  BY <1>1, BoardAssumption
<1>5. k <= m
  <2>1. SUFFICES ASSUME k >= m + 1 PROVE FALSE
    BY <1>3, <1>4
  <2>2. g * k >= g * (m + 1)
    BY <2>1, <1>1, <1>3, <1>4
  <2>3. g * (m + 1) = TaMaxDeg + g
    BY <1>4, <1>1
  <2> HIDE DEF g, h, k, m
  <2> QED BY <2>2, <2>3, <1>1, <1>2, <1>3
<1>6. g * k \in Nat /\ g * k <= TaMaxDeg
  BY <1>1, <1>3, <1>4, <1>5
<1>7. FormatDeg(deg) = g * k
  BY DEF FormatDeg
<1>8. g <= 2 * ConfirmTol /\ ConfirmTol \in Nat
  BY ControlAssumption
<1> HIDE DEF g, h, k, m
<1> QED BY <1>1, <1>2, <1>3, <1>6, <1>7, <1>8 DEF Distance, Deg


-----------------------------------------------------------------------------
(* The board keeps its types and its interlock, whatever makes it move.    *)

LEMMA RoundErpmBounds ==
    ASSUME NEW v \in AkMin..AkMax
    PROVE  RoundErpm(v) \in Erpm
<1> DEFINE g == ErpmGrid
           h == ErpmGrid \div 2
           up == (v + h) \div g
           down == (h - v) \div g
<1>1. g \in Nat /\ g > 0 /\ AkMaxErpm \in Nat /\ v \in Int
      /\ v <= AkMaxErpm * g /\ -v <= AkMaxErpm * g
  BY ControlAssumption, BoardAssumption
<1>2. h \in Nat /\ 2 * h <= g
  BY <1>1
<1>3. ASSUME NEW x \in Nat, x <= AkMaxErpm * g
      PROVE  (x + h) \div g \in 0..AkMaxErpm
  <2> DEFINE q == (x + h) \div g
  <2>1. q \in Nat /\ g * q <= x + h
    BY <1>1, <1>2, <1>3
  <2>2. SUFFICES ASSUME q >= AkMaxErpm + 1 PROVE FALSE
    BY <2>1, <1>1
  <2>3. g * q >= g * (AkMaxErpm + 1)
    BY <2>1, <2>2, <1>1
  <2>4. g * (AkMaxErpm + 1) = AkMaxErpm * g + g
    BY <1>1
  <2> HIDE DEF g, h, q
  <2> QED BY <2>1, <2>3, <2>4, <1>1, <1>2, <1>3
<1>4. CASE v >= 0
  BY <1>1, <1>3, <1>4 DEF RoundErpm, Erpm
<1>5. CASE v < 0
  <2>1. (-v + h) \div g \in 0..AkMaxErpm
    BY <1>1, <1>3, <1>5
  <2>2. h - v = -v + h
    BY <1>1, <1>2
  <2> QED BY <2>1, <2>2, <1>1, <1>5 DEF RoundErpm, Erpm
<1> QED BY <1>1, <1>4, <1>5

LEMMA ZeroErpm == 0 \in Erpm
  BY BoardAssumption DEF Erpm

LEMMA PlainLineKeepsBoard ==
    ASSUME BoardTypeOK, Interlock, ReleasedInMode, PlainLine
    PROVE  BoardTypeOK' /\ Interlock' /\ ReleasedInMode'
<1> USE DEF PlainLine, FeedWatchdog, akVars, taVars, switchVars
<1>1. BoardTypeOK'
  BY DEF BoardTypeOK
<1>2. Interlock' /\ ReleasedInMode'
  BY DEF Interlock, ReleasedInMode
<1> QED BY <1>1, <1>2

\* The lines to the AK80 leave the TA70 alone.
AkLine == AkStopLine \/ AkIdleLine \/ \E erpm \in Erpm : AkSpeedLine(erpm)

LEMMA AkLineKeepsBoard ==
    ASSUME BoardTypeOK, Interlock, ReleasedInMode, AkLine
    PROVE  BoardTypeOK' /\ Interlock' /\ ReleasedInMode' /\ UNCHANGED taVars
<1>1. /\ UNCHANGED taVars /\ FeedWatchdog
      /\ akTarget' \in Erpm /\ akActive' \in BOOLEAN
  <2>1. CASE AkStopLine
    BY <2>1, ZeroErpm DEF AkStopLine
  <2>2. CASE AkIdleLine
    BY <2>2, ZeroErpm DEF AkIdleLine
  <2>3. CASE \E erpm \in Erpm : AkSpeedLine(erpm)
    BY <2>3 DEF AkSpeedLine, akVars, BoardTypeOK
  <2> QED BY <2>1, <2>2, <2>3 DEF AkLine
<1>2. BoardTypeOK'
  BY <1>1 DEF BoardTypeOK, taVars, switchVars, FeedWatchdog
<1>3. Interlock' /\ ReleasedInMode'
  BY <1>1 DEF Interlock, ReleasedInMode, taVars, switchVars
<1> QED BY <1>1, <1>2, <1>3

LEMMA TaModePosLineKeepsBoard ==
    ASSUME BoardTypeOK, Interlock, ReleasedInMode, TaModePosLine
    PROVE  BoardTypeOK' /\ Interlock' /\ ReleasedInMode'
<1>1. CASE TaModePosRefused /\ UNCHANGED taVars
  <2>1. UNCHANGED <<taVars, akVars>> /\ FeedWatchdog
    BY <1>1 DEF TaModePosLine
  <2>2. PlainLine
    BY <2>1 DEF PlainLine
  <2> QED BY <2>2, PlainLineKeepsBoard
<1>2. CASE ~TaModePosRefused
  <2>1. /\ FeedWatchdog /\ UNCHANGED akVars
        /\ taMode' = 0 /\ taBrake' = 1 /\ taMoveActive' = FALSE /\ taSwitch' = TRUE
        /\ UNCHANGED <<taTarget, taActual, taSettled>>
    BY <1>2 DEF TaModePosLine
  <2>2. BoardTypeOK'
    BY <2>1 DEF BoardTypeOK, FeedWatchdog, akVars
  <2>3. Interlock' /\ ReleasedInMode'
    BY <2>1 DEF Interlock, ReleasedInMode, ProfilePosition
  <2> QED BY <2>2, <2>3
<1> QED BY <1>1, <1>2 DEF TaModePosLine

LEMMA TaPosLineKeepsBoard ==
    ASSUME NEW deg \in Int, BoardTypeOK, Interlock, ReleasedInMode, TaPosLine(deg)
    PROVE  /\ BoardTypeOK' /\ Interlock' /\ ReleasedInMode'
           /\ UNCHANGED <<akVars, taMode, taBrake, taSwitch>>
<1>1. BoundBy(deg, 0, TaMaxDeg) \in Deg
  BY BoardAssumption DEF Deg, BoundBy
<1>2. /\ FeedWatchdog /\ UNCHANGED <<akVars, taMode, taBrake, taSwitch, taActual>>
      /\ taTarget' \in Deg /\ taMoveActive' \in BOOLEAN /\ taSettled' \in BOOLEAN
      /\ taMoveActive' => taMoveActive \/ TaAcceptsTarget
  <2>1. CASE TaAcceptsTarget
    BY <1>1, <2>1 DEF TaPosLine, TaMoveLine
  <2>2. CASE ~TaAcceptsTarget
    BY <2>2 DEF TaPosLine, TaMoveLine, taVars, switchVars, BoardTypeOK
  <2> QED BY <2>1, <2>2
<1>3. BoardTypeOK'
  BY <1>2 DEF BoardTypeOK, FeedWatchdog, akVars
<1>4. Interlock' /\ ReleasedInMode'
  BY <1>2 DEF Interlock, ReleasedInMode, TaAcceptsTarget
<1> QED BY <1>2, <1>3, <1>4

LEMMA StopLinesKeepBoard ==
    ASSUME BoardTypeOK, Interlock, ReleasedInMode, TaStopLine \/ StopAllLine
    PROVE  /\ BoardTypeOK' /\ Interlock' /\ ReleasedInMode'
           /\ TaAbort
<1>1. /\ FeedWatchdog /\ TaAbort /\ UNCHANGED <<taTarget, taActual, taSettled>>
      /\ akTarget' \in Erpm /\ akActive' \in BOOLEAN
  <2>1. CASE TaStopLine
    BY <2>1 DEF TaStopLine, akVars, BoardTypeOK
  <2>2. CASE StopAllLine
    BY <2>2, ZeroErpm DEF StopAllLine, StopAll
  <2> QED BY <2>1, <2>2
<1>2. BoardTypeOK'
  BY <1>1 DEF BoardTypeOK, FeedWatchdog, TaAbort
<1>3. Interlock' /\ ReleasedInMode'
  BY <1>1 DEF Interlock, ReleasedInMode, TaAbort, ProfilePosition
<1> QED BY <1>1, <1>2, <1>3

\* What a step of the board's loop may do to the drive: stop it, finish a mode
\* switch, travel and settle; it never sets a stopped board going.
LEMMA StepKeepsBoard ==
    ASSUME BoardTypeOK, Interlock, ReleasedInMode, Step
    PROVE  /\ BoardTypeOK' /\ Interlock' /\ ReleasedInMode'
           /\ Releasing' => Releasing
           /\ Stopped => Stopped'
<1>1. CASE HostTimeout
  <2>1. /\ TaAbort /\ akTarget' = 0 /\ akActive' = FALSE /\ hostTimedOut' = TRUE
        /\ UNCHANGED <<taTarget, taActual, taSettled, hostSeen, hostSilent>>
    BY <1>1 DEF HostTimeout, StopAll
  <2>2. BoardTypeOK'
    BY <2>1, ZeroErpm DEF BoardTypeOK, TaAbort
  <2>3. Interlock' /\ ReleasedInMode'
    BY <2>1 DEF Interlock, ReleasedInMode, TaAbort, ProfilePosition
  <2>4. Stopped' /\ ~Releasing'
    BY <2>1 DEF Stopped, Releasing, TaAbort
  <2> QED BY <2>2, <2>3, <2>4
<1>2. CASE EnterMode
  <2> USE <1>2 DEF EnterMode, akVars, hostVars
  <2>1. BoardTypeOK'
    BY DEF BoardTypeOK
  <2>2. Interlock' /\ ReleasedInMode'
    BY DEF Interlock, ReleasedInMode
  <2>3. ~Stopped /\ Releasing
    BY DEF Stopped, Releasing
  <2> QED BY <2>1, <2>2, <2>3
<1>3. CASE Travel
  <2> USE <1>3 DEF Travel, akVars, hostVars, switchVars
  <2>1. Travelled \in Deg
    BY BoardAssumption DEF BoardTypeOK, Travelled, BoundBy, Deg
  <2>2. BoardTypeOK'
    BY <2>1 DEF BoardTypeOK
  <2>3. Interlock' /\ ReleasedInMode'
    BY DEF Interlock, ReleasedInMode
  <2>4. Releasing' = Releasing /\ ~Stopped
    BY DEF Stopped, Releasing, Travelling, ProfilePosition
  <2> QED BY <2>2, <2>3, <2>4
<1>4. CASE Settle
  <2> USE <1>4 DEF Settle, akVars, hostVars
  <2>1. BoardTypeOK'
    BY DEF BoardTypeOK
  <2>2. Interlock' /\ ReleasedInMode'
    BY DEF Interlock, ReleasedInMode
  <2>3. Releasing' = Releasing /\ ~Stopped
    BY DEF Stopped, Releasing, Travelling
  <2> QED BY <2>1, <2>2, <2>3
<1>5. CASE Rest
  <2> USE <1>5 DEF Rest, boardVars, akVars, hostVars, taVars, switchVars
  <2>1. BoardTypeOK'
    BY DEF BoardTypeOK
  <2>2. Interlock' /\ ReleasedInMode'
    BY DEF Interlock, ReleasedInMode
  <2>3. Releasing' = Releasing /\ (Stopped => Stopped')
    BY DEF Stopped, Releasing
  <2> QED BY <2>1, <2>2, <2>3
<1> QED BY <1>1, <1>2, <1>3, <1>4, <1>5 DEF Step

LEMMA UnchangedKeepsBoard ==
    ASSUME BoardTypeOK, Interlock, ReleasedInMode, UNCHANGED boardVars
    PROVE  /\ BoardTypeOK' /\ Interlock' /\ ReleasedInMode'
           /\ Releasing' = Releasing /\ (Stopped => Stopped')
<1> USE DEF boardVars, akVars, hostVars, taVars, switchVars
<1>1. BoardTypeOK'
  BY DEF BoardTypeOK
<1>2. Interlock' /\ ReleasedInMode'
  BY DEF Interlock, ReleasedInMode
<1>3. Releasing' = Releasing /\ (Stopped => Stopped')
  BY DEF Releasing, Stopped
<1> QED BY <1>1, <1>2, <1>3

-----------------------------------------------------------------------------
(* The inductive invariant.                                                *)

LEMMA ConversionsInRange ==
    /\ \A requested \in Int : BoundBy(requested, TaMin, TaMax) \in TaDeg
    /\ \A requested \in Int : RoundErpm(BoundBy(requested, AkMin, AkMax)) \in Erpm
    /\ \A deg \in TaDeg : deg \in Int /\ FormatDeg(deg) \in Deg /\ FormatDeg(deg) \in Int
<1>1. \A requested \in Int : BoundBy(requested, TaMin, TaMax) \in TaDeg
  BY ControlAssumption DEF BoundBy, TaDeg
<1>2. \A requested \in Int : BoundBy(requested, AkMin, AkMax) \in AkMin..AkMax
  BY ControlAssumption DEF BoundBy
<1>3. \A deg \in TaDeg : deg \in Deg
  BY ControlAssumption, BoardAssumption DEF TaDeg, Deg
<1>4. \A deg \in Deg : deg \in Int
  BY BoardAssumption DEF Deg
<1> QED BY <1>1, <1>2, <1>3, <1>4, RoundErpmBounds, FormatDegBounds

LEMMA InitIInv == Init => IInv
<1> SUFFICES ASSUME Init PROVE IInv
  OBVIOUS
<1>1. BoardTypeOK /\ Interlock /\ ReleasedInMode /\ ~Releasing
  <2>1. 0 \in Deg
    BY BoardAssumption DEF Deg
  <2>2. BoardTypeOK
    BY <2>1, ZeroErpm DEF Init, BoardInit, BoardTypeOK
  <2>3. Interlock /\ ReleasedInMode /\ ~Releasing
    BY DEF Init, BoardInit, Interlock, ReleasedInMode, Releasing, ProfilePosition
  <2> QED BY <2>2, <2>3
<1>2. ControlTypeOK
  <2>1. tele \in Telemetry
    BY DEF Init, NoTelemetry, Telemetry
  <2>2. queue \in Seq(Command)
    BY DEF Init
  <2> QED BY <2>1, <2>2 DEF Init, ControlTypeOK, PcAt
<1>3. LoopInv /\ BrakeReleasedByInit /\ StoppedInOutage
  BY <1>1 DEF Init, LoopInv, BrakeReleasedByInit, StoppedInOutage
<1> QED BY <1>1, <1>2, <1>3 DEF IInv, TypeOK

\* A step that leaves the board alone: what is left to show of it.
LEMMA QuietStep ==
    ASSUME IInv, UNCHANGED boardVars, ControlTypeOK', LoopInv',
           taOrder' = taOrder, outage' \in {outage, "none", "undelivered", "commanded"}
    PROVE  IInv'
<1>1. BoardTypeOK' /\ Interlock' /\ ReleasedInMode'
      /\ Releasing' = Releasing /\ (Stopped => Stopped')
  BY UnchangedKeepsBoard DEF IInv, TypeOK
<1>2. BrakeReleasedByInit'
  BY <1>1 DEF IInv, BrakeReleasedByInit
<1>3. StoppedInOutage'
  BY <1>1 DEF IInv, StoppedInOutage
<1> QED BY <1>1, <1>2, <1>3 DEF IInv, TypeOK

LEMMA ConnectionStep ==
    ASSUME IInv, ConnectionLost \/ ConnectionChecked
    PROVE  IInv'
<1> USE DEF loopVars, actionVars, relayVars, linkVars
<1>1. CASE ConnectionLost
  <2>1. ControlTypeOK'
    BY <1>1 DEF IInv, TypeOK, ControlTypeOK, ConnectionLost, Becomes, PcAt
  <2>2. LoopInv'
    BY <1>1 DEF ConnectionLost, LoopInv
  <2>3. CASE Delivered
    <3>1. /\ BoardTypeOK' /\ Interlock' /\ ReleasedInMode' /\ TaAbort
          /\ akTarget' = 0
      BY <1>1, <2>3, StopLinesKeepBoard
         DEF IInv, TypeOK, ConnectionLost, Send, StopAllLine, StopAll
    <3>2. Stopped' /\ ~Releasing'
      BY <3>1 DEF Stopped, Releasing, TaAbort
    <3>3. BrakeReleasedByInit' /\ StoppedInOutage'
      BY <3>2 DEF BrakeReleasedByInit, StoppedInOutage
    <3> QED BY <2>1, <2>2, <3>1, <3>3 DEF IInv, TypeOK
  <2>4. CASE ~Delivered
    BY <1>1, <2>1, <2>2, <2>4, QuietStep DEF ConnectionLost, Send, Becomes
  <2> QED BY <2>3, <2>4
<1>2. CASE ConnectionChecked
  <2>1. ControlTypeOK'
    BY <1>2 DEF IInv, TypeOK, ControlTypeOK, ConnectionChecked, PcAt
  <2>2. LoopInv'
    BY <1>2 DEF IInv, TypeOK, ControlTypeOK, ConnectionChecked, LoopInv
  <2> QED BY <1>2, <2>1, <2>2, QuietStep DEF ConnectionChecked
<1> QED BY <1>1, <1>2

LEMMA CommandValues ==
    ASSUME NEW command \in Command, command.op = "set"
    PROVE  /\ command.action = "ak" => command.value \in Int
           /\ command.action = "ta" => command.value \in Int
  BY ControlAssumption DEF Command

\* A delivered line that leaves the control of the loop alone, and the board's
\* drive no more released than it was.
LEMMA LineStep ==
    ASSUME IInv, BoardTypeOK', Interlock', ReleasedInMode', ControlTypeOK', LoopInv',
           Releasing' => Releasing \/ taOrder' = "init",
           taOrder' = taOrder \/ taOrder' = "init" \/ ~Releasing',
           outage' = "stopped" => outage = "stopped" /\ (Stopped => Stopped')
    PROVE  IInv'
<1>1. BrakeReleasedByInit'
  BY DEF IInv, BrakeReleasedByInit
<1>2. StoppedInOutage'
  BY DEF IInv, StoppedInOutage
<1> QED BY <1>1, <1>2 DEF IInv, TypeOK

LEMMA AkCommandStep ==
    ASSUME IInv, ControlTypeOK', LoopInv', taOrder' = taOrder, AkLine,
           outage' = "stopped" => outage = "stopped" /\ akTarget' = 0
    PROVE  IInv'
<1>1. BoardTypeOK' /\ Interlock' /\ ReleasedInMode' /\ UNCHANGED taVars
  BY AkLineKeepsBoard DEF IInv, TypeOK
<1>2. Releasing' => Releasing
  BY <1>1 DEF Releasing, taVars, switchVars
<1>3. outage' = "stopped" => outage = "stopped" /\ (Stopped => Stopped')
  BY <1>1 DEF Stopped, taVars, switchVars
<1> QED BY <1>1, <1>2, <1>3, LineStep

LEMMA CommandStep ==
    ASSUME IInv, ExecuteCommand
    PROVE  IInv'
<1> DEFINE command == Head(queue)
<1>1. /\ pc = "commands" /\ command \in Command /\ queue' \in Seq(Command)
      /\ Execute(command) /\ UNCHANGED <<gsConnected, connected, linkVars>>
  <2>1. queue \in Seq(Command) /\ queue # <<>>
    BY DEF ExecuteCommand, IInv, TypeOK, ControlTypeOK
  <2>2. Head(queue) \in Command /\ Tail(queue) \in Seq(Command)
    BY <2>1
  <2> QED BY <2>2 DEF ExecuteCommand
<1> HIDE DEF command
<1> USE DEF actionVars, historyVars
<1>2. ASSUME pc' \in {pc, "ta_init"}, pending' \in TaDeg \cup {None}, resendDue' \in BOOLEAN,
             taOrder' \in {taOrder, "stop"}, outage' \in {outage, "none", "commanded"}
      PROVE  ControlTypeOK'
  BY <1>1, <1>2 DEF IInv, TypeOK, ControlTypeOK, PcAt, linkVars
<1>3. ASSUME outage' \in {outage, "commanded"},
             pc' = "ta_init" => pending' = None, pc' \in {pc, "ta_init"}
      PROVE  LoopInv'
  BY <1>1, <1>3 DEF IInv, LoopInv
<1>4. CASE command.action = "ak" /\ command.op = "set" /\ AkSet(command.value)
  <2>1. /\ UNCHANGED <<pc, pending, resendDue, taOrder>>
        /\ outage' = IF connected THEN outage ELSE "commanded"
    BY <1>4 DEF AkSet, Restarts
  <2>2. ControlTypeOK' /\ LoopInv'
    BY <1>1, <1>2, <1>3, <2>1 DEF IInv, TypeOK, ControlTypeOK
  <2>3. outage' # "stopped"
    BY <2>1 DEF IInv, LoopInv
  <2>4. CASE Delivered
    <3>1. command.value \in Int
      BY <1>1, <1>4, CommandValues
    <3>2. AkLine
      BY <1>4, <2>4, <3>1, ConversionsInRange DEF AkSet, Send, AkLine
    <3> QED BY <2>1, <2>2, <2>3, <3>2, AkCommandStep
  <2>5. CASE ~Delivered
    BY <1>4, <2>1, <2>2, <2>5, QuietStep DEF AkSet, Send
  <2> QED BY <2>4, <2>5
<1>5. CASE AkStop \/ AkReinit
  <2>1. UNCHANGED <<pc, pending, resendDue, taOrder, outage>>
    BY <1>5 DEF AkStop, AkReinit
  <2>2. ControlTypeOK' /\ LoopInv'
    BY <1>1, <1>2, <1>3, <2>1 DEF IInv, TypeOK, ControlTypeOK
  <2>3. CASE Delivered
    <3>1. AkLine /\ akTarget' = 0
      BY <1>5, <2>3 DEF AkStop, AkReinit, Send, AkLine, AkStopLine, AkIdleLine
    <3> QED BY <2>1, <2>2, <3>1, AkCommandStep
  <2>4. CASE ~Delivered
    BY <1>5, <2>1, <2>2, <2>4, QuietStep DEF AkStop, AkReinit, Send
  <2> QED BY <2>3, <2>4
<1>6. CASE command.action = "ta" /\ command.op = "set" /\ TaSet(command.value)
  <2>1. command.value \in Int
    BY <1>1, <1>6, CommandValues
  <2>2. /\ UNCHANGED <<pc, taOrder, outage, boardVars>>
        /\ pending' \in TaDeg /\ resendDue' = TRUE
    BY <1>6, <2>1, ConversionsInRange DEF TaSet
  <2>3. ControlTypeOK' /\ LoopInv'
    BY <1>1, <1>2, <1>3, <2>2
  <2> QED BY <2>2, <2>3, QuietStep
<1>7. CASE TaStop
  <2>1. pending' = None /\ UNCHANGED <<pc, resendDue, outage>> /\ taOrder' \in {taOrder, "stop"}
    BY <1>7 DEF TaStop, Becomes
  <2>2. ControlTypeOK' /\ LoopInv'
    BY <1>1, <1>2, <1>3, <2>1 DEF IInv, TypeOK, ControlTypeOK
  <2>3. CASE Delivered
    <3>1. TaStopLine
      BY <1>7, <2>3 DEF TaStop, Send
    <3>2. BoardTypeOK' /\ Interlock' /\ ReleasedInMode' /\ TaAbort /\ UNCHANGED akVars
      BY <3>1, StopLinesKeepBoard DEF IInv, TypeOK, TaStopLine
    <3>3. ~Releasing' /\ (Stopped => Stopped')
      BY <3>2 DEF Releasing, Stopped, TaAbort, akVars
    <3> QED BY <2>1, <2>2, <3>2, <3>3, LineStep
  <2>4. CASE ~Delivered
    BY <1>7, <2>1, <2>2, <2>4, QuietStep DEF TaStop, Send, Becomes
  <2> QED BY <2>3, <2>4
<1>8. CASE TaReset
  <2>1. pending' = None /\ UNCHANGED <<pc, resendDue, taOrder, outage, boardVars>>
    BY <1>8 DEF TaReset
  <2>2. ControlTypeOK' /\ LoopInv'
    BY <1>1, <1>2, <1>3, <2>1 DEF IInv, TypeOK, ControlTypeOK
  <2> QED BY <2>1, <2>2, QuietStep
<1>9. CASE TaReinit
  <2>1. pending' = None /\ pc' = "ta_init" /\ UNCHANGED <<resendDue, taOrder, outage>>
    BY <1>9 DEF TaReinit
  <2>2. ControlTypeOK' /\ LoopInv'
    BY <1>1, <1>2, <1>3, <2>1 DEF IInv, TypeOK, ControlTypeOK
  <2>3. CASE Delivered
    <3>1. PlainLine
      BY <1>9, <2>3 DEF TaReinit, Send
    <3>2. BoardTypeOK' /\ Interlock' /\ ReleasedInMode' /\ UNCHANGED <<akVars, taVars>>
      BY <3>1, PlainLineKeepsBoard DEF IInv, TypeOK, PlainLine
    <3>3. (Releasing' => Releasing) /\ (Stopped => Stopped')
      BY <3>2 DEF Releasing, Stopped, akVars, taVars, switchVars
    <3> QED BY <2>1, <2>2, <3>2, <3>3, LineStep
  <2>4. CASE ~Delivered
    BY <1>9, <2>1, <2>2, <2>4, QuietStep DEF TaReinit, Send
  <2> QED BY <2>3, <2>4
<1> QED BY <1>1, <1>4, <1>5, <1>6, <1>7, <1>8, <1>9 DEF Execute

LEMMA InitModeStep ==
    ASSUME IInv, TaReinitMode
    PROVE  IInv'
<1>1. /\ pc = "ta_init" /\ pc' = "commands" /\ UNCHANGED <<connected, pending, resendDue>>
      /\ taOrder' = IF Delivered THEN "init" ELSE taOrder
      /\ outage' = IF connected THEN outage ELSE "commanded"
      /\ UNCHANGED <<gsConnected, queue, tele, line, port>>
  BY DEF TaReinitMode, Becomes, Restarts, actionVars, relayVars, linkVars
<1>2. ControlTypeOK'
  BY <1>1 DEF IInv, TypeOK, ControlTypeOK, PcAt
<1>3. LoopInv' /\ outage' # "stopped"
  BY <1>1 DEF IInv, LoopInv
<1>4. CASE Delivered
  <2>1. TaModePosLine
    BY <1>4 DEF TaReinitMode, Send
  <2>2. BoardTypeOK' /\ Interlock' /\ ReleasedInMode'
    BY <2>1, TaModePosLineKeepsBoard DEF IInv, TypeOK
  <2> QED BY <1>1, <1>2, <1>3, <1>4, <2>2, LineStep
<1>5. CASE ~Delivered
  BY <1>1, <1>2, <1>3, <1>5, QuietStep DEF TaReinitMode, Send
<1> QED BY <1>4, <1>5

LEMMA TaUpdateStep ==
    ASSUME IInv, TaUpdate \/ CommandsDone
    PROVE  IInv'
<1> USE DEF actionVars, relayVars, linkVars, historyVars
<1>1. CASE CommandsDone \/ TaConfirmed \/ TaUnconfirmed \/ TaCheckMode \/ TaCheckMoving
  <2>1. /\ UNCHANGED <<boardVars, connected, resendDue, relayVars, linkVars, historyVars>>
        /\ pending' \in {pending, None} /\ pc' \in PcAt
    BY <1>1 DEF CommandsDone, TaConfirmed, TaUnconfirmed, TaCheckMode, TaCheckMoving, PcAt
  <2>2. ControlTypeOK'
    BY <2>1 DEF IInv, TypeOK, ControlTypeOK
  <2>3. LoopInv'
    BY <1>1, <2>1 DEF IInv, LoopInv, CommandsDone, TaConfirmed, TaUnconfirmed,
                      TaCheckMode, TaCheckMoving
  <2> QED BY <2>1, <2>2, <2>3, QuietStep
<1>2. CASE TaSend
  <2>1. /\ pc = "ta_send" /\ pc' = "connection" /\ resendDue' = FALSE
        /\ UNCHANGED <<connected, pending, relayVars, linkVars, historyVars>>
    BY <1>2 DEF TaSend
  <2>2. ControlTypeOK' /\ LoopInv'
    BY <2>1 DEF IInv, TypeOK, ControlTypeOK, LoopInv, PcAt
  <2>3. CASE Delivered
    <3>1. FormatDeg(pending) \in Int
      BY <2>1, ConversionsInRange DEF IInv, LoopInv, TypeOK, ControlTypeOK
    <3>2. TaPosLine(FormatDeg(pending))
      BY <1>2, <2>3 DEF TaSend, Send
    <3>3. BoardTypeOK' /\ Interlock' /\ ReleasedInMode'
          /\ UNCHANGED <<akVars, taMode, taBrake, taSwitch>>
      BY <3>1, <3>2, TaPosLineKeepsBoard DEF IInv, TypeOK
    <3>4. Releasing' = Releasing
      BY <3>3 DEF Releasing
    <3>5. Stopped => Stopped'
      BY <3>3 DEF Stopped, akVars, Interlock, ProfilePosition
    <3> QED BY <2>1, <2>2, <3>3, <3>4, <3>5, LineStep
  <2>4. CASE ~Delivered
    BY <1>2, <2>1, <2>2, <2>4, QuietStep DEF TaSend, Send
  <2> QED BY <2>3, <2>4
<1> QED BY <1>1, <1>2 DEF TaUpdate

LEMMA BoardThreadStep ==
    ASSUME IInv, BoardStep
    PROVE  IInv'
<1>1. /\ Step /\ line' = TelemetryLine'
      /\ UNCHANGED <<pc, connected, pending, resendDue, gsConnected, queue, tele, port,
                     taOrder, outage>>
  BY DEF BoardStep, loopVars, actionVars, relayVars, historyVars
<1>2. /\ BoardTypeOK' /\ Interlock' /\ ReleasedInMode'
      /\ Releasing' => Releasing
      /\ Stopped => Stopped'
  BY <1>1, StepKeepsBoard DEF IInv, TypeOK
<1>3. line' \in Telemetry
  <2>1. FormatDeg(taTarget') \in Int /\ taMode' \in Int
    <3>1. taTarget' \in Deg /\ taMode' \in {0, 7}
      BY <1>2 DEF BoardTypeOK, ProfilePosition
    <3> QED BY <3>1, FormatDegBounds, BoardAssumption DEF Deg
  <2>2. \A channel \in Channel : TelemetryLine'[channel] \in Int
    BY <2>1 DEF TelemetryLine, Channel
  <2> QED BY <1>1, <2>2 DEF Telemetry, TelemetryLine
<1>4. ControlTypeOK'
  BY <1>1, <1>3 DEF IInv, TypeOK, ControlTypeOK
<1>5. LoopInv'
  BY <1>1 DEF IInv, LoopInv
<1> QED BY <1>1, <1>2, <1>4, <1>5, LineStep

LEMMA EnvironmentStep ==
    ASSUME IInv,
           \/ GsConnectionChanges \/ GsCommand \/ Keepalive \/ OnLine
           \/ ResendFallsDue \/ TelemetryExpires \/ HostGoesSilent \/ PortChanges
    PROVE  IInv'
<1> USE DEF loopVars, actionVars, relayVars, linkVars, historyVars
<1>1. CASE GsConnectionChanges \/ ResendFallsDue
  <2>1. ControlTypeOK'
    BY <1>1 DEF IInv, TypeOK, ControlTypeOK, GsConnectionChanges, ResendFallsDue
  <2>2. LoopInv' /\ UNCHANGED <<boardVars, taOrder, outage>>
    BY <1>1 DEF IInv, LoopInv, GsConnectionChanges, ResendFallsDue
  <2> QED BY <2>1, <2>2, QuietStep
<1>2. CASE GsCommand
  <2>1. queue' \in Seq(Command)
    <3>1. queue \in Seq(Command)
      BY DEF IInv, TypeOK, ControlTypeOK
    <3>2. PICK command \in Command : queue' = Append(queue, command)
      BY <1>2 DEF GsCommand
    <3> QED BY <3>1, <3>2
  <2>2. ControlTypeOK' /\ LoopInv' /\ UNCHANGED <<boardVars, taOrder, outage>>
    BY <1>2, <2>1 DEF IInv, TypeOK, ControlTypeOK, LoopInv, GsCommand
  <2> QED BY <2>2, QuietStep
<1>3. CASE OnLine \/ TelemetryExpires
  <2>1. tele' \in Telemetry
    BY <1>3 DEF IInv, TypeOK, ControlTypeOK, OnLine, TelemetryExpires, Telemetry
  <2>2. /\ line' \in {line, None} /\ port' \in {port, IF port = "fresh" THEN "open" ELSE port}
        /\ UNCHANGED <<boardVars, loopVars, actionVars, relayVars, historyVars>>
    BY <1>3 DEF OnLine, TelemetryExpires
  <2>3. ControlTypeOK'
    BY <2>1, <2>2 DEF IInv, TypeOK, ControlTypeOK
  <2>4. LoopInv'
    BY <2>2 DEF IInv, LoopInv
  <2> QED BY <2>2, <2>3, <2>4, QuietStep
<1>4. CASE PortChanges
  <2>1. ControlTypeOK'
    BY <1>4, ControlAssumption DEF IInv, TypeOK, ControlTypeOK, PortChanges, Delivered
  <2>2. LoopInv' /\ UNCHANGED <<boardVars, taOrder, outage>>
    BY <1>4 DEF IInv, LoopInv, PortChanges
  <2> QED BY <2>1, <2>2, QuietStep
<1>5. CASE Keepalive \/ HostGoesSilent
  <2>1. UNCHANGED controlVars
    BY <1>5 DEF Keepalive, HostGoesSilent
  <2>2. ControlTypeOK' /\ LoopInv' /\ UNCHANGED <<taOrder, outage>>
    BY <2>1 DEF IInv, TypeOK, ControlTypeOK, LoopInv, controlVars
  <2>3. /\ BoardTypeOK' /\ Interlock' /\ ReleasedInMode'
        /\ UNCHANGED <<akTarget, taMode, taBrake, taMoveActive, taSwitch>>
    <3>1. CASE UNCHANGED boardVars
      BY <3>1, UnchangedKeepsBoard DEF IInv, TypeOK, boardVars, akVars, taVars, switchVars
    <3>2. CASE PlainLine
      BY <3>2, PlainLineKeepsBoard DEF IInv, TypeOK, PlainLine, akVars, taVars, switchVars
    <3>3. CASE HostFallsSilent
      <4>1. /\ UNCHANGED <<akVars, taVars>> /\ hostSilent' \in BOOLEAN
            /\ UNCHANGED <<hostSeen, hostTimedOut>>
        BY <3>3 DEF HostFallsSilent
      <4>2. BoardTypeOK'
        BY <4>1 DEF IInv, TypeOK, BoardTypeOK, akVars, taVars, switchVars
      <4> QED BY <4>1, <4>2 DEF IInv, Interlock, ReleasedInMode, akVars, taVars, switchVars
    <3> QED BY <1>5, <3>1, <3>2, <3>3 DEF Keepalive, HostGoesSilent, Send
  <2>4. Releasing' = Releasing /\ (Stopped => Stopped')
    BY <2>3 DEF Releasing, Stopped
  <2> QED BY <2>2, <2>3, <2>4, LineStep
<1> QED BY <1>1, <1>2, <1>3, <1>4, <1>5

\* The inductive invariant: types, the board's interlock, where the loop is,
\* and the two properties it is for.
THEOREM Inductive == Spec => []IInv
<1>1. IInv /\ [Next]_vars => IInv'
  <2> SUFFICES ASSUME IInv, [Next]_vars PROVE IInv'
    OBVIOUS
  <2>1. CASE MainLoop
    BY <2>1, ConnectionStep, CommandStep, InitModeStep, TaUpdateStep DEF MainLoop
  <2>2. CASE BoardStep
    BY <2>2, BoardThreadStep
  <2>3. CASE \/ GsConnectionChanges \/ GsCommand \/ Keepalive \/ OnLine
             \/ ResendFallsDue \/ TelemetryExpires \/ HostGoesSilent \/ PortChanges
    BY <2>3, EnvironmentStep
  <2>4. CASE UNCHANGED vars
    <3>1. ControlTypeOK' /\ LoopInv' /\ UNCHANGED <<boardVars, taOrder, outage>>
      BY <2>4 DEF IInv, TypeOK, ControlTypeOK, LoopInv, vars, controlVars,
                  loopVars, actionVars, relayVars, linkVars, historyVars
    <3> QED BY <3>1, QuietStep
  <2> QED BY <2>1, <2>2, <2>3, <2>4 DEF Next
<1> QED BY <1>1, InitIInv, PTL DEF Spec

-----------------------------------------------------------------------------
(* What the checked runs ask of a small instance, for every instance.      *)

\* Every variable keeps its type, in particular each conversion of a request,
\* of telemetry and of a sent target stays in the drive's range.
THEOREM TypeCorrect == Spec => []TypeOK
<1>1. IInv => TypeOK
  BY DEF IInv
<1> QED BY <1>1, Inductive, PTL

\* The brake of the TA70 is released by an operator's init only.
THEOREM BrakeIsReleasedByInit == Spec => []BrakeReleasedByInit
<1>1. IInv => BrakeReleasedByInit
  BY DEF IInv
<1> QED BY <1>1, Inductive, PTL

\* The TA70 moves in position mode only, and never against its brake.
THEOREM MovesAreReleased == Spec => []MovesReleased
<1>1. IInv => MovesReleased
  BY DEF IInv, Interlock, ReleasedInMode, MovesReleased
<1> QED BY <1>1, Inductive, PTL

\* Between a delivered "stop all" and the next command that can set a motor
\* going, no motor runs and the brake is locked.
THEOREM OutageIsStandstill == Spec => []StoppedInOutage
<1>1. IInv => StoppedInOutage
  BY DEF IInv
<1> QED BY <1>1, Inductive, PTL

-----------------------------------------------------------------------------
(* The client and the board together implement TaDrive.                    *)

DriveVars == <<Phase, Wanted, Goal>>

\* What the steps that do not touch the drive share.
LEMMA DriveStutters ==
    ASSUME UNCHANGED <<pending, taMode, taSwitch, taMoveActive, taTarget>>
    PROVE  UNCHANGED DriveVars
  BY DEF DriveVars, Phase, Wanted, Goal

LEMMA DriveWithdraws ==
    ASSUME pending' = None, UNCHANGED <<taMode, taSwitch, taMoveActive, taTarget>>
    PROVE  Drive!Withdraw
  BY DEF Drive!Withdraw, Phase, Wanted, Goal

LEMMA DriveAborts ==
    ASSUME TaAbort, pending' \in {pending, None}
    PROVE  Drive!Abort \/ Drive!Stop
<1>1. Phase' = "locked" /\ Goal' = None
  BY DEF TaAbort, Phase, Goal, ProfilePosition
<1>2. Wanted' = Wanted \/ Wanted' = None
  BY DEF Wanted
<1> QED BY <1>1, <1>2 DEF Drive!Abort, Drive!Stop

LEMMA DriveInit == Init => Drive!Init
  BY DEF Init, BoardInit, Drive!Init, Phase, Wanted, Goal, ProfilePosition

LEMMA DriveOfLoopStep ==
    ASSUME IInv, MainLoop
    PROVE  Drive!Next \/ UNCHANGED DriveVars
<1> USE DEF boardVars, taVars, switchVars, actionVars
<1>1. CASE ConnectionLost
  <2>1. CASE Delivered
    BY <1>1, <2>1, DriveAborts DEF ConnectionLost, Send, StopAllLine, StopAll, Drive!Next
  <2>2. CASE ~Delivered
    BY <1>1, <2>2, DriveStutters DEF ConnectionLost, Send
  <2> QED BY <2>1, <2>2
<1>2. CASE ConnectionChecked \/ CommandsDone \/ TaUnconfirmed \/ TaCheckMode \/ TaCheckMoving
  BY <1>2, DriveStutters
     DEF ConnectionChecked, CommandsDone, TaUnconfirmed, TaCheckMode, TaCheckMoving
<1>3. CASE TaConfirmed
  BY <1>3, DriveWithdraws DEF TaConfirmed, Drive!Next
<1>4. CASE ExecuteCommand
  <2> DEFINE command == Head(queue)
  <2>1. Execute(command) /\ command \in Command
    <3>1. queue \in Seq(Command) /\ queue # <<>>
      BY <1>4 DEF ExecuteCommand, IInv, TypeOK, ControlTypeOK
    <3>2. Head(queue) \in Command
      BY <3>1
    <3> QED BY <1>4, <3>2 DEF ExecuteCommand
  <2> HIDE DEF command
  <2>2. CASE command.action = "ak" /\ command.op = "set" /\ AkSet(command.value)
    BY <2>2, DriveStutters DEF AkSet, Send, AkSpeedLine
  <2>3. CASE AkStop \/ AkReinit
    BY <2>3, DriveStutters DEF AkStop, AkReinit, Send, AkStopLine, AkIdleLine
  <2>4. CASE command.action = "ta" /\ command.op = "set" /\ TaSet(command.value)
    <3>1. pending' \in TaDeg /\ UNCHANGED <<taMode, taSwitch, taMoveActive, taTarget>>
      BY <2>1, <2>4, CommandValues, ConversionsInRange DEF TaSet
    <3>2. pending' # None
      BY <3>1, ControlAssumption DEF TaDeg
    <3>3. Drive!Request(FormatDeg(pending'))
      BY <3>1, <3>2 DEF Drive!Request, Phase, Wanted, Goal
    <3>4. FormatDeg(pending') \in {FormatDeg(deg) : deg \in TaDeg}
      BY <3>1
    <3> QED BY <3>3, <3>4 DEF Drive!Next
  <2>5. CASE TaStop
    <3>1. CASE Delivered
      BY <2>5, <3>1, DriveAborts DEF TaStop, Send, TaStopLine, Drive!Next
    <3>2. CASE ~Delivered
      BY <2>5, <3>2, DriveWithdraws DEF TaStop, Send, Drive!Next
    <3> QED BY <3>1, <3>2
  <2>6. CASE TaReset \/ TaReinit
    BY <2>6, DriveWithdraws DEF TaReset, TaReinit, Send, PlainLine, Drive!Next
  <2> QED BY <2>1, <2>2, <2>3, <2>4, <2>5, <2>6 DEF Execute
<1>5. CASE TaReinitMode
  <2>1. pending = None /\ pending' = None
    BY <1>5 DEF TaReinitMode, IInv, LoopInv
  <2>2. CASE Delivered /\ ~TaModePosRefused
    <3>1. taSwitch' = TRUE /\ taMoveActive' = FALSE
      BY <1>5, <2>2 DEF TaReinitMode, Send, TaModePosLine
    <3>2. Drive!BeginInit
      BY <2>1, <3>1 DEF Drive!BeginInit, Phase, Wanted, Goal
    <3> QED BY <3>2 DEF Drive!Next
  <2>3. CASE ~Delivered \/ TaModePosRefused
    BY <1>5, <2>3, DriveStutters DEF TaReinitMode, Send, TaModePosLine
  <2> QED BY <2>2, <2>3
<1>6. CASE TaSend
  <2>1. pending \in TaDeg /\ pending # None /\ UNCHANGED pending
    BY <1>6 DEF TaSend, IInv, TypeOK, ControlTypeOK, LoopInv
  <2>2. CASE Delivered /\ TaAcceptsTarget
    <3>1. /\ taTarget' = BoundBy(FormatDeg(pending), 0, TaMaxDeg)
          /\ taMoveActive' = TRUE /\ UNCHANGED <<taMode, taSwitch>>
      BY <1>6, <2>2 DEF TaSend, Send, TaPosLine, TaMoveLine
    <3>2. FormatDeg(pending) \in 0..TaMaxDeg
      BY <2>1, ConversionsInRange DEF Deg
    <3>3. BoundBy(FormatDeg(pending), 0, TaMaxDeg) = FormatDeg(pending)
      BY <3>2, BoardAssumption DEF BoundBy
    <3>4. taMode = ProfilePosition /\ ~taMoveActive /\ ~taSwitch
      BY <2>2 DEF TaAcceptsTarget, IInv, Interlock, ProfilePosition
    <3>5. Phase = "holding" /\ Phase' = "moving"
      BY <3>1, <3>4 DEF Phase
    <3>6. Wanted = FormatDeg(pending) /\ UNCHANGED Wanted /\ Goal' = FormatDeg(pending)
      BY <2>1, <3>1, <3>3 DEF Wanted, Goal
    <3>7. Wanted # None
      BY <3>2, <3>6, ControlAssumption, BoardAssumption
    <3>8. Drive!Accept
      BY <3>5, <3>6, <3>7 DEF Drive!Accept
    <3> QED BY <3>8 DEF Drive!Next
  <2>3. CASE ~Delivered \/ ~TaAcceptsTarget
    BY <1>6, <2>1, <2>3, DriveStutters DEF TaSend, Send, TaPosLine, TaMoveLine
  <2> QED BY <2>2, <2>3
<1> QED BY <1>1, <1>2, <1>3, <1>4, <1>5, <1>6 DEF MainLoop, TaUpdate

LEMMA DriveOfBoardStep ==
    ASSUME IInv, BoardStep
    PROVE  Drive!Next \/ UNCHANGED DriveVars
<1>1. UNCHANGED pending /\ Step
  BY DEF BoardStep, actionVars
<1>2. CASE HostTimeout
  BY <1>1, <1>2, DriveAborts DEF HostTimeout, StopAll, Drive!Next
<1>3. CASE EnterMode
  <2>1. taSwitch /\ ~taMoveActive
    BY <1>3 DEF EnterMode, IInv, Interlock, ProfilePosition
  <2>2. taSwitch' = FALSE /\ taMode' = ProfilePosition /\ UNCHANGED taMoveActive
    BY <1>3 DEF EnterMode
  <2>3. Drive!FinishInit
    BY <1>1, <2>1, <2>2 DEF Drive!FinishInit, Phase, Wanted, Goal
  <2> QED BY <2>3 DEF Drive!Next
<1>4. CASE Travel \/ Rest
  BY <1>1, <1>4, DriveStutters DEF Travel, Rest, boardVars, taVars, switchVars
<1>5. CASE Settle
  <2>1. taMode = ProfilePosition /\ taMoveActive /\ ~taSwitch
    BY <1>5 DEF Settle, Travelling, IInv, Interlock, ProfilePosition
  <2>2. taMoveActive' = FALSE /\ UNCHANGED <<taMode, taSwitch>>
    BY <1>5 DEF Settle
  <2>3. Drive!Settle
    BY <1>1, <2>1, <2>2 DEF Drive!Settle, Phase, Wanted, Goal
  <2> QED BY <2>3 DEF Drive!Next
<1> QED BY <1>1, <1>2, <1>3, <1>4, <1>5 DEF Step

LEMMA DriveOfOtherStep ==
    ASSUME \/ GsConnectionChanges \/ GsCommand \/ Keepalive \/ OnLine
           \/ ResendFallsDue \/ TelemetryExpires \/ HostGoesSilent \/ PortChanges
           \/ UNCHANGED vars
    PROVE  UNCHANGED DriveVars
<1> USE DEF boardVars, taVars, switchVars, actionVars, controlVars, vars
<1>1. UNCHANGED <<pending, taMode, taSwitch, taMoveActive, taTarget>>
  BY DEF GsConnectionChanges, GsCommand, Keepalive, Send, PlainLine, OnLine,
         ResendFallsDue, TelemetryExpires, HostGoesSilent, HostFallsSilent, PortChanges
<1> QED BY <1>1, DriveStutters

\* The client and the board together are a drive as TaDrive describes it: the
\* TA70 moves to the target asked for last, one move at a time, and to no
\* target asked for before the last init.
THEOREM ImplementsDrive == Spec => DriveSpec
<1>1. IInv /\ [Next]_vars => [Drive!Next]_DriveVars
  BY DriveOfLoopStep, DriveOfBoardStep, DriveOfOtherStep DEF Next
<1>2. [Drive!Next]_DriveVars => [Drive!Next]_(Drive!vars)
  BY DEF DriveVars, Drive!vars
<1> QED BY <1>1, <1>2, DriveInit, Inductive, PTL DEF Spec, DriveSpec, Drive!Spec

-----------------------------------------------------------------------------
(* The client is one of the hosts OlimexinoBoardAlone reckons with.        *)

AnyHost == INSTANCE OlimexinoBoardAlone WITH HostDegs <- Deg, HostErpms <- Erpm

\* The lines the client sends.
ClientLine ==
    \/ PlainLine \/ AkStopLine \/ AkIdleLine \/ \E erpm \in Erpm : AkSpeedLine(erpm)
    \/ TaModePosLine \/ \E deg \in Deg : TaPosLine(deg)
    \/ TaStopLine \/ StopAllLine

LEMMA ClientLineIsHostLine == ClientLine => AnyHost!HostLine
<1> USE DEF AnyHost!HostLine, FeedWatchdog, AnyHost!FeedWatchdog, akVars, AnyHost!akVars,
        taVars, AnyHost!taVars, switchVars, AnyHost!switchVars
<1>1. CASE PlainLine \/ AkStopLine \/ AkIdleLine
  BY <1>1 DEF PlainLine, AnyHost!PlainLine, AkStopLine, AnyHost!AkStopLine,
              AkIdleLine, AnyHost!AkIdleLine
<1>2. CASE \E erpm \in Erpm : AkSpeedLine(erpm)
  BY <1>2 DEF AkSpeedLine, AnyHost!AkSpeedLine, Distance, AnyHost!Distance
<1>3. CASE TaModePosLine
  BY <1>3 DEF TaModePosLine, AnyHost!TaModePosLine, TaModePosRefused, AnyHost!TaModePosRefused
<1>4. CASE \E deg \in Deg : TaPosLine(deg)
  BY <1>4 DEF TaPosLine, AnyHost!TaPosLine, TaMoveLine, AnyHost!TaMoveLine, BoundBy, AnyHost!BoundBy,
              TaAcceptsTarget, AnyHost!TaAcceptsTarget, ProfilePosition, AnyHost!ProfilePosition
<1>5. CASE TaStopLine \/ StopAllLine
  BY <1>5 DEF TaStopLine, AnyHost!TaStopLine, StopAllLine, AnyHost!StopAllLine,
              StopAll, AnyHost!StopAll, TaAbort, AnyHost!TaAbort
<1> QED BY <1>1, <1>2, <1>3, <1>4, <1>5 DEF ClientLine

LEMMA StepIsBoardStep == Step => AnyHost!Step
<1> USE DEF AnyHost!Step, HostExpired, AnyHost!HostExpired, akVars, AnyHost!akVars,
        taVars, AnyHost!taVars, switchVars, AnyHost!switchVars, hostVars, AnyHost!hostVars,
        ProfilePosition, AnyHost!ProfilePosition, Travelling, AnyHost!Travelling
<1>1. CASE HostTimeout
  BY <1>1 DEF HostTimeout, AnyHost!HostTimeout, StopAll, AnyHost!StopAll, TaAbort, AnyHost!TaAbort
<1>2. CASE EnterMode
  BY <1>2 DEF EnterMode, AnyHost!EnterMode
<1>3. CASE Travel \/ Settle
  <2>1. AnyHost!Travelled = Travelled
    BY DEF Travelled, AnyHost!Travelled, BoundBy, AnyHost!BoundBy
  <2>2. AnyHost!Distance(taTarget, Travelled) = Distance(taTarget, Travelled)
    BY DEF Distance, AnyHost!Distance
  <2> QED BY <1>3, <2>1, <2>2 DEF Travel, AnyHost!Travel, Settle, AnyHost!Settle
<1>4. CASE Rest
  BY <1>4 DEF Rest, AnyHost!Rest, boardVars, AnyHost!boardVars
<1> QED BY <1>1, <1>2, <1>3, <1>4 DEF Step

\* Each step of the main loop sends one line at most.
LEMMA LoopSendsALine ==
    ASSUME IInv, MainLoop
    PROVE  ClientLine \/ UNCHANGED boardVars
<1> USE DEF ClientLine, Send
<1>1. CASE ConnectionLost \/ TaReinitMode
  BY <1>1 DEF ConnectionLost, TaReinitMode
<1>2. CASE ConnectionChecked \/ CommandsDone \/ TaConfirmed \/ TaUnconfirmed \/ TaCheckMode \/ TaCheckMoving
  BY <1>2 DEF ConnectionChecked, CommandsDone, TaConfirmed, TaUnconfirmed, TaCheckMode, TaCheckMoving
<1>3. CASE ExecuteCommand
  <2> DEFINE command == Head(queue)
  <2>1. Execute(command) /\ command \in Command
    <3>1. queue \in Seq(Command) /\ queue # <<>>
      BY <1>3 DEF ExecuteCommand, IInv, TypeOK, ControlTypeOK
    <3>2. Head(queue) \in Command
      BY <3>1
    <3> QED BY <1>3, <3>2 DEF ExecuteCommand
  <2> HIDE DEF command
  <2>2. CASE command.action = "ak" /\ command.op = "set" /\ AkSet(command.value)
    <3>1. RoundErpm(BoundBy(command.value, AkMin, AkMax)) \in Erpm
      BY <2>1, <2>2, CommandValues, ConversionsInRange
    <3> QED BY <2>2, <3>1 DEF AkSet
  <2>3. CASE AkStop \/ AkReinit \/ TaStop \/ TaReinit
    BY <2>3 DEF AkStop, AkReinit, TaStop, TaReinit
  <2>4. CASE TaReset \/ \E requested : TaSet(requested)
    BY <2>4 DEF TaReset, TaSet
  <2> QED BY <2>1, <2>2, <2>3, <2>4 DEF Execute
<1>4. CASE TaSend
  <2>1. pending \in TaDeg
    BY <1>4 DEF TaSend, IInv, TypeOK, ControlTypeOK, LoopInv
  <2>2. FormatDeg(pending) \in Deg
    BY <2>1, ConversionsInRange
  <2> QED BY <1>4, <2>2 DEF TaSend
<1> QED BY <1>1, <1>2, <1>3, <1>4 DEF MainLoop, TaUpdate

\* The client sends nothing but lines the board knows, one at a time, and no
\* speed or angle beyond the drives' limits (setters and update() of the
\* actions, send()): what holds of the board with any host holds here too.
THEOREM ClientIsAHost == Spec => AnyHost!Spec
<1>1. Init => AnyHost!BoardInit
  BY DEF Init, BoardInit, AnyHost!BoardInit
<1>2. IInv /\ [Next]_vars => [AnyHost!Next]_boardVars
  <2> SUFFICES ASSUME IInv, [Next]_vars PROVE AnyHost!Next \/ UNCHANGED boardVars
    OBVIOUS
  <2>1. CASE MainLoop
    BY <2>1, LoopSendsALine, ClientLineIsHostLine DEF AnyHost!Next
  <2>2. CASE Keepalive
    BY <2>2, ClientLineIsHostLine DEF Keepalive, Send, ClientLine, AnyHost!Next
  <2>3. CASE BoardStep
    BY <2>3, StepIsBoardStep DEF BoardStep, AnyHost!Next
  <2>4. CASE HostGoesSilent
    BY <2>4 DEF HostGoesSilent, HostFallsSilent, AnyHost!HostFallsSilent, AnyHost!Next,
                akVars, AnyHost!akVars, taVars, AnyHost!taVars, switchVars, AnyHost!switchVars
  <2>5. CASE GsConnectionChanges \/ GsCommand \/ OnLine \/ ResendFallsDue \/ TelemetryExpires \/ PortChanges
    BY <2>5 DEF GsConnectionChanges, GsCommand, OnLine, ResendFallsDue, TelemetryExpires, PortChanges
  <2>6. CASE UNCHANGED vars
    BY <2>6 DEF vars
  <2> QED BY <2>1, <2>2, <2>3, <2>4, <2>5, <2>6 DEF Next
<1>3. [AnyHost!Next]_boardVars => [AnyHost!Next]_(AnyHost!boardVars)
  BY DEF boardVars, AnyHost!boardVars, akVars, AnyHost!akVars, taVars, AnyHost!taVars,
         switchVars, AnyHost!switchVars, hostVars, AnyHost!hostVars
<1> QED BY <1>1, <1>2, <1>3, Inductive, PTL DEF Spec, AnyHost!Spec

-----------------------------------------------------------------------------
(* A target on its way to the board and back.                              *)

\* Formatting a number that was formatted before changes nothing.
LEMMA FormatTwice == ASSUME NEW deg \in Deg PROVE FormatDeg(FormatDeg(deg)) = FormatDeg(deg)
<1> DEFINE g == DegGrid
           h == DegGrid \div 2
           j == (deg + h) \div g
<1>1. g \in Nat /\ g > 0 /\ deg \in Nat
  BY BoardAssumption DEF Deg
<1>2. h \in Nat /\ h < g
  BY <1>1
<1>3. j \in Int /\ FormatDeg(deg) = g * j
  BY <1>1, <1>2 DEF FormatDeg
<1> HIDE DEF g, h, j
<1>4. PICK p \in Int : p = g * j
  BY <1>1, <1>3
<1>5. PICK k \in Int : k = (p + h) \div g /\ g * k <= p + h /\ p + h < g * k + g
  BY <1>1, <1>2
<1>6. ~(k > j)
  <2> SUFFICES ASSUME k >= j + 1 PROVE FALSE
    BY <1>3, <1>5
  <2>1. g * (j + 1) <= g * k
    BY <1>1, <1>3, <1>5
  <2>2. g * (j + 1) = p + g
    BY <1>1, <1>3, <1>4
  <2> QED BY <1>1, <1>2, <1>5, <2>1, <2>2
<1>7. ~(k < j)
  <2> SUFFICES ASSUME k + 1 <= j PROVE FALSE
    BY <1>3, <1>5
  <2>1. g * (k + 1) <= g * j
    BY <1>1, <1>3, <1>5
  <2>2. g * (k + 1) = g * k + g
    BY <1>1, <1>5
  <2> QED BY <1>1, <1>2, <1>4, <1>5, <2>1, <2>2
<1>8. k = j
  BY <1>3, <1>5, <1>6, <1>7
<1>9. FormatDeg(p) = g * k
  BY <1>5 DEF FormatDeg, g, h
<1> QED BY <1>3, <1>4, <1>8, <1>9

\* A board that has taken the target that is pending reports one that the
\* client takes for it.
ReportConfirms ==
    pending # None /\ taTarget = BoundBy(FormatDeg(pending), 0, TaMaxDeg) =>
        Distance(TelemetryLine["TA_TargetDeg"], pending) <= ConfirmTol

\* The target is rounded by the client and by the board's telemetry and clamped
\* between; the rounding errors do not add up beyond TA_CONFIRM_TOLERANCE_DEG
\* for any target, so no target is resent for ever (olimexino_actions.cpp, update()).
THEOREM TakenTargetsConfirm == Spec => []ReportConfirms
<1>1. IInv => ReportConfirms
  <2> SUFFICES ASSUME IInv, pending # None, taTarget = BoundBy(FormatDeg(pending), 0, TaMaxDeg)
               PROVE  Distance(TelemetryLine["TA_TargetDeg"], pending) <= ConfirmTol
    BY DEF ReportConfirms
  <2>1. pending \in TaDeg
    BY DEF IInv, TypeOK, ControlTypeOK
  <2>2. pending \in Deg
    BY <2>1, ControlAssumption, BoardAssumption DEF TaDeg, Deg
  <2>3. FormatDeg(pending) \in Deg /\ Distance(FormatDeg(pending), pending) <= ConfirmTol
    BY <2>2, FormatDegBounds
  <2>4. taTarget = FormatDeg(pending)
    BY <2>3, BoardAssumption DEF BoundBy, Deg
  <2>5. FormatDeg(taTarget) = FormatDeg(pending)
    BY <2>2, <2>4, FormatTwice
  <2>6. TelemetryLine["TA_TargetDeg"] = FormatDeg(taTarget)
    BY DEF TelemetryLine, Channel
  <2> QED BY <2>3, <2>5, <2>6
<1> QED BY <1>1, Inductive, PTL
=============================================================================
