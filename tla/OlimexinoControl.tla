-------------------------- MODULE OlimexinoControl --------------------------
(***************************************************************************)
(* The client's control of the OLIMEXINO: the main loop of                 *)
(* src/src/main.cpp with its two actions of                                *)
(* src/src/actions/olimexino_actions.cpp, the link of                      *)
(* src/src/driver/olimexino.cpp (send, keepalive, telemetry cache), the    *)
(* board of OlimexinoBoard, and the threads they run on:                   *)
(*   main     the loop, one step per access to state another thread writes *)
(*   relay    robot_remote_control: connection state and command queue     *)
(*   ping     the keepalive                                                *)
(*   board    step() and the line it prints, then on_line() outside the    *)
(*            board's lock                                                 *)
(*   port     the serial port closing and reopening (real builds)          *)
(* The copies of the telemetry in the operator's display feed nothing back *)
(* and are left out.                                                       *)
(***************************************************************************)
EXTENDS OlimexinoBoard, Sequences

CONSTANTS
    None,          \* no value: std::nullopt, or no line
    TaMin, TaMax,  \* range of the TaPositionAction
    ConfirmTol,    \* TA_CONFIRM_TOLERANCE_DEG
    ErpmGrid,      \* units of a requested speed per ERPM
    AkMin, AkMax,  \* range of the AkSpeedAction, in those units
    Actions,       \* the actions of the config: "ak", "ta" or both
    TaRequests,    \* angles the operator asks for
    AkRequests,    \* speeds the operator asks for
    MaxQueue,      \* bound on the commands waiting in the relay
    Serial,        \* the port may close and reopen
    Stalls         \* a thread may stall longer than a timeout

ASSUME ControlAssumption ==
    /\ None \notin Int
    /\ TaMin \in Nat /\ TaMax \in Nat /\ TaMin < TaMax /\ TaMax <= TaMaxDeg
    /\ ConfirmTol \in Nat /\ DegGrid <= 2 * ConfirmTol
    /\ ErpmGrid \in Nat \ {0} /\ AkMin \in Int /\ AkMax \in Int
    /\ AkMin < AkMax /\ -AkMaxErpm * ErpmGrid <= AkMin /\ AkMax <= AkMaxErpm * ErpmGrid
    /\ Actions \subseteq {"ak", "ta"} /\ TaRequests \subseteq Int /\ AkRequests \subseteq Int
    /\ MaxQueue \in Nat \ {0} /\ Serial \in BOOLEAN /\ Stalls \in BOOLEAN

VARIABLES
    gsConnected,  \* what robot.isConnected() would answer
    queue,        \* commands waiting for getSimpleActionCommand()
    pc,           \* where the main loop is
    connected,    \* connected
    pending,      \* pending of the TaPositionAction
    resendDue,    \* TA_RESEND has passed since last_sent
    tele,         \* the three channels of telemetry that steer the action
    line,         \* printed by the board, not yet in on_line()
    port,         \* the transport: closed, fresh (just opened), open
    taOrder,      \* history: last order to the TA70 that reached the board
    outage        \* history: what became of the stop of this outage

loopVars    == <<pc, connected>>
actionVars  == <<pending, resendDue>>
relayVars   == <<gsConnected, queue>>
linkVars    == <<tele, line, port>>
historyVars == <<taOrder, outage>>
controlVars == <<loopVars, actionVars, relayVars, linkVars, historyVars>>
vars        == <<boardVars, controlVars>>

PcAt == {"connection", "commands", "ta_init",
         "ta_confirm", "ta_mode", "ta_moving", "ta_send"}

Command == [action : Actions \cap {"ak"}, op : {"set"}, value : AkRequests]
      \cup [action : Actions \cap {"ta"}, op : {"set"}, value : TaRequests]
      \cup [action : Actions, op : {"stop", "reset", "reinit"}]

Channel == {"TA_TargetDeg", "TA_Mode", "TA_MoveActive"}
NoTelemetry == [channel \in Channel |-> None]

-----------------------------------------------------------------------------
(* Conversions.                                                            *)

\* "%.3f": the nearest multiple of DegGrid.
FormatDeg(deg) == DegGrid * ((deg + DegGrid \div 2) \div DegGrid)

\* std::lround: the nearest integer, halves away from zero.
RoundErpm(v) ==
    IF v >= 0 THEN (v + ErpmGrid \div 2) \div ErpmGrid
              ELSE -((ErpmGrid \div 2 - v) \div ErpmGrid)

\* telemetry_line() of the state after the board's step.
TelemetryLine ==
    [channel \in Channel |->
        CASE channel = "TA_TargetDeg"  -> FormatDeg(taTarget)
          [] channel = "TA_Mode"       -> taMode
          [] channel = "TA_MoveActive" -> IF taMoveActive THEN 1 ELSE 0]

-----------------------------------------------------------------------------
Init ==
    /\ BoardInit
    /\ gsConnected = TRUE /\ queue = <<>>
    /\ pc = "connection" /\ connected = TRUE
    /\ pending = None /\ resendDue = TRUE
    /\ tele = NoTelemetry /\ line = None
    /\ port \in IF Serial THEN {"closed", "open"} ELSE {"open"}
    /\ taOrder = "none" /\ outage = "none"

\* send(): the line reaches the board, or send() returns false and nobody
\* looks at it.
Delivered == port # "closed"
Send(Line) == IF Delivered THEN Line ELSE UNCHANGED boardVars

Becomes(order) == taOrder' = IF Delivered THEN order ELSE taOrder

-----------------------------------------------------------------------------
(* The main loop: the connection check.                                    *)

\* Mutant: the loss is noticed and nothing is sent.
MutLossStopsNothing ==
    /\ pc = "connection" /\ connected /\ ~gsConnected
    /\ outage' = "stopped" /\ connected' = FALSE /\ pc' = "commands"
    /\ UNCHANGED <<boardVars, actionVars, relayVars, linkVars, taOrder>>
ConnectionLost ==
    /\ pc = "connection" /\ connected /\ ~gsConnected
    /\ Send(StopAllLine) /\ Becomes("stop all")
    /\ outage' = IF Delivered THEN "stopped" ELSE "undelivered"
    /\ connected' = FALSE /\ pc' = "commands"
    /\ UNCHANGED <<actionVars, relayVars, linkVars>>

ConnectionChecked ==
    /\ pc = "connection" /\ ~(connected /\ ~gsConnected)
    /\ outage' = IF gsConnected THEN "none" ELSE outage
    /\ connected' = gsConnected /\ pc' = "commands"
    /\ UNCHANGED <<boardVars, actionVars, relayVars, linkVars, taOrder>>

-----------------------------------------------------------------------------
(* The main loop: one command of the operator.                             *)

\* A command that can set a motor going: from here on the outage is not a
\* standstill.
Restarts == outage' = IF connected THEN outage ELSE "commanded"

AkSet(requested) ==
    /\ Send(AkSpeedLine(RoundErpm(BoundBy(requested, AkMin, AkMax)))) /\ Restarts
    /\ UNCHANGED <<pc, actionVars, taOrder>>

\* stop() and reset(), which calls it.
AkStop == Send(AkStopLine) /\ UNCHANGED <<pc, actionVars, historyVars>>

AkReinit == Send(AkIdleLine) /\ UNCHANGED <<pc, actionVars, historyVars>>

\* Mutant: the request is not clamped.
MutSetUnclamped(requested) ==
    pending' = requested /\ resendDue' = TRUE /\ UNCHANGED <<pc, boardVars, historyVars>>
TaSet(requested) ==
    /\ pending' = BoundBy(requested, TaMin, TaMax) /\ resendDue' = TRUE
    /\ UNCHANGED <<pc, boardVars, historyVars>>

TaStop ==
    /\ pending' = None /\ Send(TaStopLine) /\ Becomes("stop")
    /\ UNCHANGED <<pc, resendDue, outage>>

TaReset == pending' = None /\ UNCHANGED <<pc, resendDue, boardVars, historyVars>>

\* Mutant: init keeps the pending target.
MutReinitKeepsPending ==
    Send(PlainLine) /\ pc' = "ta_init" /\ UNCHANGED <<actionVars, historyVars>>
\* "ta current" and "ta accel"; "ta mode pos" follows in TaReinitMode.
TaReinit ==
    /\ pending' = None /\ Send(PlainLine) /\ pc' = "ta_init"
    /\ UNCHANGED <<resendDue, historyVars>>

Execute(command) ==
    \/ /\ command.action = "ak" /\ command.op = "set" /\ AkSet(command.value)
    \/ /\ command.action = "ak" /\ command.op \in {"stop", "reset"} /\ AkStop
    \/ /\ command.action = "ak" /\ command.op = "reinit" /\ AkReinit
    \/ /\ command.action = "ta" /\ command.op = "set" /\ TaSet(command.value)
    \/ /\ command.action = "ta" /\ command.op = "stop" /\ TaStop
    \/ /\ command.action = "ta" /\ command.op = "reset" /\ TaReset
    \/ /\ command.action = "ta" /\ command.op = "reinit" /\ TaReinit

ExecuteCommand ==
    /\ pc = "commands" /\ queue # <<>>
    /\ queue' = Tail(queue) /\ Execute(Head(queue))
    /\ UNCHANGED <<gsConnected, connected, linkVars>>

TaReinitMode ==
    /\ pc = "ta_init" /\ pc' = "commands"
    /\ Send(TaModePosLine) /\ Becomes("init") /\ Restarts
    /\ UNCHANGED <<connected, actionVars, relayVars, linkVars>>

CommandsDone ==
    /\ pc = "commands" /\ queue = <<>> /\ pc' = "ta_confirm"
    /\ UNCHANGED <<boardVars, connected, actionVars, relayVars, linkVars, historyVars>>

-----------------------------------------------------------------------------
(* The main loop: TaPositionAction::update(), one step per channel() read. *)

\* Mutant: the target is compared with the unrounded request.
MutConfirmsExactly == tele["TA_TargetDeg"] = pending
Confirms == tele["TA_TargetDeg"] # None /\ Distance(tele["TA_TargetDeg"], pending) <= ConfirmTol

TaConfirmed ==
    /\ pc = "ta_confirm" /\ pending # None /\ Confirms
    /\ pending' = None /\ pc' = "connection"
    /\ UNCHANGED <<boardVars, connected, resendDue, relayVars, linkVars, historyVars>>

TaUnconfirmed ==
    /\ pc = "ta_confirm" /\ (pending # None => ~Confirms)
    /\ pc' = IF pending # None /\ resendDue THEN "ta_mode" ELSE "connection"
    /\ UNCHANGED <<boardVars, connected, actionVars, relayVars, linkVars, historyVars>>

\* A channel that is missing does not hold the target back.
TaCheckMode ==
    /\ pc = "ta_mode"
    /\ pc' = IF tele["TA_Mode"] \in {None, ProfilePosition} THEN "ta_moving" ELSE "connection"
    /\ UNCHANGED <<boardVars, connected, actionVars, relayVars, linkVars, historyVars>>

TaCheckMoving ==
    /\ pc = "ta_moving"
    /\ pc' = IF tele["TA_MoveActive"] \in {None, 0} THEN "ta_send" ELSE "connection"
    /\ UNCHANGED <<boardVars, connected, actionVars, relayVars, linkVars, historyVars>>

TaSend ==
    /\ pc = "ta_send"
    /\ Send(TaPosLine(FormatDeg(pending)))
    /\ resendDue' = FALSE /\ pc' = "connection"
    /\ UNCHANGED <<connected, pending, relayVars, linkVars, historyVars>>

TaUpdate == TaConfirmed \/ TaUnconfirmed \/ TaCheckMode \/ TaCheckMoving \/ TaSend

MainLoop ==
    \/ ConnectionLost \/ ConnectionChecked
    \/ ExecuteCommand \/ TaReinitMode \/ CommandsDone
    \/ TaUpdate

-----------------------------------------------------------------------------
(* The other threads and the clocks.                                       *)

GsConnectionChanges ==
    /\ gsConnected' = ~gsConnected
    /\ UNCHANGED <<boardVars, loopVars, actionVars, queue, linkVars, historyVars>>

\* Commands can come while the heartbeat is late.
GsCommand ==
    /\ Len(queue) < MaxQueue
    /\ \E command \in Command : queue' = Append(queue, command)
    /\ UNCHANGED <<boardVars, loopVars, actionVars, gsConnected, linkVars, historyVars>>

Keepalive == Send(PlainLine) /\ UNCHANGED controlVars

\* The board's thread prints a line and passes it to on_line() before its
\* next step.
BoardStep ==
    /\ line = None
    /\ Step /\ line' = TelemetryLine'
    /\ UNCHANGED <<loopVars, actionVars, relayVars, tele, port, historyVars>>

\* on_line(): a line of an open port updates every channel it names.  Of the
\* first line after opening the beginning can be missing; a field that is cut
\* names no channel.
Beginnings == {{"TA_TargetDeg"}, {"TA_TargetDeg", "TA_Mode"}, Channel}
OnLine ==
    /\ line # None /\ line' = None
    /\ \E missing \in {{}} \cup IF port = "fresh" THEN Beginnings ELSE {} :
         tele' = [channel \in Channel |->
                    IF Delivered /\ channel \notin missing
                    THEN line[channel] ELSE tele[channel]]
    /\ port' = IF port = "fresh" THEN "open" ELSE port
    /\ UNCHANGED <<boardVars, loopVars, actionVars, relayVars, historyVars>>

ResendFallsDue ==
    /\ ~resendDue /\ resendDue' = TRUE
    /\ UNCHANGED <<boardVars, loopVars, pending, relayVars, linkVars, historyVars>>

\* No line for TELEMETRY_TIMEOUT: channel() calls the values missing, first
\* those that a cut line did not name.
TelemetryExpires ==
    /\ Stalls \/ ~Delivered
    /\ \E expired \in {Channel} \cup IF Serial /\ Stalls THEN Beginnings ELSE {} :
         tele' = [channel \in Channel |->
                    IF channel \in expired THEN None ELSE tele[channel]]
    /\ UNCHANGED <<boardVars, loopVars, actionVars, relayVars, line, port, historyVars>>

\* No host line for HOST_TIMEOUT: the client stalls, or the port is closed.
HostGoesSilent ==
    /\ Stalls \/ ~Delivered
    /\ HostFallsSilent /\ UNCHANGED controlVars

PortChanges ==
    /\ Serial
    /\ port' = IF Delivered THEN "closed" ELSE "fresh"
    /\ UNCHANGED <<boardVars, loopVars, actionVars, relayVars, tele, line, historyVars>>

Next ==
    \/ MainLoop
    \/ GsConnectionChanges \/ GsCommand
    \/ Keepalive
    \/ BoardStep \/ OnLine
    \/ ResendFallsDue \/ TelemetryExpires \/ HostGoesSilent \/ PortChanges

Spec == Init /\ [][Next]_vars

\* Fairness.  The main loop, the board's loop and the thread that delivers
\* its line never stop; a clock that runs comes to its deadline; the mode
\* switch and the dwell of a move are finite; and the loop that drains the
\* commands runs faster than an operator can give them, so it is left again.
FairSpec ==
    /\ Spec
    /\ WF_vars(MainLoop) /\ SF_vars(CommandsDone)
    /\ WF_vars(BoardStep) /\ WF_vars(OnLine)
    /\ SF_vars(EnterMode /\ BoardStep) /\ SF_vars(Settle /\ BoardStep)
    /\ WF_vars(ResendFallsDue)

-----------------------------------------------------------------------------
(* Properties.                                                             *)

TaDeg == TaMin..TaMax

Telemetry == [Channel -> Int \cup {None}]

ControlTypeOK ==
    /\ pc \in PcAt /\ connected \in BOOLEAN
    /\ pending \in TaDeg \cup {None} /\ resendDue \in BOOLEAN
    /\ gsConnected \in BOOLEAN /\ queue \in Seq(Command)
    /\ tele \in Telemetry /\ line \in Telemetry \cup {None}
    /\ port \in IF Serial THEN {"closed", "fresh", "open"} ELSE {"open"}
    /\ taOrder \in {"none", "init", "stop", "stop all"}
    /\ outage \in {"none", "stopped", "undelivered", "commanded"}

TypeOK == BoardTypeOK /\ ControlTypeOK

\* "entering position mode can release the brake and move the actuator, so it
\* is never done automatically" (TaPositionAction::init): the brake is
\* released, or about to be, only if of the orders that reached the board an
\* operator's init was the last one, not a stop nor the stop of an outage.
Releasing == taBrake = 0 \/ taSwitch
BrakeReleasedByInit == Releasing => taOrder = "init"

\* The TA70 is never driven against its brake: the board alone would take a
\* target while the brake is locked by hand in position mode.
MovesReleased == taMoveActive => taMode = ProfilePosition /\ taBrake = 0

\* After the "stop all" of a lost connection has reached the board, no retry
\* of a pending target, ping or telemetry brings a motor back: it takes a
\* command that came in before or after the loss.
StoppedInOutage == outage = "stopped" => Stopped

\* What the main loop's place says about the state it works on, whatever the
\* other threads do: it sends a target only while there is one, enters the
\* mode only with none, and remembers the outage it has stopped the motors in.
LoopInv ==
    /\ pc \in {"ta_mode", "ta_moving", "ta_send"} => pending # None
    /\ pc = "ta_init" => pending = None
    /\ outage = "stopped" => ~connected

\* The client never locks the brake of a drive in position mode.
ReleasedInMode == taMode = ProfilePosition => taBrake = 0

\* The inductive invariant of the proofs.
IInv ==
    /\ TypeOK /\ Interlock /\ ReleasedInMode
    /\ LoopInv /\ BrakeReleasedByInit /\ StoppedInOutage

\* The drive as the operator sees it.
Phase ==
    IF taSwitch THEN "entering"
    ELSE IF taMode # ProfilePosition THEN "locked"
    ELSE IF taMoveActive THEN "moving" ELSE "holding"
Wanted == IF pending = None THEN None ELSE FormatDeg(pending)
Goal == IF taMoveActive THEN taTarget ELSE None
Drive == INSTANCE TaDrive WITH
            Target <- {FormatDeg(deg) : deg \in TaDeg}, NoTarget <- None,
            phase <- Phase, wanted <- Wanted, goal <- Goal

\* Client and board together keep the promises of TaDrive, with lost lines,
\* late telemetry, resent targets and the watchdog's stops.
DriveSpec == Drive!Spec

\* "resends it until the board confirms it": while the drive stays in position
\* mode a pending target does not stay pending for ever, although the board
\* ignores targets during a move and the telemetry lags behind.
PendingIsConfirmed ==
    \A deg \in {BoundBy(requested, TaMin, TaMax) : requested \in TaRequests} :
        pending = deg /\ taMode = ProfilePosition
            ~> pending # deg \/ taMode # ProfilePosition

\* A connection that stays lost ends in a standstill unless a command came in.
OutageStops ==
    connected /\ ~gsConnected ~> Stopped \/ gsConnected \/ queue # <<>>

=============================================================================
