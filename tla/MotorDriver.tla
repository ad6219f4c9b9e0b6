----------------------------- MODULE MotorDriver -----------------------------
(***************************************************************************)
(* A motor with control "duration" behind an L298N bridge, as              *)
(* src/src/actions/motor_driver.cpp drives it: a target is a time in ms,   *)
(* and the motor runs until the time counted for it (positionTime) is the  *)
(* target.  (With control "position" a value goes to the bridge as it is.) *)
(*                                                                         *)
(* The calls come from one thread, the main loop: commands, then update(), *)
(* then sleep.  Time passes in whole ms between any two of them, and       *)
(* "moved" is what the motor really does meanwhile.                        *)
(***************************************************************************)
EXTENDS Integers

CONSTANTS
    Requests,         \* values of set commands, in 1/ReqGrid ms
    ReqGrid,
    Lowest, Highest,  \* bounds of the requested times, in ms
    LoopSleep,        \* LOOP_SLEEP of the main loop, in ms
    LoopMax,          \* bound: the longest time between two updates, in ms
    StartUp,          \* from the constructor to the first commands, in ms
    MaxSets           \* bound on the set commands of a behaviour

ASSUME MotorAssumption ==
    /\ ReqGrid \in Nat \ {0} /\ Lowest \in Int /\ Highest \in Int
    /\ Lowest <= 0 /\ 0 <= Highest
    /\ Requests \subseteq Lowest * ReqGrid .. Highest * ReqGrid
    /\ LoopSleep \in Nat \ {0} /\ LoopMax \in Nat /\ LoopSleep <= LoopMax
    /\ StartUp \in Nat /\ LoopMax < StartUp  \* MOTOR_INIT_SLEEP alone is 5 s
    /\ MaxSets \in Nat

VARIABLES
    pc,            \* the main loop: commands (up to the update) or sleep
    elapsed,       \* ms since the main loop's last update()
    direction,     \* direction
    desiredTime,   \* desiredTime
    positionTime,  \* positionTime
    since,         \* ms since lastTime
    bridge,        \* value of the last set_l298n()
    sets,          \* history: set commands so far
    early,         \* history: a set command came before the first update
    forgotten,     \* history: a reset has left the bridge driving
    moved          \* history: ms run forward minus backward, unless forgotten

motorVars == <<direction, desiredTime, positionTime, since, bridge>>
vars      == <<pc, elapsed, motorVars, sets, early, forgotten, moved>>

Init ==
    /\ pc = "commands" /\ elapsed = 0
    /\ direction = 0 /\ desiredTime = 0 /\ positionTime = 0
    /\ since = StartUp /\ bridge = 0
    /\ sets = 0 /\ early = FALSE /\ forgotten = FALSE /\ moved = 0

-----------------------------------------------------------------------------
\* A double assigned to a long long.
Truncated(v) == IF v >= 0 THEN v \div ReqGrid ELSE -((-v) \div ReqGrid)

Towards(from, to) == IF to = from THEN 0 ELSE IF to > from THEN 1 ELSE -1

\* Only the direction is set and the bridge follows in update(), unless the
\* motor is where it should be.
\* Mutant: the bridge is left to update() then, too.
MutSetValue ==
    /\ pc = "commands" /\ sets < MaxSets
    /\ \E v \in Requests : desiredTime' = Truncated(v)
    /\ direction' = Towards(positionTime, desiredTime')
    /\ sets' = sets + 1 /\ early' = (early \/ since > LoopMax)
    /\ UNCHANGED <<pc, elapsed, positionTime, since, bridge, moved, forgotten>>
SetValue ==
    /\ pc = "commands" /\ sets < MaxSets
    /\ \E v \in Requests : desiredTime' = Truncated(v)
    /\ direction' = Towards(positionTime, desiredTime')
    /\ bridge' = IF direction' = 0 THEN 0 ELSE bridge
    /\ forgotten' = (forgotten /\ direction' # 0)
    /\ sets' = sets + 1 /\ early' = (early \/ since > LoopMax)
    /\ UNCHANGED <<pc, elapsed, positionTime, since, moved>>

\* stop(): a motor under way has its time since the last update counted.
StopAtRest ==
    /\ pc = "commands" /\ direction = 0
    /\ bridge' = 0 /\ forgotten' = FALSE
    /\ UNCHANGED <<pc, elapsed, direction, desiredTime, positionTime, since, sets, early, moved>>

StopUnderWay ==
    /\ pc = "commands" /\ direction # 0
    /\ positionTime' = positionTime + since * direction /\ desiredTime' = positionTime'
    /\ direction' = 0 /\ since' = 0 /\ bridge' = 0 /\ forgotten' = FALSE
    /\ UNCHANGED <<pc, elapsed, sets, early, moved>>

\* reset(), and reinit(), which first sets the modes of the pins again:
\* neither switches the bridge.
Reset ==
    /\ pc = "commands"
    /\ direction' = 0 /\ desiredTime' = positionTime /\ since' = 0
    /\ forgotten' = (bridge # 0)
    /\ UNCHANGED <<pc, elapsed, positionTime, bridge, sets, early, moved>>

\* Mutant: lastTime is left alone at rest.
MutUpdateAtRest ==
    /\ pc = "commands" /\ pc' = "sleep" /\ direction = 0
    /\ elapsed' = 0
    /\ UNCHANGED <<since, direction, desiredTime, positionTime, bridge, sets, early, forgotten, moved>>
UpdateAtRest ==
    /\ pc = "commands" /\ pc' = "sleep" /\ direction = 0
    /\ since' = 0 /\ elapsed' = 0
    /\ UNCHANGED <<direction, desiredTime, positionTime, bridge, sets, early, forgotten, moved>>

Reached(position) ==
    \/ direction = 1 /\ position >= desiredTime
    \/ direction = -1 /\ position <= desiredTime

\* Mutant: the way is not cut at the target.
MutArrived(position) == position
Arrived(position) == IF Reached(position) THEN desiredTime ELSE position

UpdateUnderWay ==
    /\ pc = "commands" /\ pc' = "sleep" /\ direction # 0
    /\ since' = 0 /\ elapsed' = 0
    /\ LET driven == positionTime + since * direction
       IN  /\ positionTime' = Arrived(driven)
           /\ direction' = IF Reached(driven) THEN 0 ELSE direction
    /\ bridge' = direction' /\ forgotten' = FALSE
    /\ UNCHANGED <<desiredTime, sets, early, moved>>

Update == UpdateAtRest \/ UpdateUnderWay

\* The motor turns as the bridge says.
TimePasses ==
    /\ elapsed < LoopMax /\ elapsed' = elapsed + 1 /\ since' = since + 1
    /\ moved' = IF forgotten THEN moved ELSE moved + bridge
    /\ UNCHANGED <<pc, direction, desiredTime, positionTime, bridge, sets, early, forgotten>>

Wake ==
    /\ pc = "sleep" /\ elapsed >= LoopSleep /\ pc' = "commands"
    /\ UNCHANGED <<elapsed, motorVars, sets, early, forgotten, moved>>

Next ==
    \/ SetValue \/ StopAtRest \/ StopUnderWay \/ Reset
    \/ Update \/ TimePasses \/ Wake

Spec == Init /\ [][Next]_vars

\* The main loop and the clock never stop.
FairSpec == Spec /\ WF_vars(Update) /\ WF_vars(Wake) /\ WF_vars(TimePasses)

-----------------------------------------------------------------------------
(* Properties.                                                             *)

MotorTypeOK ==
    /\ pc \in {"commands", "sleep"}
    /\ direction \in {-1, 0, 1} /\ bridge \in {-1, 0, 1}
    /\ desiredTime \in Int /\ positionTime \in Int /\ moved \in Int
    /\ elapsed \in 0..LoopMax /\ since \in 0..StartUp + LoopMax /\ sets \in 0..MaxSets
    /\ early \in BOOLEAN /\ forgotten \in BOOLEAN

\* Whatever the order of commands and updates, the driver steers towards its
\* target and is under way until it is there: a wrong sign would run the motor
\* away from the target for ever (update() compares with >= or <= by direction).
SteersToTarget == direction = Towards(positionTime, desiredTime)

\* The bridge drives only a motor that is under way, and after update() the
\* way it is under way, unless a reset has left it driving.
BridgeFollows ==
    /\ bridge # 0 => direction # 0 \/ forgotten
    /\ pc = "sleep" => bridge = direction \/ forgotten

\* The counted position stays within the requested times, but for the last
\* iteration before a stop: stop() does not cut the way at the target.  A
\* command that comes before the first update can be stopped with all the time
\* since the constructor counted.
Overrun == LoopMax + IF early THEN StartUp ELSE 0
PositionInRange == positionTime \in Lowest - Overrun .. Highest + Overrun

\* Dead reckoning: set_value() does not know how long the bridge has been
\* off, or driving the other way, since the last update, and the way beyond
\* the target is not counted; yet each set command costs at most one
\* iteration of error, whatever it interrupts and however it ends, and the
\* time since the constructor is counted at most once.
Error == moved - positionTime
Drift == LoopMax * sets + IF early THEN StartUp ELSE 0
DriftPerTarget == Error <= Drift /\ -Error <= Drift

\* The inductive invariant of the proofs.  Until the first update nothing has
\* moved and nothing is counted; afterwards lastTime is no older than the last
\* update.
LastTimeInv ==
    \/ since <= elapsed
    \/ /\ since \in StartUp .. StartUp + elapsed /\ bridge = 0 /\ ~forgotten
       /\ positionTime = 0 /\ moved = 0
       /\ direction # 0 => early

UnderWayInv == direction # 0 => desiredTime \in Lowest..Highest /\ sets > 0

\* A motor under way (d) keeps in reserve what the next update or the arrival
\* may cost: its error is that much below the drift.
Between(low, x, high) == low <= x /\ x <= high
WithinDrift(d, b, unseen, time, error, drift) ==
    /\ d = 0 => Between(-drift, error, drift)
    /\ d # 0 /\ (unseen \/ b = 0) => Between(LoopMax - drift, error, drift - LoopMax)
    /\ ~unseen /\ b = 1 =>
         /\ d = 1 => Between(-drift, error - time, drift - LoopMax)
         /\ d = -1 => Between(LoopMax - drift, error - time, drift - 2 * LoopMax)
    /\ ~unseen /\ b = -1 =>
         /\ d = -1 => Between(LoopMax - drift, error + time, drift)
         /\ d = 1 => Between(2 * LoopMax - drift, error + time, drift - LoopMax)
DriftInv == WithinDrift(direction, bridge, forgotten, since, Error, Drift)

MotorInv ==
    /\ MotorTypeOK /\ LastTimeInv /\ UnderWayInv
    /\ SteersToTarget /\ BridgeFollows /\ PositionInRange /\ DriftInv

\* A target that is not replaced, stopped or reset is reached.
TargetIsReached ==
    \A v \in Requests :
        desiredTime = Truncated(v) ~>
            positionTime = Truncated(v) \/ desiredTime # Truncated(v)
=============================================================================
