-------------------------- MODULE MotorDriver_proofs --------------------------
(* Theorems about MotorDriver, for every value of its constants.           *)
EXTENDS MotorDriver, TLAPS

\* A requested value becomes a time within the requested bounds.
LEMMA TruncatedBounds ==
    ASSUME NEW v \in Requests
    PROVE  Truncated(v) \in Lowest..Highest
<1> DEFINE g == ReqGrid
           up == v \div g
           down == (-v) \div g
<1>1. /\ g \in Nat /\ g > 0 /\ v \in Int
      /\ Lowest \in Int /\ Highest \in Int /\ Lowest <= 0 /\ 0 <= Highest
      /\ Lowest * g <= v /\ v <= Highest * g
  BY MotorAssumption
<1>2. CASE v >= 0
  <2>1. up \in Nat /\ g * up <= v
    BY <1>1, <1>2
  <2>2. ASSUME up >= Highest + 1 PROVE FALSE
    <3>1. g * up >= g * (Highest + 1)
      BY <1>1, <2>1, <2>2
    <3>2. g * (Highest + 1) = Highest * g + g
      BY <1>1
    <3> HIDE DEF g, up
    <3> QED BY <1>1, <2>1, <3>1, <3>2
  <2>3. Truncated(v) = up
    BY <1>2 DEF Truncated
  <2> HIDE DEF g, up
  <2> QED BY <1>1, <2>1, <2>2, <2>3
<1>3. CASE v < 0
  <2>1. down \in Nat /\ g * down <= -v
    BY <1>1, <1>3
  <2>2. ASSUME down >= -Lowest + 1 PROVE FALSE
    <3>1. g * down >= g * (-Lowest + 1)
      BY <1>1, <2>1, <2>2
    <3>2. g * (-Lowest + 1) = -(Lowest * g) + g
      BY <1>1
    <3> HIDE DEF g, down
    <3> QED BY <1>1, <2>1, <3>1, <3>2
  <2>3. Truncated(v) = -down
    BY <1>1, <1>3 DEF Truncated
  <2> HIDE DEF g, down
  <2> QED BY <1>1, <2>1, <2>2, <2>3
<1> QED BY <1>1, <1>2, <1>3

\* The drift allowed is a natural number; a set command adds one iteration to
\* it, and the first one before the first update the time since the
\* constructor.
LEMMA DriftIsNat ==
    ASSUME MotorTypeOK
    PROVE  /\ Drift \in Nat
           /\ sets > 0 => LoopMax <= Drift
           /\ sets > 0 /\ early => LoopMax + StartUp <= Drift
<1>1. LoopMax \in Nat /\ StartUp \in Nat /\ sets \in Nat
  BY MotorAssumption DEF MotorTypeOK
<1>2. LoopMax * sets \in Nat
  BY <1>1
<1>3. sets > 0 => LoopMax <= LoopMax * sets
  <2>1. SUFFICES ASSUME sets > 0 PROVE LoopMax <= LoopMax * sets
    OBVIOUS
  <2>2. sets - 1 \in Nat
    BY <1>1, <2>1
  <2>3. LoopMax * (sets - 1) \in Nat
    BY <1>1, <2>2
  <2>4. LoopMax * (sets - 1) = LoopMax * sets - LoopMax
    BY <1>1
  <2> QED BY <1>1, <1>2, <2>3, <2>4
<1> QED BY <1>1, <1>2, <1>3 DEF Drift

LEMMA DriftGrows ==
    ASSUME MotorTypeOK, sets' = sets + 1, early => early', early' \in BOOLEAN
    PROVE  Drift' \in Nat /\ Drift' >= Drift + LoopMax
<1>1. LoopMax \in Nat /\ StartUp \in Nat /\ sets \in Nat
  BY MotorAssumption DEF MotorTypeOK
<1>2. LoopMax * (sets + 1) = LoopMax * sets + LoopMax /\ LoopMax * sets \in Nat
  BY <1>1
<1> QED BY <1>1, <1>2 DEF Drift

\* What every step that takes no set command has in common.
LEMMA DriftStays ==
    ASSUME MotorTypeOK, UNCHANGED <<sets, early>>
    PROVE  Drift' = Drift
  BY DEF Drift

\* The constants the bounds are made of.
LEMMA Bounds ==
    /\ LoopMax \in Nat /\ StartUp \in Nat /\ LoopMax < StartUp
    /\ Lowest \in Int /\ Highest \in Int /\ Lowest <= 0 /\ 0 <= Highest
  BY MotorAssumption

-----------------------------------------------------------------------------
(* The arithmetic of the drift, one lemma for each way the error, the      *)
(* direction and the bridge change together.                               *)

Direction == {-1, 0, 1}

\* Everywhere the error is within the drift.
LEMMA DriftBounds ==
    ASSUME NEW d \in Direction, NEW b \in Direction, NEW unseen \in BOOLEAN,
           NEW time \in Nat, NEW error \in Int, NEW drift \in Nat,
           WithinDrift(d, b, unseen, time, error, drift),
           b # 0 /\ ~unseen => d # 0 /\ time <= LoopMax,
           d # 0 => LoopMax <= drift
    PROVE  Between(-drift, error, drift)
<1> USE Bounds DEF Direction, Between, WithinDrift
<1>1. CASE d = 0 BY <1>1
<1>2. CASE d # 0 /\ (unseen \/ b = 0) BY <1>2
<1>3. CASE ~unseen /\ b = 1 /\ d # 0 BY <1>3
<1>4. CASE ~unseen /\ b = -1 /\ d # 0 BY <1>4
<1> QED BY <1>1, <1>2, <1>3, <1>4

\* A set command turns the motor round, sends it off or lets it stay.
LEMMA DriftOfSet ==
    ASSUME NEW d \in Direction, NEW b \in Direction, NEW unseen \in BOOLEAN,
           NEW time \in Nat, NEW error \in Int, NEW drift \in Nat,
           WithinDrift(d, b, unseen, time, error, drift),
           b # 0 /\ ~unseen => d # 0 /\ time <= LoopMax,
           d # 0 => LoopMax <= drift,
           NEW d2 \in Direction, NEW drift2 \in Nat, drift2 >= drift + LoopMax
    PROVE  WithinDrift(d2, IF d2 = 0 THEN 0 ELSE b, unseen /\ d2 # 0, time, error, drift2)
<1>1. Between(-drift, error, drift)
  BY DriftBounds
<1> USE <1>1, Bounds DEF Direction, Between, WithinDrift
<1>2. CASE d2 = 0 BY <1>2
<1>3. CASE d2 # 0 /\ (unseen \/ b = 0) BY <1>3
<1>4. CASE d2 # 0 /\ ~unseen /\ b = 1 BY <1>4
<1>5. CASE d2 # 0 /\ ~unseen /\ b = -1 BY <1>5
<1> QED BY <1>2, <1>3, <1>4, <1>5

\* A motor that is off, or that a reset has forgotten, has only to be within
\* the drift.
LEMMA DriftAtRest ==
    ASSUME NEW b \in Direction, NEW unseen \in BOOLEAN, b = 0 \/ unseen,
           NEW time \in Nat, NEW error \in Int, NEW drift \in Nat,
           Between(-drift, error, drift)
    PROVE  WithinDrift(0, b, unseen, time, error, drift)
  BY DEF WithinDrift

\* The time since the last update, or a part of it, is counted as way in the
\* direction d.
Counted(error, d, part) == IF d = 1 THEN error - part ELSE error + part
LEMMA DriftOfWay ==
    ASSUME NEW d \in {-1, 1}, NEW b \in Direction, NEW unseen \in BOOLEAN,
           NEW time \in Nat, NEW error \in Int, NEW drift \in Nat,
           WithinDrift(d, b, unseen, time, error, drift), LoopMax <= drift,
           \/ time <= LoopMax
           \/ b = 0 /\ error = 0 /\ time <= StartUp + LoopMax /\ LoopMax + StartUp <= drift,
           NEW part \in Nat, part <= time
    PROVE  /\ Between(-drift, Counted(error, d, part), drift)
           /\ WithinDrift(d, d, FALSE, 0, Counted(error, d, time), drift)
<1> USE Bounds DEF Direction, Between, WithinDrift, Counted
<1>1. Between(-drift, Counted(error, d, part), drift)
  <2>1. CASE unseen \/ b = 0 BY <2>1
  <2>2. CASE ~unseen /\ b = 1 BY <2>2
  <2>3. CASE ~unseen /\ b = -1 BY <2>3
  <2> QED BY <2>1, <2>2, <2>3
<1>2. WithinDrift(d, d, FALSE, 0, Counted(error, d, time), drift)
  <2>1. CASE unseen \/ b = 0 BY <2>1
  <2>2. CASE ~unseen /\ b = 1 BY <2>2
  <2>3. CASE ~unseen /\ b = -1 BY <2>3
  <2> QED BY <2>1, <2>2, <2>3
<1> QED BY <1>1, <1>2

\* One ms of a motor that the bridge drives.
LEMMA DriftOfTime ==
    ASSUME NEW d \in Direction, NEW b \in Direction, NEW unseen \in BOOLEAN,
           NEW time \in Nat, NEW error \in Int, NEW drift \in Nat,
           WithinDrift(d, b, unseen, time, error, drift),
           b # 0 /\ ~unseen => d # 0
    PROVE  WithinDrift(d, b, unseen, time + 1,
                       IF unseen THEN error ELSE error + b, drift)
<1> USE Bounds DEF Direction, Between, WithinDrift
<1>1. CASE unseen \/ b = 0 BY <1>1
<1>2. CASE ~unseen /\ b = 1 BY <1>2
<1>3. CASE ~unseen /\ b = -1 BY <1>3
<1> QED BY <1>1, <1>2, <1>3

\* What the invariant says in the terms of these lemmas.
LEMMA DriftFacts ==
    ASSUME MotorInv
    PROVE  /\ direction \in Direction /\ bridge \in Direction /\ forgotten \in BOOLEAN
           /\ since \in Nat /\ Error \in Int /\ Drift \in Nat
           /\ WithinDrift(direction, bridge, forgotten, since, Error, Drift)
           /\ bridge # 0 /\ ~forgotten => direction # 0 /\ since <= LoopMax
           /\ direction # 0 => LoopMax <= Drift
           /\ \/ since <= LoopMax
              \/ /\ bridge = 0 /\ Error = 0 /\ since <= StartUp + LoopMax
                 /\ direction # 0 => LoopMax + StartUp <= Drift
           /\ Between(-Drift, Error, Drift)
<1>1. /\ direction \in Direction /\ bridge \in Direction /\ forgotten \in BOOLEAN
      /\ since \in Nat /\ Error \in Int /\ Drift \in Nat
  BY DriftIsNat, Bounds DEF MotorInv, MotorTypeOK, Direction, Error
<1>2. WithinDrift(direction, bridge, forgotten, since, Error, Drift)
  BY DEF MotorInv, DriftInv
<1>3. bridge # 0 /\ ~forgotten => direction # 0 /\ since <= LoopMax
  BY Bounds DEF MotorInv, MotorTypeOK, BridgeFollows, LastTimeInv
<1>4. direction # 0 => LoopMax <= Drift
  BY DriftIsNat DEF MotorInv, UnderWayInv
<1>5. \/ since <= LoopMax
      \/ /\ bridge = 0 /\ Error = 0 /\ since <= StartUp + LoopMax
         /\ direction # 0 => LoopMax + StartUp <= Drift
  <2>1. CASE since <= elapsed
    BY <2>1, Bounds DEF MotorInv, MotorTypeOK
  <2>2. CASE ~(since <= elapsed) /\ since > LoopMax
    <3>1. bridge = 0 /\ Error = 0 /\ since <= StartUp + LoopMax
      BY <2>2, Bounds DEF MotorInv, MotorTypeOK, LastTimeInv, Error
    <3>2. direction # 0 => early /\ sets > 0
      BY <2>2 DEF MotorInv, LastTimeInv, UnderWayInv
    <3> QED BY <3>1, <3>2, DriftIsNat DEF MotorInv
  <2>3. CASE ~(since > LoopMax)
    BY <1>1, <2>3, Bounds
  <2> QED BY <2>1, <2>2, <2>3
<1>6. Between(-Drift, Error, Drift)
  BY <1>1, <1>2, <1>3, <1>4, DriftBounds
<1> QED BY <1>1, <1>2, <1>3, <1>4, <1>5, <1>6

-----------------------------------------------------------------------------
(* Every action keeps the inductive invariant.                             *)

LEMMA SetValueKeeps ==
    ASSUME MotorInv, SetValue
    PROVE  MotorInv'
<1> USE DEF SetValue
<1>1. MotorTypeOK
  BY DEF MotorInv
<1>2. desiredTime' \in Lowest..Highest
  BY TruncatedBounds
<1>3. direction' \in {-1, 0, 1}
  BY DEF Towards
<1>4. MotorTypeOK'
  <2>1. sets' \in 0..MaxSets
    BY <1>1, MotorAssumption DEF MotorTypeOK
  <2>2. desiredTime' \in Int
    BY <1>2, Bounds
  <2>3. early' \in BOOLEAN /\ forgotten' \in BOOLEAN /\ bridge' \in {-1, 0, 1}
    BY <1>1 DEF MotorTypeOK
  <2> QED BY <1>1, <1>3, <2>1, <2>2, <2>3 DEF MotorTypeOK
<1>5. LastTimeInv'
  <2>1. CASE since <= elapsed
    BY <2>1 DEF LastTimeInv
  <2>2. CASE ~(since <= elapsed)
    <3>1. /\ since \in StartUp .. StartUp + elapsed /\ bridge = 0 /\ ~forgotten
          /\ positionTime = 0 /\ moved = 0
      BY <2>2 DEF MotorInv, LastTimeInv
    <3>2. since > LoopMax
      BY <1>1, <3>1, Bounds DEF MotorTypeOK
    <3> QED BY <3>1, <3>2 DEF LastTimeInv
  <2> QED BY <2>1, <2>2
<1>6. UnderWayInv'
  BY <1>1, <1>2 DEF UnderWayInv, MotorTypeOK
<1>7. SteersToTarget'
  BY DEF SteersToTarget
<1>8. BridgeFollows'
  BY DEF MotorInv, BridgeFollows
<1>9. PositionInRange'
  <2>1. early => early'
    OBVIOUS
  <2> QED BY <1>1, <1>4, <2>1, Bounds DEF MotorInv, PositionInRange, Overrun, MotorTypeOK
<1>10. DriftInv'
  <2>1. Drift' \in Nat /\ Drift' >= Drift + LoopMax
    BY <1>1, <1>4, DriftGrows DEF MotorTypeOK
  <2>2. /\ bridge' = IF direction' = 0 THEN 0 ELSE bridge
        /\ forgotten' = (forgotten /\ direction' # 0)
        /\ direction' \in Direction
    BY <1>3 DEF Direction
  <2>3. Error' = Error /\ since' = since
    BY DEF Error
  <2> HIDE DEF SetValue
  <2>4. WithinDrift(direction', bridge', forgotten', since, Error, Drift')
    BY <2>1, <2>2, DriftFacts, DriftOfSet
  <2> QED BY <2>3, <2>4 DEF DriftInv
<1> QED BY <1>4, <1>5, <1>6, <1>7, <1>8, <1>9, <1>10 DEF MotorInv

\* stop() of a motor at rest, reset() and update() at rest leave the counted
\* position and the error as they are, and the motor off or forgotten.
LEMMA RestKeeps ==
    ASSUME MotorInv, StopAtRest \/ Reset \/ UpdateAtRest
    PROVE  MotorInv'
<1>1. /\ MotorTypeOK
      /\ direction = 0 => desiredTime = positionTime
  BY DEF MotorInv, SteersToTarget, Towards
<1>2. /\ direction' = 0 /\ desiredTime' = positionTime /\ UNCHANGED positionTime
      /\ UNCHANGED <<sets, early, moved>>
      /\ bridge' \in {0, bridge} /\ forgotten' \in BOOLEAN
      /\ bridge' = 0 \/ forgotten'
  <2>1. CASE StopAtRest
    BY <1>1, <2>1 DEF StopAtRest, MotorTypeOK
  <2>2. CASE Reset
    BY <1>1, <2>2 DEF Reset, MotorTypeOK
  <2>3. CASE UpdateAtRest
    BY <1>1, <2>3 DEF MotorInv, BridgeFollows, UpdateAtRest, MotorTypeOK
  <2> QED BY <2>1, <2>2, <2>3
<1>3. pc' \in {"commands", "sleep"} /\ elapsed' \in 0..LoopMax
  BY <1>1, Bounds DEF MotorTypeOK, StopAtRest, Reset, UpdateAtRest
<1>4. \/ since' = 0
      \/ UNCHANGED <<since, elapsed>> /\ bridge' = 0 /\ ~forgotten'
  BY DEF StopAtRest, Reset, UpdateAtRest
<1>5. MotorTypeOK'
  <2>1. since' \in 0..StartUp + LoopMax
    BY <1>1, <1>4, Bounds DEF MotorTypeOK
  <2> QED BY <1>1, <1>2, <1>3, <2>1 DEF MotorTypeOK
<1>6. LastTimeInv'
  BY <1>1, <1>2, <1>3, <1>4, Bounds DEF MotorInv, LastTimeInv, MotorTypeOK
<1>7. UnderWayInv' /\ SteersToTarget'
  BY <1>2 DEF UnderWayInv, SteersToTarget, Towards
<1>8. BridgeFollows'
  <2>1. pc' = "sleep" => bridge' = 0 \/ forgotten'
    BY <1>2
  <2> QED BY <1>2, <2>1 DEF BridgeFollows
<1>9. PositionInRange'
  BY <1>2 DEF MotorInv, PositionInRange, Overrun
<1>10. DriftInv'
  <2>1. Error' = Error /\ Drift' = Drift
    BY <1>2 DEF Error, Drift
  <2>2. bridge' \in Direction /\ since' \in Nat
    BY <1>2, <1>5, DriftFacts, Bounds DEF Direction, MotorTypeOK
  <2>3. WithinDrift(0, bridge', forgotten', since', Error, Drift)
    BY <1>2, <2>2, DriftFacts, DriftAtRest
  <2> QED BY <1>2, <2>1, <2>3 DEF DriftInv
<1> QED BY <1>5, <1>6, <1>7, <1>8, <1>9, <1>10 DEF MotorInv

\* The way a motor under way is counted for since the last update.
LEMMA WayBounds ==
    ASSUME MotorInv, direction # 0
    PROVE  /\ direction \in {-1, 1} /\ positionTime \in Int /\ desiredTime \in Lowest..Highest
           /\ direction = 1 => positionTime < desiredTime /\ since * direction = since
           /\ direction = -1 => positionTime > desiredTime /\ since * direction = -since
           /\ since \in Nat
           /\ \/ since <= LoopMax
              \/ since <= StartUp + LoopMax /\ early
<1>1. MotorTypeOK /\ SteersToTarget /\ UnderWayInv
  BY DEF MotorInv
<1>2. direction \in {-1, 1} /\ positionTime \in Int /\ desiredTime \in Lowest..Highest /\ since \in Nat
  BY <1>1, Bounds DEF MotorTypeOK, UnderWayInv
<1>3. /\ direction = 1 => positionTime < desiredTime
      /\ direction = -1 => positionTime > desiredTime
  BY <1>1, <1>2, Bounds DEF SteersToTarget, Towards
<1>4. \/ since <= LoopMax
      \/ since <= StartUp + LoopMax /\ early
  <2>1. CASE since <= LoopMax BY <2>1
  <2>2. CASE since > LoopMax
    BY <1>1, <2>2, Bounds DEF MotorInv, LastTimeInv, MotorTypeOK
  <2> QED BY <1>2, <2>1, <2>2, Bounds
<1> QED BY <1>2, <1>3, <1>4

LEMMA StopUnderWayKeeps ==
    ASSUME MotorInv, StopUnderWay
    PROVE  MotorInv'
<1>1. MotorTypeOK /\ direction # 0
  BY DEF MotorInv, StopUnderWay
<1>2. /\ positionTime' = positionTime + since * direction /\ desiredTime' = positionTime'
      /\ direction' = 0 /\ since' = 0 /\ bridge' = 0 /\ forgotten' = FALSE
      /\ UNCHANGED <<pc, elapsed, sets, early, moved>>
  BY DEF StopUnderWay
<1>3. /\ positionTime' \in Int
      /\ direction = 1 => positionTime' = positionTime + since
      /\ direction = -1 => positionTime' = positionTime - since
  BY <1>1, <1>2, WayBounds
<1>4. MotorTypeOK'
  <2>1. since' \in 0..StartUp + LoopMax
    BY <1>2, Bounds
  <2>2. desiredTime' \in Int /\ moved' \in Int /\ direction' \in {-1, 0, 1} /\ bridge' \in {-1, 0, 1}
    BY <1>1, <1>2, <1>3 DEF MotorTypeOK
  <2> QED BY <1>1, <1>2, <1>3, <2>1, <2>2 DEF MotorTypeOK
<1>5. LastTimeInv'
  BY <1>2, <1>4 DEF LastTimeInv, MotorTypeOK
<1>6. UnderWayInv' /\ SteersToTarget' /\ BridgeFollows'
  BY <1>2 DEF UnderWayInv, SteersToTarget, Towards, BridgeFollows
<1>7. PositionInRange'
  <2>1. CASE direction = 1
    BY <1>1, <1>2, <1>3, <2>1, WayBounds, Bounds DEF MotorInv, PositionInRange, Overrun, MotorTypeOK
  <2>2. CASE direction = -1
    BY <1>1, <1>2, <1>3, <2>2, WayBounds, Bounds DEF MotorInv, PositionInRange, Overrun, MotorTypeOK
  <2> QED BY <1>1, <2>1, <2>2, WayBounds
<1>8. DriftInv'
  <2>1. Error' = Counted(Error, direction, since) /\ Error' \in Int
    BY <1>1, <1>2, <1>3, WayBounds DEF Error, Counted, MotorTypeOK
  <2>2. Between(-Drift, Counted(Error, direction, since), Drift)
    <3>1. direction \in {-1, 1} /\ since \in Nat /\ since <= since
      BY <1>1, WayBounds
    <3>2. /\ LoopMax <= Drift
          /\ \/ since <= LoopMax
             \/ /\ bridge = 0 /\ Error = 0 /\ since <= StartUp + LoopMax
                /\ LoopMax + StartUp <= Drift
      BY <1>1, DriftFacts
    <3> QED BY <3>1, <3>2, DriftFacts, DriftOfWay
  <2>3. Drift' = Drift
    BY <1>2 DEF Drift
  <2>4. Counted(Error, direction, since) \in Int
    BY DriftFacts DEF Counted
  <2>5. WithinDrift(0, 0, FALSE, 0, Counted(Error, direction, since), Drift)
    BY <2>2, <2>4, DriftFacts, DriftAtRest DEF Direction
  <2> QED BY <1>2, <2>1, <2>3, <2>5 DEF DriftInv
<1> QED BY <1>4, <1>5, <1>6, <1>7, <1>8 DEF MotorInv

\* The part of that way that update() keeps: all of it, or as much as leads to
\* the target.
LEMMA ArrivedBounds ==
    ASSUME MotorInv, direction # 0,
           NEW driven, driven = positionTime + since * direction
    PROVE  \E part \in Nat :
             /\ part <= since
             /\ Arrived(driven) = IF direction = 1 THEN positionTime + part
                                                   ELSE positionTime - part
             /\ ~Reached(driven) => part = since
<1>1. CASE direction = 1
  <2>1. driven = positionTime + since /\ positionTime < desiredTime
        /\ positionTime \in Int /\ desiredTime \in Int /\ since \in Nat
    BY <1>1, WayBounds, Bounds
  <2>2. CASE Reached(driven)
    <3>1. desiredTime - positionTime \in Nat /\ desiredTime - positionTime <= since
      BY <1>1, <2>1, <2>2 DEF Reached
    <3>2. Arrived(driven) = positionTime + (desiredTime - positionTime)
      BY <2>1, <2>2 DEF Arrived
    <3> QED BY <1>1, <2>2, <3>1, <3>2
  <2>3. CASE ~Reached(driven)
    BY <1>1, <2>1, <2>3 DEF Arrived
  <2> QED BY <2>2, <2>3
<1>2. CASE direction = -1
  <2>1. driven = positionTime - since /\ positionTime > desiredTime
        /\ positionTime \in Int /\ desiredTime \in Int /\ since \in Nat
    BY <1>2, WayBounds, Bounds
  <2>2. CASE Reached(driven)
    <3>1. positionTime - desiredTime \in Nat /\ positionTime - desiredTime <= since
      BY <1>2, <2>1, <2>2 DEF Reached
    <3>2. Arrived(driven) = positionTime - (positionTime - desiredTime)
      BY <2>1, <2>2 DEF Arrived
    <3> QED BY <1>2, <2>2, <3>1, <3>2
  <2>3. CASE ~Reached(driven)
    BY <1>2, <2>1, <2>3 DEF Arrived
  <2> QED BY <2>2, <2>3
<1> QED BY <1>1, <1>2, WayBounds

LEMMA UpdateUnderWayKeeps ==
    ASSUME MotorInv, UpdateUnderWay
    PROVE  MotorInv'
<1> DEFINE driven == positionTime + since * direction
<1>1. MotorTypeOK /\ direction # 0 /\ direction \in {-1, 1}
  BY WayBounds DEF MotorInv, UpdateUnderWay
<1>2. /\ pc' = "sleep" /\ elapsed' = 0 /\ since' = 0
      /\ positionTime' = Arrived(driven)
      /\ direction' = IF Reached(driven) THEN 0 ELSE direction
      /\ bridge' = direction' /\ forgotten' = FALSE
      /\ UNCHANGED <<desiredTime, sets, early, moved>>
  BY DEF UpdateUnderWay
<1>3. PICK part \in Nat :
        /\ part <= since
        /\ Arrived(driven) = IF direction = 1 THEN positionTime + part
                                              ELSE positionTime - part
        /\ ~Reached(driven) => part = since
  BY <1>1, ArrivedBounds
<1> HIDE DEF driven
<1>4. positionTime' \in Int /\ direction' \in {-1, 0, 1}
  BY <1>1, <1>2, <1>3, WayBounds
<1>5. MotorTypeOK'
  <2>1. since' \in 0..StartUp + LoopMax /\ elapsed' \in 0..LoopMax
    BY <1>2, Bounds
  <2> QED BY <1>1, <1>2, <1>4, <2>1 DEF MotorTypeOK
<1>6. LastTimeInv' /\ BridgeFollows'
  BY <1>2 DEF LastTimeInv, BridgeFollows
<1>7. UnderWayInv'
  BY <1>1, <1>2 DEF MotorInv, UnderWayInv
<1>8. SteersToTarget'
  <2>1. CASE Reached(driven)
    BY <1>2, <2>1 DEF Arrived, SteersToTarget, Towards
  <2>2. CASE ~Reached(driven)
    <3>1. positionTime' = driven /\ direction' = direction /\ desiredTime' = desiredTime
      BY <1>2, <2>2 DEF Arrived
    <3>2. driven \in Int /\ desiredTime \in Int
      BY <1>1, <1>4, <3>1, WayBounds, Bounds
    <3>3. direction = Towards(driven, desiredTime)
      BY <1>1, <2>2, <3>2 DEF Reached, Towards
    <3> QED BY <3>1, <3>3 DEF SteersToTarget
  <2> QED BY <2>1, <2>2
<1>9. PositionInRange'
  <2>1. CASE Reached(driven)
    BY <1>1, <1>2, <2>1, WayBounds, Bounds DEF Arrived, PositionInRange, Overrun, MotorTypeOK
  <2>2. CASE ~Reached(driven)
    <3>1. positionTime' = IF direction = 1 THEN positionTime + since ELSE positionTime - since
      BY <1>2, <1>3, <2>2
    <3>2. CASE direction = 1
      BY <1>1, <1>2, <3>1, <3>2, WayBounds, Bounds DEF MotorInv, PositionInRange, Overrun, MotorTypeOK
    <3>3. CASE direction = -1
      BY <1>1, <1>2, <3>1, <3>3, WayBounds, Bounds DEF MotorInv, PositionInRange, Overrun, MotorTypeOK
    <3> QED BY <1>1, <3>2, <3>3
  <2> QED BY <2>1, <2>2
<1>10. DriftInv'
  <2>1. Error' = Counted(Error, direction, part) /\ Counted(Error, direction, part) \in Int
    BY <1>1, <1>2, <1>3, WayBounds DEF Error, Counted, MotorTypeOK
  <2>2. Drift' = Drift
    BY <1>2 DEF Drift
  <2>3. /\ LoopMax <= Drift
        /\ \/ since <= LoopMax
           \/ /\ bridge = 0 /\ Error = 0 /\ since <= StartUp + LoopMax
              /\ LoopMax + StartUp <= Drift
    BY <1>1, DriftFacts
  <2>4. /\ Between(-Drift, Counted(Error, direction, part), Drift)
        /\ WithinDrift(direction, direction, FALSE, 0, Counted(Error, direction, since), Drift)
    BY <1>1, <1>3, <2>3, DriftFacts, DriftOfWay
  <2>5. CASE Reached(driven)
    <3>1. WithinDrift(0, 0, FALSE, 0, Counted(Error, direction, part), Drift)
      BY <2>1, <2>4, DriftFacts, DriftAtRest DEF Direction
    <3> QED BY <1>2, <2>1, <2>2, <2>5, <3>1 DEF DriftInv
  <2>6. CASE ~Reached(driven)
    BY <1>2, <1>3, <2>1, <2>2, <2>4, <2>6 DEF DriftInv
  <2> QED BY <2>5, <2>6
<1> QED BY <1>5, <1>6, <1>7, <1>8, <1>9, <1>10 DEF MotorInv

LEMMA TimePassesKeeps ==
    ASSUME MotorInv, TimePasses
    PROVE  MotorInv'
<1>1. MotorTypeOK
  BY DEF MotorInv
<1>2. /\ elapsed < LoopMax /\ elapsed' = elapsed + 1 /\ since' = since + 1
      /\ moved' = IF forgotten THEN moved ELSE moved + bridge
      /\ UNCHANGED <<pc, direction, desiredTime, positionTime, bridge, sets, early, forgotten>>
  BY DEF TimePasses
<1>3. since < StartUp + LoopMax
  BY <1>1, <1>2, Bounds DEF MotorInv, LastTimeInv, MotorTypeOK
<1>4. MotorTypeOK'
  <2>1. moved' \in Int
    BY <1>1, <1>2 DEF MotorTypeOK
  <2>2. since' \in 0..StartUp + LoopMax /\ elapsed' \in 0..LoopMax
    BY <1>1, <1>2, <1>3, Bounds DEF MotorTypeOK
  <2> QED BY <1>1, <1>2, <2>1, <2>2 DEF MotorTypeOK
<1>5. LastTimeInv'
  <2>1. CASE since <= elapsed
    BY <1>1, <1>2, <2>1, Bounds DEF LastTimeInv, MotorTypeOK
  <2>2. CASE ~(since <= elapsed)
    <3>1. /\ since \in StartUp .. StartUp + elapsed /\ bridge = 0 /\ ~forgotten
          /\ positionTime = 0 /\ moved = 0
          /\ direction # 0 => early
      BY <2>2 DEF MotorInv, LastTimeInv
    <3>2. moved' = 0 /\ since' \in StartUp .. StartUp + elapsed'
      BY <1>1, <1>2, <3>1, Bounds DEF MotorTypeOK
    <3> QED BY <1>2, <3>1, <3>2 DEF LastTimeInv
  <2> QED BY <2>1, <2>2
<1>6. UnderWayInv' /\ SteersToTarget' /\ BridgeFollows' /\ PositionInRange'
  BY <1>2 DEF MotorInv, UnderWayInv, SteersToTarget, BridgeFollows, PositionInRange, Overrun
<1>7. DriftInv'
  <2>1. Error' = IF forgotten THEN Error ELSE Error + bridge
    BY <1>1, <1>2 DEF Error, MotorTypeOK
  <2>2. Drift' = Drift
    BY <1>2 DEF Drift
  <2>3. WithinDrift(direction, bridge, forgotten, since + 1,
                    IF forgotten THEN Error ELSE Error + bridge, Drift)
    BY DriftFacts, DriftOfTime
  <2> QED BY <1>2, <2>1, <2>2, <2>3 DEF DriftInv
<1> QED BY <1>4, <1>5, <1>6, <1>7 DEF MotorInv

-----------------------------------------------------------------------------
(* The theorems.                                                           *)

LEMMA InitHolds == Init => MotorInv
<1>1. SUFFICES ASSUME Init PROVE MotorInv
  OBVIOUS
<1>2. MotorTypeOK
  <2>1. since \in 0..StartUp + LoopMax /\ elapsed \in 0..LoopMax
    BY <1>1, Bounds DEF Init
  <2>2. sets \in 0..MaxSets
    BY <1>1, MotorAssumption DEF Init
  <2>3. early \in BOOLEAN /\ forgotten \in BOOLEAN /\ pc \in {"commands", "sleep"}
        /\ direction \in {-1, 0, 1} /\ bridge \in {-1, 0, 1}
    BY <1>1 DEF Init
  <2>4. desiredTime \in Int /\ positionTime \in Int /\ moved \in Int
    BY <1>1 DEF Init
  <2> QED BY <2>1, <2>2, <2>3, <2>4 DEF MotorTypeOK
<1>3. LastTimeInv /\ UnderWayInv /\ SteersToTarget /\ BridgeFollows
  BY <1>1, Bounds DEF Init, LastTimeInv, UnderWayInv, SteersToTarget, Towards, BridgeFollows
<1>4. PositionInRange
  BY <1>1, Bounds DEF Init, PositionInRange, Overrun
<1>5. DriftInv
  <2>1. Error = 0 /\ Drift \in Nat
    BY <1>1, <1>2, DriftIsNat DEF Init, Error
  <2> QED BY <1>1, <2>1 DEF Init, DriftInv, WithinDrift, Between
<1> QED BY <1>2, <1>3, <1>4, <1>5 DEF MotorInv

LEMMA NextKeeps == MotorInv /\ [Next]_vars => MotorInv'
<1>1. SUFFICES ASSUME MotorInv, [Next]_vars PROVE MotorInv'
  OBVIOUS
<1>2. CASE SetValue
  BY <1>1, <1>2, SetValueKeeps
<1>3. CASE StopAtRest \/ Reset \/ UpdateAtRest
  BY <1>1, <1>3, RestKeeps
<1>4. CASE StopUnderWay
  BY <1>1, <1>4, StopUnderWayKeeps
<1>5. CASE UpdateUnderWay
  BY <1>1, <1>5, UpdateUnderWayKeeps
<1>6. CASE TimePasses
  BY <1>1, <1>6, TimePassesKeeps
<1>7. CASE UNCHANGED <<elapsed, motorVars, sets, early, forgotten, moved>> /\ pc' \in {pc, "commands"}
  <2>1. UNCHANGED <<elapsed, direction, desiredTime, positionTime, since, bridge,
                    sets, early, forgotten, moved>>
    BY <1>7 DEF motorVars
  <2>2. MotorTypeOK' /\ LastTimeInv' /\ UnderWayInv' /\ SteersToTarget'
    BY <1>1, <1>7, <2>1 DEF MotorInv, MotorTypeOK, LastTimeInv, UnderWayInv, SteersToTarget
  <2>3. BridgeFollows' /\ PositionInRange'
    BY <1>1, <1>7, <2>1 DEF MotorInv, BridgeFollows, PositionInRange, Overrun
  <2>4. DriftInv'
    BY <1>1, <2>1 DEF MotorInv, DriftInv, Error, Drift
  <2> QED BY <2>2, <2>3, <2>4 DEF MotorInv
<1>8. Wake \/ UNCHANGED vars
      => UNCHANGED <<elapsed, motorVars, sets, early, forgotten, moved>> /\ pc' \in {pc, "commands"}
  BY DEF Wake, vars
<1> QED BY <1>1, <1>2, <1>3, <1>4, <1>5, <1>6, <1>7, <1>8 DEF Next, Update

THEOREM MotorInductive == Spec => []MotorInv
  BY InitHolds, NextKeeps, PTL DEF Spec

\* The driver's state keeps its types, whatever is commanded when.
THEOREM MotorTypeCorrect == Spec => []MotorTypeOK
<1>1. MotorInv => MotorTypeOK
  BY DEF MotorInv
<1> QED BY <1>1, MotorInductive, PTL

\* The driver never steers away from its target, for any way, request and
\* timing of the loop.
THEOREM MotorSteersToTarget == Spec => []SteersToTarget
<1>1. MotorInv => SteersToTarget
  BY DEF MotorInv
<1> QED BY <1>1, MotorInductive, PTL

\* The bridge drives only a motor under way, except after a reset.
THEOREM MotorBridgeFollows == Spec => []BridgeFollows
<1>1. MotorInv => BridgeFollows
  BY DEF MotorInv
<1> QED BY <1>1, MotorInductive, PTL

\* The counted position leaves the requested range by one iteration at most.
THEOREM MotorPositionInRange == Spec => []PositionInRange
<1>1. MotorInv => PositionInRange
  BY DEF MotorInv
<1> QED BY <1>1, MotorInductive, PTL

\* The error of the dead reckoning grows by at most one iteration with each
\* set command.
THEOREM MotorDriftPerTarget == Spec => []DriftPerTarget
<1>1. MotorInv => DriftPerTarget
  BY DriftFacts DEF DriftPerTarget, Between
<1> QED BY <1>1, MotorInductive, PTL
=============================================================================
