------------------------- MODULE SensorSweep_proofs -------------------------
(* Theorems about SensorSweep, for every value of its constants.           *)
EXTENDS SensorSweep, TLAPS

\* A reading more moves what the schedule must be ahead of by one interval.
LEMMA OneReadingMore ==
    ASSUME NEW first \in Int, NEW count \in Int, NEW step \in Nat, NEW next \in Int,
           first + count * step <= next
    PROVE  /\ first + (count + 1) * step <= next + step
           /\ first + ((count + 1) - 1) * step <= next
<1>1. (count + 1) * step = count * step + step
  OBVIOUS
<1>2. (count + 1) - 1 = count
  OBVIOUS
<1>3. count * step \in Int
  OBVIOUS
<1> QED BY <1>1, <1>2, <1>3

LEMMA ConfigIsSensor ==
    ASSUME NEW k \in 1..Len(Config)
    PROVE  Config[k] \in Sensor
BY SensorAssumption

LEMMA IntervalIsNat ==
    ASSUME NEW s \in Sensor
    PROVE  Interval[s] \in Nat /\ Interval[s] > 0
BY SensorAssumption

LEMMA ClockFacts ==
    ASSUME SensorInv
    PROVE  time \in Nat /\ start \in Nat /\ now \in Nat /\ start <= time /\ now <= time
<1>1. /\ time \in Boot..MaxTime /\ start \in Boot..time /\ now \in Boot..time
  BY DEF SensorInv, SensorTypeOK
<1>2. Boot \in Nat /\ MaxTime \in Nat
  BY SensorAssumption
<1> QED BY <1>1, <1>2

LEMMA SensorFacts ==
    ASSUME SensorInv, NEW s \in Sensor
    PROVE  nextRead[s] \in Int /\ reports[s] \in Nat
<1>1. nextRead \in [Sensor -> Int] /\ reports \in [Sensor -> Nat]
  BY DEF SensorInv, SensorTypeOK
<1> QED BY <1>1

LEMMA MeasuredFacts ==
    ASSUME SensorInv, NEW s \in Sensor
    PROVE  Measured(s) \in Int
<1>1. s \in Files => failures[s] \in 0..MaxFailures
  BY DEF SensorInv, SensorTypeOK
<1> QED BY <1>1, SensorFacts, SensorAssumption DEF Measured

LEMMA MeasuredKept ==
    ASSUME UNCHANGED <<reports, failures>>
    PROVE  \A s \in Scheduled : Measured(s)' = Measured(s)
BY DEF Measured

LEMMA InitHolds == Init => SensorInv
<1> SUFFICES ASSUME Init PROVE SensorInv
  OBVIOUS
<1>1. SensorTypeOK
  <2>1. /\ at \in 1..Len(Config) /\ Boot \in Nat /\ time \in Boot..MaxTime
        /\ start \in Boot..time /\ now \in Boot..time
    BY SensorAssumption DEF Init
  <2>2. 0 \in 0..time /\ 0 \in 0..MaxReadings
    BY <2>1, SensorAssumption
  <2>3. readInterval \in [Weights -> Int]
    BY SensorAssumption DEF Init
  <2>4. nextRead \in [Sensor -> Int] /\ reports \in [Sensor -> Nat]
    BY DEF Init
  <2>5. lastRead \in [Boards -> 0..time] /\ prevRead \in [Boards -> 0..time]
    BY <2>2 DEF Init
  <2>6. readings \in [Weights -> 0..MaxReadings]
    BY <2>2 DEF Init
  <2>9. failures \in [Files -> 0..MaxFailures]
    BY SensorAssumption DEF Init
  <2>7. /\ channel \in [Boards -> BOOLEAN] /\ initDone \in [Weights -> BOOLEAN]
        /\ reader \in [Weights -> {"idle", "advance", "run"}] /\ loaded \in [Weights -> Int]
        /\ runs \in [Weights -> Nat] /\ fresh \in [Weights -> BOOLEAN]
    BY DEF Init
  <2>8. pc = "starting" /\ initialised = {}
    BY DEF Init
  <2> QED BY <2>1, <2>3, <2>4, <2>5, <2>6, <2>7, <2>8, <2>9 DEF SensorTypeOK
<1>8. \A s \in Scheduled : Measured(s) = 0
  BY DEF Init, Measured, Scheduled, Sensor
<1>2. PhaseInv
  BY <1>8 DEF Init, PhaseInv, Scheduled, Sensor
<1>3. ScheduleInv
  BY DEF Init, ScheduleInv
<1>4. GapInv
  BY DEF Init, GapInv, Sensor
<1>5. ReadyInv
  BY DEF Init, ReadyInv
<1>6. Paced
  BY <1>8 DEF Paced
<1>7. ReportedOnce
  BY DEF Init, ReportedOnce, Sensor
<1> QED BY <1>1, <1>2, <1>3, <1>4, <1>5, <1>6, <1>7 DEF SensorInv

-----------------------------------------------------------------------------
(* The start-up.                                                           *)

LEMMA TareDoneKeeps ==
    ASSUME SensorInv, NEW w \in Weights, TareDone(w)
    PROVE  SensorInv'
<1> USE DEF TareDone, mainVars, threadVars, reportVars
<1>1. SensorTypeOK'
  BY DEF SensorInv, SensorTypeOK
<1>2. PhaseInv'
  BY MeasuredKept DEF SensorInv, PhaseInv
<1>3. ScheduleInv'
  BY MeasuredKept DEF SensorInv, ScheduleInv
<1>4. GapInv'
  BY DEF SensorInv, GapInv
<1>5. ReadyInv'
  BY DEF SensorInv, ReadyInv
<1>6. Paced'
  BY MeasuredKept DEF SensorInv, Paced
<1>7. ReportedOnce'
  BY DEF SensorInv, ReportedOnce
<1> QED BY <1>1, <1>2, <1>3, <1>4, <1>5, <1>6, <1>7 DEF SensorInv

LEMMA TakeStartTimeKeeps ==
    ASSUME SensorInv, TakeStartTime
    PROVE  SensorInv'
<1> USE DEF TakeStartTime, threadVars, reportVars
<1>1. SensorTypeOK'
  <2>1. SensorTypeOK
    BY DEF SensorInv
  <2>2. time \in Boot..time
    BY <2>1, SensorAssumption DEF SensorTypeOK
  <2> QED BY <2>1, <2>2 DEF SensorTypeOK
<1>2. PhaseInv'
  BY MeasuredKept DEF SensorInv, PhaseInv
<1>3. initialised = {}
  BY DEF SensorInv, PhaseInv
<1>4. ScheduleInv'
  BY <1>3 DEF ScheduleInv
<1>5. GapInv'
  BY DEF SensorInv, GapInv
<1>6. ReadyInv'
  BY DEF ReadyInv
<1>7. \A s \in Scheduled : Measured(s)' = 0
  BY <1>3, MeasuredKept DEF SensorInv, PhaseInv
<1>8. Paced'
  BY <1>7 DEF Paced
<1>9. ReportedOnce'
  BY DEF SensorInv, ReportedOnce
<1> QED BY <1>1, <1>2, <1>4, <1>5, <1>6, <1>8, <1>9 DEF SensorInv

LEMMA InitIntervalKeeps ==
    ASSUME SensorInv, NEW s \in Sensor, InitInterval(s)
    PROVE  SensorInv'
<1> USE DEF InitInterval, threadVars, reportVars
<1>0. SensorTypeOK
  BY DEF SensorInv
<1>1. SensorTypeOK'
  <2>1. start \in Int
    BY <1>0, SensorAssumption DEF SensorTypeOK
  <2>2. nextRead' \in [Sensor -> Int]
    BY <1>0, <2>1 DEF SensorTypeOK
  <2>3. readInterval' \in [Weights -> Int]
    BY <1>0, IntervalIsNat DEF SensorTypeOK, Sensor
  <2>4. initialised' \subseteq Sensor
    BY <1>0 DEF SensorTypeOK
  <2> QED BY <1>0, <2>2, <2>3, <2>4 DEF SensorTypeOK
<1>2. PhaseInv'
  BY MeasuredKept DEF SensorInv, PhaseInv
<1>3. s \in Scheduled => reports[s] = 0 /\ Measured(s) = 0
  BY DEF SensorInv, PhaseInv
<1>4. ScheduleInv'
  <2> SUFFICES ASSUME NEW r \in Scheduled, r \in initialised'
               PROVE  start + Measured(r) * Interval[r] <= nextRead'[r]
    BY MeasuredKept DEF ScheduleInv
  <2>1. r \in Sensor
    BY DEF Scheduled, Sensor
  <2>2. CASE r # s
    <3>1. nextRead'[r] = nextRead[r] /\ r \in initialised
      BY <2>1, <2>2, <1>0 DEF SensorTypeOK
    <3> QED BY <3>1 DEF SensorInv, ScheduleInv
  <2>3. CASE r = s
    <3>1. nextRead'[r] = start /\ Measured(r) = 0
      BY <2>1, <2>3, <1>0, <1>3 DEF SensorTypeOK
    <3>2. 0 * Interval[r] = 0 /\ start \in Int
      BY <2>1, IntervalIsNat, ClockFacts
    <3> QED BY <3>1, <3>2
  <2> QED BY <2>2, <2>3
<1>5. GapInv'
  <2> SUFFICES ASSUME NEW r \in Boards
               PROVE  /\ reports[r] > 0 => lastRead[r] <= nextRead'[r]
                      /\ reports[r] > 1 => prevRead[r] + Interval[r] <= nextRead'[r]
    BY DEF GapInv
  <2>1. CASE r # s
    <3>1. nextRead'[r] = nextRead[r]
      BY <2>1, <1>0 DEF SensorTypeOK, Sensor
    <3> QED BY <3>1 DEF SensorInv, GapInv
  <2>2. CASE r = s
    BY <2>2, <1>3 DEF Scheduled
  <2> QED BY <2>1, <2>2
<1>6. ReadyInv'
  BY DEF ReadyInv
<1>7. Paced'
  BY MeasuredKept DEF SensorInv, Paced
<1>8. ReportedOnce'
  BY DEF SensorInv, ReportedOnce
<1> QED BY <1>1, <1>2, <1>4, <1>5, <1>6, <1>7, <1>8 DEF SensorInv

LEMMA StartUpDoneKeeps ==
    ASSUME SensorInv, StartUpDone
    PROVE  SensorInv'
<1> USE DEF StartUpDone, threadVars, reportVars
<1>1. SensorTypeOK'
  BY DEF SensorInv, SensorTypeOK
<1>2. PhaseInv'
  BY MeasuredKept DEF SensorInv, PhaseInv
<1>3. ScheduleInv'
  BY MeasuredKept DEF SensorInv, ScheduleInv
<1>4. GapInv'
  BY DEF SensorInv, GapInv
<1>5. ReadyInv'
  BY DEF ReadyInv
<1>6. Paced'
  BY MeasuredKept DEF SensorInv, Paced
<1>7. ReportedOnce'
  BY DEF SensorInv, ReportedOnce
<1> QED BY <1>1, <1>2, <1>3, <1>4, <1>5, <1>6, <1>7 DEF SensorInv

-----------------------------------------------------------------------------
(* The sweep.                                                              *)

\* Steps that only move the main loop on.
LEMMA LoopStepKeeps ==
    ASSUME SensorInv, BeginSweep \/ IsReady \/ NotReady
    PROVE  SensorInv'
<1> USE DEF threadVars, reportVars
<1>0. SensorTypeOK /\ Len(Config) \in Nat /\ Len(Config) > 0
  BY SensorAssumption DEF SensorInv
<1>1. SensorTypeOK'
  <2>1. CASE BeginSweep
    <3>1. at' \in 1..Len(Config) /\ pc' = "ready"
      BY <2>1, <1>0 DEF BeginSweep
    <3>2. now' \in Boot..time
      BY <2>1, <1>0, SensorAssumption DEF BeginSweep, SensorTypeOK
    <3> QED BY <2>1, <3>1, <3>2, <1>0 DEF SensorTypeOK, BeginSweep
  <2>2. CASE IsReady
    BY <2>2, <1>0 DEF SensorTypeOK, IsReady
  <2>3. CASE NotReady
    <3>1. at' \in 1..Len(Config) /\ pc' \in {"ready", "sleep"}
      BY <2>3, <1>0 DEF SensorTypeOK, NotReady, NextSensor
    <3> QED BY <3>1, <2>3, <1>0 DEF SensorTypeOK, NotReady
  <2> QED BY <2>1, <2>2, <2>3
<1>2. /\ UNCHANGED <<start, initialised, time, nextRead, readInterval, channel,
                     initDone, threadVars, fresh, reportVars>>
      /\ pc \in {"sleep", "ready"} /\ pc' \in {"sleep", "ready", "read"}
  BY DEF BeginSweep, IsReady, NotReady, NextSensor
<1>3. PhaseInv'
  BY <1>2, MeasuredKept DEF SensorInv, PhaseInv, reportVars
<1>4. ScheduleInv'
  BY <1>2, MeasuredKept DEF SensorInv, ScheduleInv, reportVars
<1>5. GapInv'
  BY <1>2 DEF SensorInv, GapInv
<1>6. ReadyInv'
  <2>1. CASE IsReady
    <3>1. Config[at] \in Scheduled => Due(Config[at])
      BY <2>1, SensorAssumption DEF IsReady, Ready, Scheduled
    <3>2. Config[at] \in Weights => fresh[Config[at]]
      BY <2>1, SensorAssumption DEF IsReady, Ready
    <3>3. Config[at] \in Scheduled => nextRead[Config[at]] <= now
      <4>1. Config[at] \in Sensor
        BY <1>0, ConfigIsSensor DEF SensorTypeOK
      <4>2. nextRead[Config[at]] \in Int /\ now \in Int
        BY <4>1, <1>0, SensorAssumption DEF SensorTypeOK
      <4> QED BY <3>1, <4>2 DEF Due
    <3> QED BY <2>1, <3>2, <3>3 DEF IsReady, ReadyInv
  <2>2. CASE BeginSweep \/ NotReady
    BY <2>2 DEF BeginSweep, NotReady, NextSensor, ReadyInv
  <2> QED BY <2>1, <2>2
<1>7. Paced'
  BY <1>2, MeasuredKept DEF SensorInv, Paced, reportVars
<1>8. ReportedOnce'
  BY <1>2 DEF SensorInv, ReportedOnce
<1> QED BY <1>1, <1>3, <1>4, <1>5, <1>6, <1>7, <1>8 DEF SensorInv

\* What get_value() of a sensor with a schedule does to it.
LEMMA ScheduledRead ==
    ASSUME SensorInv, NEW s \in Scheduled, s \in initialised,
           nextRead[s] <= now, Report(s), UNCHANGED failures,
           NEW later \in Int, later >= nextRead[s] + Interval[s],
           nextRead' = [nextRead EXCEPT ![s] = later],
           UNCHANGED <<start, initialised, time>>
    PROVE  ScheduleInv' /\ Paced'
<1>0. /\ SensorTypeOK /\ s \in Sensor /\ Measured(s) \in Int /\ nextRead[s] \in Int
      /\ Interval[s] \in Nat /\ start \in Int /\ now \in Int /\ time \in Int /\ now <= time
  <2>1. SensorTypeOK /\ s \in Sensor
    BY DEF SensorInv, Scheduled, Sensor
  <2> QED BY <2>1, ClockFacts, SensorFacts, MeasuredFacts, IntervalIsNat
<1>1. start + Measured(s) * Interval[s] <= nextRead[s]
  BY DEF SensorInv, ScheduleInv
<1>2. /\ start + (Measured(s) + 1) * Interval[s] <= nextRead[s] + Interval[s]
      /\ start + ((Measured(s) + 1) - 1) * Interval[s] <= nextRead[s]
  BY <1>0, <1>1, OneReadingMore
<1>3. Measured(s)' = Measured(s) + 1 /\ nextRead'[s] = later
  <2>1. reports'[s] = reports[s] + 1 /\ nextRead'[s] = later
    BY <1>0 DEF Report, SensorTypeOK
  <2>2. reports[s] \in Int /\ (s \in Files => failures[s] \in Int)
    BY <1>0, SensorAssumption DEF SensorTypeOK
  <2> QED BY <2>1, <2>2 DEF Measured
<1>4. \A r \in Scheduled : r # s => Measured(r)' = Measured(r) /\ nextRead'[r] = nextRead[r]
  BY <1>0 DEF Report, SensorTypeOK, Scheduled, Sensor, Measured
<1>5. start' + Measured(s)' * Interval[s] <= nextRead'[s]
  <2> DEFINE least == (Measured(s) + 1) * Interval[s]
  <2>1. least \in Int
    BY <1>0
  <2>2. start + least <= nextRead[s] + Interval[s]
    BY <1>2
  <2>3. Measured(s)' * Interval[s] = least
    BY <1>3
  <2> HIDE DEF least
  <2>4. start + least <= later
    BY <2>1, <2>2, <1>0
  <2> QED BY <2>3, <2>4, <1>3
<1>6. start' + (Measured(s)' - 1) * Interval[s] <= time'
  <2> DEFINE least == ((Measured(s) + 1) - 1) * Interval[s]
  <2>1. least \in Int
    BY <1>0
  <2>2. start + least <= nextRead[s]
    BY <1>2
  <2>3. (Measured(s)' - 1) * Interval[s] = least
    BY <1>3
  <2> HIDE DEF least
  <2>4. start + least <= time
    BY <2>1, <2>2, <1>0
  <2> QED BY <2>3, <2>4
<1>7. ScheduleInv'
  <2> SUFFICES ASSUME NEW r \in Scheduled, r \in initialised
               PROVE  start' + Measured(r)' * Interval[r] <= nextRead'[r]
    BY DEF ScheduleInv
  <2>1. CASE r = s
    BY <2>1, <1>5
  <2>2. CASE r # s
    BY <2>2, <1>4 DEF SensorInv, ScheduleInv
  <2> QED BY <2>1, <2>2
<1>8. Paced'
  <2> SUFFICES ASSUME NEW r \in Scheduled, Measured(r)' > 0
               PROVE  start' + (Measured(r)' - 1) * Interval[r] <= time'
    BY DEF Paced
  <2>1. CASE r = s
    BY <2>1, <1>6
  <2>2. CASE r # s
    BY <2>2, <1>4 DEF SensorInv, Paced
  <2> QED BY <2>1, <2>2
<1> QED BY <1>7, <1>8

\* What every get_value() leaves behind.
LEMMA ReadFrame ==
    ASSUME SensorInv, ReadSensor
    PROVE  /\ PhaseInv' /\ ReadyInv'
           /\ Config[at] \in Sensor /\ Config[at] \in initialised
           /\ Config[at] \in Scheduled => nextRead[Config[at]] <= now
           /\ Config[at] \in Weights => fresh[Config[at]]
           /\ nextRead' \in [Sensor -> Int] /\ reports' \in [Sensor -> Nat]
              /\ failures' \in [Files -> 0..MaxFailures]
              /\ fresh' \in [Weights -> BOOLEAN]
              /\ lastRead' \in [Boards -> 0..time] /\ prevRead' \in [Boards -> 0..time]
              => SensorTypeOK'
<1>0. SensorTypeOK /\ Len(Config) \in Nat
  BY SensorAssumption DEF SensorInv
<1>1. at' \in 1..Len(Config) /\ pc' \in {"ready", "sleep"}
  BY <1>0 DEF SensorTypeOK, ReadSensor, NextSensor
<1>2. pc = "read" /\ UNCHANGED <<start, now, initialised, time, readInterval, channel,
                                 initDone, threadVars>>
  BY DEF ReadSensor
<1>3. initialised = Sensor
  BY <1>2 DEF SensorInv, PhaseInv
<1>4. PhaseInv'
  BY <1>1, <1>2, <1>3 DEF PhaseInv, Scheduled, Sensor
<1>5. ReadyInv'
  BY <1>1 DEF ReadyInv
<1>6. Config[at] \in Sensor
  BY <1>0, ConfigIsSensor DEF SensorTypeOK
<1>7. /\ Config[at] \in Scheduled => nextRead[Config[at]] <= now
      /\ Config[at] \in Weights => fresh[Config[at]]
  BY <1>2 DEF SensorInv, ReadyInv
<1>8. ASSUME /\ nextRead' \in [Sensor -> Int] /\ reports' \in [Sensor -> Nat]
             /\ failures' \in [Files -> 0..MaxFailures]
             /\ fresh' \in [Weights -> BOOLEAN]
             /\ lastRead' \in [Boards -> 0..time] /\ prevRead' \in [Boards -> 0..time]
      PROVE  SensorTypeOK'
  BY <1>0, <1>1, <1>2, <1>8 DEF SensorTypeOK, threadVars
<1> QED BY <1>3, <1>4, <1>5, <1>6, <1>7, <1>8

LEMMA ReadPolledKeeps ==
    ASSUME SensorInv, ReadSensor, ReadPolled(Config[at])
    PROVE  SensorInv'
<1> DEFINE s == Config[at]
           later == nextRead[s] + Interval[s]
<1>0. SensorTypeOK /\ s \in Polled /\ s \in Sensor /\ s \in Scheduled
  BY DEF SensorInv, ReadPolled, Scheduled, Sensor
<1>1. nextRead[s] \in Int /\ Interval[s] \in Int /\ later \in Int
  BY <1>0, IntervalIsNat, SensorFacts
<1>2. /\ Report(s) /\ nextRead' = [nextRead EXCEPT ![s] = later]
      /\ UNCHANGED <<start, initialised, time, fresh, failures, lastRead, prevRead, threadVars>>
  BY DEF ReadPolled, ReadSensor
<1>3. s \in initialised /\ nextRead[s] <= now
  BY <1>0, ReadFrame
<1>4. ScheduleInv' /\ Paced'
  <2>1. later >= nextRead[s] + Interval[s]
    BY <1>1
  <2> HIDE DEF s, later
  <2> QED BY <1>0, <1>1, <1>2, <1>3, <2>1, ScheduledRead
<1>5. nextRead' \in [Sensor -> Int] /\ reports' \in [Sensor -> Nat]
  BY <1>0, <1>1, <1>2 DEF Report, SensorTypeOK
<1>6. SensorTypeOK' /\ PhaseInv' /\ ReadyInv'
  BY <1>0, <1>2, <1>5, ReadFrame DEF SensorTypeOK
<1>7. \A r \in Sensor : r # s => reports'[r] = reports[r] /\ nextRead'[r] = nextRead[r]
  BY <1>0, <1>2 DEF Report, SensorTypeOK
<1>8. GapInv'
  BY <1>0, <1>2, <1>7, SensorAssumption DEF SensorInv, GapInv, Sensor
<1>9. ReportedOnce'
  BY <1>0, <1>2, <1>7, SensorAssumption DEF SensorInv, ReportedOnce, Sensor, threadVars
<1> QED BY <1>4, <1>6, <1>8, <1>9 DEF SensorInv

\* A -1 is a value more and a failure more: what is measured stays.
LEMMA FileFailsKeeps ==
    ASSUME SensorInv, ReadSensor, FileFails(Config[at])
    PROVE  SensorInv'
<1> DEFINE s == Config[at]
<1>0. /\ SensorTypeOK /\ s \in Files /\ s \in Polled /\ s \in Sensor
      /\ s \notin Boards /\ s \notin Weights /\ MaxFailures \in Nat
  BY SensorAssumption DEF SensorInv, FileFails, Sensor
<1>1. /\ Report(s) /\ failures' = [failures EXCEPT ![s] = failures[s] + 1]
      /\ failures[s] < MaxFailures
      /\ UNCHANGED <<start, initialised, time, nextRead, fresh, lastRead, prevRead, threadVars>>
  BY DEF FileFails, ReadSensor
<1>2. reports[s] \in Nat /\ failures[s] \in 0..MaxFailures
  BY <1>0 DEF SensorTypeOK
<1>3. /\ reports'[s] = reports[s] + 1 /\ failures'[s] = failures[s] + 1
      /\ \A r \in Sensor : r # s => reports'[r] = reports[r]
      /\ \A r \in Files : r # s => failures'[r] = failures[r]
  BY <1>0, <1>1 DEF Report, SensorTypeOK
<1>4. \A r \in Sensor : Measured(r)' = Measured(r)
  <2> SUFFICES ASSUME NEW r \in Sensor PROVE Measured(r)' = Measured(r)
    OBVIOUS
  <2>1. CASE r = s
    BY <2>1, <1>0, <1>2, <1>3 DEF Measured
  <2>2. CASE r # s
    BY <2>2, <1>3 DEF Measured
  <2> QED BY <2>1, <2>2
<1>5. reports' \in [Sensor -> Nat] /\ failures' \in [Files -> 0..MaxFailures]
  <2>1. failures[s] + 1 \in 0..MaxFailures
    BY <1>0, <1>1, <1>2
  <2> QED BY <2>1, <1>0, <1>1 DEF Report, SensorTypeOK
<1>6. SensorTypeOK' /\ PhaseInv' /\ ReadyInv'
  BY <1>0, <1>1, <1>5, ReadFrame DEF SensorTypeOK
<1>7. ScheduleInv' /\ Paced'
  <2>1. \A r \in Scheduled : Measured(r)' = Measured(r)
    BY <1>4 DEF Scheduled, Sensor
  <2> QED BY <1>1, <2>1 DEF SensorInv, ScheduleInv, Paced
<1>8. GapInv'
  BY <1>0, <1>1, <1>3 DEF SensorInv, GapInv, Sensor
<1>9. ReportedOnce'
  BY <1>0, <1>1, <1>3 DEF SensorInv, ReportedOnce, Sensor, threadVars
<1> QED BY <1>6, <1>7, <1>8, <1>9 DEF SensorInv

LEMMA ReadBoardKeeps ==
    ASSUME SensorInv, ReadSensor, ReadBoard(Config[at])
    PROVE  SensorInv'
<1> DEFINE s == Config[at]
           later == LaterRead(s)
<1>0. SensorTypeOK /\ s \in Boards /\ s \in Sensor /\ s \in Scheduled
  BY DEF SensorInv, ReadBoard, Scheduled, Sensor
<1>1. /\ nextRead[s] \in Int /\ Interval[s] \in Int /\ time \in Nat
      /\ lastRead[s] \in 0..time /\ reports[s] \in Nat
  <2>1. lastRead[s] \in 0..time
    BY <1>0 DEF SensorTypeOK
  <2> QED BY <1>0, <2>1, IntervalIsNat, ClockFacts, SensorFacts
<1>2. later \in Int /\ later >= nextRead[s] + Interval[s] /\ later >= time
  BY <1>1 DEF LaterRead
<1>3. /\ Report(s) /\ nextRead' = [nextRead EXCEPT ![s] = later]
      /\ prevRead' = [prevRead EXCEPT ![s] = lastRead[s]]
      /\ lastRead' = [lastRead EXCEPT ![s] = time]
      /\ UNCHANGED <<start, initialised, time, fresh, failures, threadVars>>
  BY DEF ReadBoard, ReadSensor
<1> HIDE DEF later
<1>4. s \in initialised /\ nextRead[s] <= now
  BY <1>0, ReadFrame
<1>5. ScheduleInv' /\ Paced'
  <2> HIDE DEF s
  <2> QED BY <1>0, <1>2, <1>3, <1>4, ScheduledRead
<1>6. nextRead' \in [Sensor -> Int] /\ reports' \in [Sensor -> Nat]
  BY <1>0, <1>1, <1>2, <1>3 DEF Report, SensorTypeOK
<1>7. lastRead' \in [Boards -> 0..time] /\ prevRead' \in [Boards -> 0..time]
  BY <1>0, <1>1, <1>3 DEF SensorTypeOK
<1>8. SensorTypeOK' /\ PhaseInv' /\ ReadyInv'
  BY <1>0, <1>3, <1>6, <1>7, ReadFrame DEF SensorTypeOK
<1>9. GapInv'
  <2> SUFFICES ASSUME NEW r \in Boards
               PROVE  /\ reports'[r] > 0 => lastRead'[r] <= nextRead'[r]
                      /\ reports'[r] > 1 => prevRead'[r] + Interval[r] <= nextRead'[r]
    BY DEF GapInv
  <2>1. CASE r # s
    <3>1. /\ reports'[r] = reports[r] /\ nextRead'[r] = nextRead[r]
          /\ lastRead'[r] = lastRead[r] /\ prevRead'[r] = prevRead[r]
      BY <2>1, <1>0, <1>3 DEF Report, SensorTypeOK, Sensor
    <3> QED BY <3>1 DEF SensorInv, GapInv
  <2>2. CASE r = s
    <3>1. /\ reports'[r] = reports[s] + 1 /\ nextRead'[r] = later
          /\ lastRead'[r] = time /\ prevRead'[r] = lastRead[s]
      BY <2>2, <1>0, <1>3 DEF Report, SensorTypeOK, Sensor
    <3>2. reports[s] > 0 => lastRead[s] <= nextRead[s]
      BY <1>0 DEF SensorInv, GapInv
    <3> HIDE DEF s
    <3>3. reports[s] > 0 => lastRead[s] + Interval[s] <= later
      BY <3>2, <1>1, <1>2
    <3> QED BY <2>2, <3>1, <3>3, <1>1, <1>2
  <2> QED BY <2>1, <2>2
<1>10. ReportedOnce'
  <2>1. \A w \in Weights : reports'[w] = reports[w]
    BY <1>0, <1>3, SensorAssumption DEF Report, SensorTypeOK, Sensor
  <2> QED BY <2>1, <1>3 DEF SensorInv, ReportedOnce, threadVars
<1> QED BY <1>5, <1>8, <1>9, <1>10 DEF SensorInv

LEMMA ReadWeightKeeps ==
    ASSUME SensorInv, ReadSensor, ReadWeight(Config[at])
    PROVE  SensorInv'
<1> DEFINE s == Config[at]
<1>0. SensorTypeOK /\ s \in Weights /\ s \in Sensor /\ s \notin Scheduled
  BY SensorAssumption DEF SensorInv, ReadWeight, Scheduled, Sensor
<1>1. /\ Report(s) /\ fresh' = [fresh EXCEPT ![s] = FALSE]
      /\ UNCHANGED <<start, initialised, time, nextRead, failures, lastRead, prevRead, threadVars>>
  BY DEF ReadWeight, ReadSensor
<1>2. fresh[s]
  BY <1>0, ReadFrame
<1>3. reports' \in [Sensor -> Nat] /\ fresh' \in [Weights -> BOOLEAN]
  BY <1>0, <1>1 DEF Report, SensorTypeOK
<1>4. SensorTypeOK' /\ PhaseInv' /\ ReadyInv'
  BY <1>0, <1>1, <1>3, ReadFrame DEF SensorTypeOK
<1>5. \A r \in Scheduled : reports'[r] = reports[r] /\ Measured(r)' = Measured(r)
  BY <1>0, <1>1 DEF Report, SensorTypeOK, Scheduled, Sensor, Measured
<1>6. ScheduleInv' /\ Paced'
  BY <1>1, <1>5 DEF SensorInv, ScheduleInv, Paced
<1>7. GapInv'
  BY <1>1, <1>5 DEF SensorInv, GapInv, Scheduled
<1>8. ReportedOnce'
  <2> SUFFICES ASSUME NEW w \in Weights
               PROVE  /\ reports'[w] + (IF fresh'[w] THEN 1 ELSE 0) <= readings[w]
                      /\ readings[w] > 0 => runs[w] >= EndRuns /\ runs[w] >= StartRuns
    BY <1>1 DEF ReportedOnce, threadVars
  <2>1. /\ reports[w] + (IF fresh[w] THEN 1 ELSE 0) <= readings[w]
        /\ readings[w] > 0 => runs[w] >= EndRuns /\ runs[w] >= StartRuns
    BY DEF SensorInv, ReportedOnce
  <2>2. CASE w # s
    <3>1. reports'[w] = reports[w] /\ fresh'[w] = fresh[w]
      BY <2>2, <1>0, <1>1 DEF Report, SensorTypeOK, Sensor
    <3> QED BY <2>1, <3>1
  <2>3. CASE w = s
    <3>1. reports'[w] = reports[w] + 1 /\ ~fresh'[w] /\ fresh[w]
      BY <2>3, <1>0, <1>1, <1>2 DEF Report, SensorTypeOK, Sensor
    <3>2. reports[w] \in Nat /\ readings[w] \in Int
      BY <1>0 DEF SensorTypeOK, Sensor
    <3> QED BY <2>1, <3>1, <3>2
  <2> QED BY <2>2, <2>3
<1> QED BY <1>4, <1>6, <1>7, <1>8 DEF SensorInv

LEMMA ReadSensorKeeps ==
    ASSUME SensorInv, ReadSensor
    PROVE  SensorInv'
BY ReadPolledKeeps, FileFailsKeeps, ReadBoardKeeps, ReadWeightKeeps DEF ReadSensor

-----------------------------------------------------------------------------
(* The reader threads and the environment.                                 *)

\* The reader thread writes next_read_time of its own sensor, which has no
\* other schedule; and what it takes as a reading follows the calibration.
LEMMA ReaderKeeps ==
    ASSUME SensorInv, NEW w \in Weights, Reader(w)
    PROVE  SensorInv'
<1>0. /\ SensorTypeOK /\ w \in Sensor /\ w \notin Scheduled
      /\ StartRuns \in Nat /\ EndRuns \in Nat /\ MaxReadings \in Nat
  BY SensorAssumption DEF SensorInv, Scheduled, Sensor
<1>1. UNCHANGED <<mainVars, time, readInterval, channel, initDone, reportVars>>
  BY DEF Reader, ReaderDue, ReaderAdvance, ReaderCalibrates, ReaderMeasures
<1>2. /\ nextRead' \in [Sensor -> Int]
      /\ \A r \in Scheduled : nextRead'[r] = nextRead[r]
  <2>1. CASE ReaderAdvance(w)
    <3>1. loaded[w] + readInterval[w] \in Int
      BY <1>0 DEF SensorTypeOK
    <3> QED BY <2>1, <3>1, <1>0 DEF ReaderAdvance, SensorTypeOK, Scheduled, Sensor
  <2>2. CASE ~ReaderAdvance(w)
    BY <2>2, <1>0 DEF Reader, ReaderDue, ReaderCalibrates, ReaderMeasures, SensorTypeOK
  <2> QED BY <2>1, <2>2
<1>3. /\ reader' \in [Weights -> {"idle", "advance", "run"}] /\ loaded' \in [Weights -> Int]
      /\ runs' \in [Weights -> Nat] /\ fresh' \in [Weights -> BOOLEAN]
      /\ readings' \in [Weights -> 0..MaxReadings]
  <2>0. /\ reader \in [Weights -> {"idle", "advance", "run"}] /\ loaded \in [Weights -> Int]
        /\ runs \in [Weights -> Nat] /\ fresh \in [Weights -> BOOLEAN]
        /\ readings \in [Weights -> 0..MaxReadings]
    BY <1>0 DEF SensorTypeOK
  <2>1. CASE ReaderDue(w)
    BY <2>1, <1>0 DEF ReaderDue, SensorTypeOK
  <2>2. CASE ReaderAdvance(w)
    <3>1. /\ reader' = [reader EXCEPT ![w] = "run"] /\ loaded' = [loaded EXCEPT ![w] = 0]
          /\ UNCHANGED <<runs, fresh, readings>>
      BY <2>2 DEF ReaderAdvance
    <3> QED BY <3>1, <2>0
  <2>3. CASE ReaderCalibrates(w)
    <3>1. /\ reader' = [reader EXCEPT ![w] = "idle"] /\ runs' = [runs EXCEPT ![w] = runs[w] + 1]
          /\ UNCHANGED <<loaded, fresh, readings>>
      BY <2>3 DEF ReaderCalibrates
    <3>2. runs[w] + 1 \in Nat
      BY <2>0
    <3> QED BY <3>1, <3>2, <2>0
  <2>4. CASE ReaderMeasures(w)
    <3>1. readings[w] + 1 \in 0..MaxReadings
      BY <2>4, <1>0 DEF ReaderMeasures, SensorTypeOK
    <3>2. readings' = [readings EXCEPT ![w] = readings[w] + 1]
      BY <2>4 DEF ReaderMeasures
    <3>3. readings' \in [Weights -> 0..MaxReadings]
      BY <3>1, <3>2, <1>0 DEF SensorTypeOK
    <3> QED BY <2>4, <3>3, <1>0 DEF ReaderMeasures, SensorTypeOK
  <2> QED BY <2>1, <2>2, <2>3, <2>4 DEF Reader
<1>4. SensorTypeOK'
  BY <1>0, <1>1, <1>2, <1>3 DEF SensorTypeOK, mainVars, reportVars
<1>5. PhaseInv'
  BY <1>1, MeasuredKept DEF SensorInv, PhaseInv, mainVars, reportVars
<1>6. ScheduleInv' /\ Paced'
  BY <1>1, <1>2, MeasuredKept DEF SensorInv, ScheduleInv, Paced, mainVars, reportVars
<1>7. GapInv'
  BY <1>1, <1>2 DEF SensorInv, GapInv, reportVars, Scheduled
<1>8. \A v \in Weights : fresh[v] => fresh'[v]
  <2>1. CASE ReaderMeasures(w)
    BY <2>1, <1>0 DEF ReaderMeasures, SensorTypeOK
  <2>2. CASE ~ReaderMeasures(w)
    BY <2>2 DEF Reader, ReaderDue, ReaderAdvance, ReaderCalibrates
  <2> QED BY <2>1, <2>2
<1>9. ReadyInv'
  BY <1>1, <1>2, <1>8 DEF SensorInv, ReadyInv, mainVars
<1>10. ReportedOnce'
  <2> SUFFICES ASSUME NEW v \in Weights
               PROVE  /\ reports[v] + (IF fresh'[v] THEN 1 ELSE 0) <= readings'[v]
                      /\ readings'[v] > 0 => runs'[v] >= EndRuns /\ runs'[v] >= StartRuns
    BY <1>1 DEF ReportedOnce, reportVars
  <2>1. /\ reports[v] + (IF fresh[v] THEN 1 ELSE 0) <= readings[v]
        /\ readings[v] > 0 => runs[v] >= EndRuns /\ runs[v] >= StartRuns
    BY DEF SensorInv, ReportedOnce
  <2>2. reports[v] \in Nat /\ readings[v] \in Nat /\ runs[v] \in Nat
    BY <1>0 DEF SensorTypeOK, Sensor
  <2>3. CASE ReaderMeasures(w) /\ v = w
    <3>1. readings'[v] = readings[v] + 1 /\ runs'[v] = runs[v]
          /\ runs[v] >= StartRuns /\ runs[v] >= EndRuns
      BY <2>3, <1>0 DEF ReaderMeasures, SensorTypeOK
    <3>2. reports[v] + (IF fresh'[v] THEN 1 ELSE 0) <= readings[v] + 1
      BY <2>1, <2>2
    <3> QED BY <3>1, <3>2
  <2>4. CASE ReaderCalibrates(w) /\ v = w
    <3>1. runs'[v] = runs[v] + 1 /\ readings'[v] = readings[v] /\ fresh'[v] = fresh[v]
      BY <2>4, <1>0 DEF ReaderCalibrates, SensorTypeOK
    <3> QED BY <3>1, <2>1, <2>2, <1>0
  <2>5. CASE v # w \/ ReaderDue(w) \/ ReaderAdvance(w)
    <3>1. runs'[v] = runs[v] /\ readings'[v] = readings[v] /\ fresh'[v] = fresh[v]
      BY <2>5, <1>0 DEF Reader, ReaderDue, ReaderAdvance, ReaderCalibrates, ReaderMeasures,
                        SensorTypeOK
    <3> QED BY <3>1, <2>1
  <2> QED BY <2>3, <2>4, <2>5 DEF Reader
<1> QED BY <1>4, <1>5, <1>6, <1>7, <1>9, <1>10 DEF SensorInv

LEMMA EnvironmentKeeps ==
    ASSUME SensorInv, TimePasses \/ \E s \in Boards : ChannelChanges(s)
    PROVE  SensorInv'
<1>0. /\ UNCHANGED <<mainVars, nextRead, readInterval, initDone, threadVars, fresh, reportVars>>
      /\ SensorTypeOK
  BY DEF TimePasses, ChannelChanges, SensorInv
<1>1. /\ time \in Boot..MaxTime /\ Boot \in Nat /\ MaxTime \in Nat
      /\ time' \in Boot..MaxTime /\ time <= time'
  <2>1. time \in Boot..MaxTime /\ Boot \in Nat /\ MaxTime \in Nat
    BY <1>0, SensorAssumption DEF SensorTypeOK
  <2>2. CASE TimePasses
    BY <2>1, <2>2 DEF TimePasses
  <2>3. CASE \E s \in Boards : ChannelChanges(s)
    <3>1. time' = time
      BY <2>3 DEF ChannelChanges
    <3> QED BY <2>1, <3>1
  <2> QED BY <2>2, <2>3
<1>2. channel' \in [Boards -> BOOLEAN]
  BY <1>0 DEF TimePasses, ChannelChanges, SensorTypeOK
<1>3. /\ start \in Boot..time' /\ now \in Boot..time'
      /\ lastRead \in [Boards -> 0..time'] /\ prevRead \in [Boards -> 0..time']
  <2>1. 0..time \subseteq 0..time' /\ Boot..time \subseteq Boot..time'
    BY <1>1
  <2> QED BY <2>1, <1>0 DEF SensorTypeOK
<1>4. SensorTypeOK'
  BY <1>0, <1>1, <1>2, <1>3 DEF SensorTypeOK, mainVars, threadVars, reportVars
<1>5. PhaseInv' /\ ScheduleInv'
  BY <1>0, MeasuredKept DEF SensorInv, PhaseInv, ScheduleInv, mainVars, reportVars
<1>6. GapInv' /\ ReadyInv'
  BY <1>0 DEF SensorInv, GapInv, ReadyInv, mainVars, reportVars
<1>7. Paced'
  <2> SUFFICES ASSUME NEW s \in Scheduled, Measured(s) > 0
               PROVE  start + (Measured(s) - 1) * Interval[s] <= time'
    BY <1>0, MeasuredKept DEF Paced, mainVars, reportVars
  <2> DEFINE least == (Measured(s) - 1) * Interval[s]
  <2>1. start + least <= time
    BY DEF SensorInv, Paced
  <2>2. least \in Int /\ start \in Int
    <3>1. s \in Sensor
      BY DEF Scheduled, Sensor
    <3> QED BY <3>1, IntervalIsNat, ClockFacts, MeasuredFacts
  <2> HIDE DEF least
  <2>3. start + least <= time'
    BY <2>1, <2>2, <1>1
  <2> QED BY <2>3 DEF least
<1>8. ReportedOnce'
  BY <1>0 DEF SensorInv, ReportedOnce, threadVars, reportVars
<1> QED BY <1>4, <1>5, <1>6, <1>7, <1>8 DEF SensorInv

LEMMA StutterKeeps ==
    ASSUME SensorInv, UNCHANGED vars
    PROVE  SensorInv'
<1> USE DEF vars, mainVars, threadVars, reportVars
<1>1. SensorTypeOK'
  BY DEF SensorInv, SensorTypeOK
<1>2. PhaseInv' /\ ScheduleInv' /\ GapInv'
  BY MeasuredKept DEF SensorInv, PhaseInv, ScheduleInv, GapInv
<1>3. ReadyInv' /\ Paced' /\ ReportedOnce'
  BY MeasuredKept DEF SensorInv, ReadyInv, Paced, ReportedOnce
<1> QED BY <1>1, <1>2, <1>3 DEF SensorInv

LEMMA NextKeeps == SensorInv /\ [Next]_vars => SensorInv'
<1> SUFFICES ASSUME SensorInv, [Next]_vars PROVE SensorInv'
  OBVIOUS
<1>1. CASE Main
  BY <1>1, TakeStartTimeKeeps, InitIntervalKeeps, StartUpDoneKeeps, LoopStepKeeps,
     ReadSensorKeeps DEF Main
<1>2. ASSUME NEW w \in Weights, TareDone(w) \/ Reader(w) PROVE SensorInv'
  BY <1>2, TareDoneKeeps, ReaderKeeps
<1>3. CASE TimePasses \/ \E s \in Boards : ChannelChanges(s)
  BY <1>3, EnvironmentKeeps
<1>4. CASE UNCHANGED vars
  BY <1>4, StutterKeeps
<1> QED BY <1>1, <1>2, <1>3, <1>4 DEF Next

-----------------------------------------------------------------------------
\* The inductive invariant holds in every state.
THEOREM SensorInductive == Spec => []SensorInv
BY InitHolds, NextKeeps, PTL DEF Spec

\* Schedule, reader threads and sweep keep their types, whatever the interval
\* of a reader thread is before it is set (Sensor's members, sensor.hpp).
THEOREM SensorTypeCorrect == Spec => []SensorTypeOK
<1>1. SensorInv => SensorTypeOK
  BY DEF SensorInv
<1> QED BY <1>1, SensorInductive, PTL

\* Of no scheduled sensor more values are measured than its frequency allows,
\* for any frequencies, any delays of the main loop and any failures to open a
\* file, each of which is reported and leaves the schedule where it was.
THEOREM SensorsArePaced == Spec => []Paced
<1>1. SensorInv => Paced
  BY DEF SensorInv
<1> QED BY <1>1, SensorInductive, PTL

\* No reading of a weight sensor is reported twice, and none before the end
\* of its calibration.
THEOREM WeightsAreReportedOnce == Spec => []ReportedOnce
<1>1. SensorInv => ReportedOnce
  BY DEF SensorInv
<1> QED BY <1>1, SensorInductive, PTL

\* OlimexinoSensor::get_value() is never called three times within an interval,
\* whatever gaps the telemetry has and however late the main loop is.
THEOREM BoardsDoNotBurst == Spec => NoBurst
<1> DEFINE Apart ==
      \A s \in Boards :
         reports'[s] > reports[s] /\ reports[s] > 1 => time - prevRead[s] >= Interval[s]
<1>1. ASSUME SensorInv, [Next]_vars PROVE Apart
  <2> SUFFICES ASSUME NEW s \in Boards, reports'[s] > reports[s], reports[s] > 1
               PROVE  time - prevRead[s] >= Interval[s]
    OBVIOUS
  <2>0. SensorTypeOK /\ s \in Sensor /\ s \in Scheduled
    BY <1>1 DEF SensorInv, Scheduled, Sensor
  <2>1. /\ prevRead[s] \in Int /\ Interval[s] \in Int /\ nextRead[s] \in Int
        /\ time \in Int /\ now \in Int /\ now <= time /\ reports[s] \in Nat
    <3>1. prevRead[s] \in 0..time
      BY <2>0 DEF SensorTypeOK
    <3>2. SensorInv
      BY <1>1
    <3>3. time \in Nat /\ now \in Nat /\ now <= time
      BY <3>2, ClockFacts
    <3>4. nextRead[s] \in Int /\ reports[s] \in Nat /\ Interval[s] \in Nat
      BY <3>2, <2>0, IntervalIsNat, SensorFacts
    <3>5. prevRead[s] \in Int
      BY <3>1, <3>3
    <3> QED BY <3>3, <3>4, <3>5
  <2>2. ReadSensor
    <3>1. reports' # reports
      BY <2>1
    <3> QED BY <3>1, <1>1 DEF Next, Main, TakeStartTime, InitInterval, StartUpDone, BeginSweep,
               IsReady, NotReady, TareDone, Reader, ReaderDue, ReaderAdvance,
               ReaderCalibrates, ReaderMeasures, TimePasses, ChannelChanges, vars, reportVars
  <2>3. Config[at] = s
    <3>1. CASE Config[at] # s
      <4>1. Report(Config[at]) \/ UNCHANGED reports
        BY <2>2 DEF ReadSensor, ReadPolled, ReadBoard, ReadWeight, FileFails, reportVars
      <4>2. reports'[s] = reports[s]
        BY <4>1, <3>1, <2>0 DEF Report, SensorTypeOK
      <4> QED BY <4>2, <2>1
    <3> QED BY <3>1
  <2>4. nextRead[s] <= now
    BY <1>1, <2>0, <2>2, <2>3, ReadFrame
  <2>5. prevRead[s] + Interval[s] <= nextRead[s]
    BY <1>1 DEF SensorInv, GapInv
  <2> QED BY <2>1, <2>4, <2>5
<1>2. Spec => [][Apart]_vars
  BY <1>1, SensorInductive, PTL DEF Spec
<1> QED BY <1>2, PTL DEF NoBurst
=============================================================================
