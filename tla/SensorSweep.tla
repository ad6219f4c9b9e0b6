----------------------------- MODULE SensorSweep -----------------------------
(***************************************************************************)
(* The sensors: their schedule (src/src/sensors/sensor.cpp), the sweep of  *)
(* the main loop over them (src/src/main.cpp), and what runs beside it:    *)
(* the reader thread of a weight sensor, from before the schedule exists,  *)
(* and the telemetry of the OLIMEXINO, whose channels expire.              *)
(*                                                                         *)
(* Time is in ticks of a running clock, of any length.  Values are left    *)
(* out but for which reading of a weight sensor it is; the message counts  *)
(* as sent when a value is taken for it.                                   *)
(***************************************************************************)
EXTENDS Integers, Sequences

CONSTANTS
    Polled,      \* PowerMonitor, Vcgencmd and CpuTemperature sensors
    Files,       \* those of them that read a file: CpuTemperature
    Boards,      \* OlimexinoSensors
    Links,       \* those of them with channel "link"
    Weights,     \* WeightSensors
    Config,      \* config["sensors"]: the order of the sweep
    Interval,    \* interval of each sensor's frequency
    Unset,       \* what read_interval may hold before it is set
    StartRuns,   \* runs_start_calibrate
    EndRuns,     \* runs_calibrate
    Boot,        \* the clock when the program starts
    MaxTime,     \* bound on the clock
    MaxReadings, \* bound on the readings of a weight sensor
    MaxFailures  \* bound on the times a file cannot be opened

Sensor == Polled \cup Boards \cup Weights
Scheduled == Polled \cup Boards

ASSUME SensorAssumption ==
    /\ Polled \cap Boards = {} /\ Polled \cap Weights = {} /\ Boards \cap Weights = {}
    /\ Files \subseteq Polled /\ Links \subseteq Boards
    /\ Config \in Seq(Sensor) /\ Len(Config) > 0
    /\ Interval \in [Sensor -> Nat \ {0}] /\ Unset \subseteq Int
    /\ StartRuns \in Nat /\ EndRuns \in Nat
    /\ Boot \in Nat /\ MaxTime \in Nat /\ Boot <= MaxTime /\ MaxReadings \in Nat
    /\ MaxFailures \in Nat

VARIABLES
    pc,            \* main: starting, intervals, sleep, ready, read
    at,            \* the sensor of the sweep, its index in Config
    time,          \* Clock::now()
    start,         \* start_time
    now,           \* now, sampled before the sweep
    initialised,   \* sensors whose init_interval() has run
    nextRead,      \* next_read_time
    readInterval,  \* read_interval of the weight sensors
    channel,       \* board->channel(channel).has_value()
    initDone,      \* init_done_
    reader,        \* the reader thread: idle, advance, run
    loaded,        \* next_read_time as the reader thread has read it
    runs,          \* runs_init
    fresh,         \* fresh
    readings,      \* history: weights measured after the calibration
    reports,       \* history: values taken for a message, each -1 included
    failures,      \* history: those that were the -1 of a file
    lastRead,      \* history: when the last value of a board sensor was taken
    prevRead       \* history: when the value before it was taken

mainVars    == <<pc, at, start, now, initialised>>
threadVars  == <<reader, loaded, runs, readings>>
reportVars  == <<reports, failures, lastRead, prevRead>>
vars == <<mainVars, time, nextRead, readInterval, channel, initDone,
          threadVars, fresh, reportVars>>

Init ==
    /\ pc = "starting" /\ at = 1 /\ time = Boot /\ start = Boot /\ now = Boot
    /\ initialised = {}
    /\ nextRead = [s \in Sensor |-> 0] /\ readInterval \in [Weights -> Unset]
    /\ channel = [s \in Boards |-> FALSE]
    /\ initDone = [w \in Weights |-> FALSE]
    /\ reader = [w \in Weights |-> "idle"] /\ loaded = [w \in Weights |-> 0]
    /\ runs = [w \in Weights |-> 0] /\ fresh = [w \in Weights |-> FALSE]
    /\ readings = [w \in Weights |-> 0] /\ reports = [s \in Sensor |-> 0]
    /\ failures = [s \in Files |-> 0]
    /\ lastRead = [s \in Boards |-> 0] /\ prevRead = [s \in Boards |-> 0]

-----------------------------------------------------------------------------
(* Start-up.  The reader threads of the weight sensors already run.        *)

\* threaded_init(): reset and tare, in a thread per sensor.
TareDone(w) ==
    /\ pc = "starting" /\ ~initDone[w]
    /\ initDone' = [initDone EXCEPT ![w] = TRUE]
    /\ UNCHANGED <<mainVars, time, nextRead, readInterval, channel, threadVars, fresh, reportVars>>

\* All of these threads are joined.
TakeStartTime ==
    /\ pc = "starting" /\ \A w \in Weights : initDone[w]
    /\ start' = time /\ pc' = "intervals"
    /\ UNCHANGED <<at, now, initialised, time, nextRead, readInterval, channel,
                   initDone, threadVars, fresh, reportVars>>

\* init_interval()
InitInterval(s) ==
    /\ pc = "intervals" /\ s \notin initialised
    /\ nextRead' = [nextRead EXCEPT ![s] = start]
    /\ readInterval' = [w \in Weights |-> IF w = s THEN Interval[w] ELSE readInterval[w]]
    /\ initialised' = initialised \cup {s}
    /\ UNCHANGED <<pc, at, start, now, time, channel, initDone, threadVars, fresh, reportVars>>

StartUpDone ==
    /\ pc = "intervals" /\ initialised = Sensor /\ pc' = "sleep"
    /\ UNCHANGED <<at, start, now, initialised, time, nextRead, readInterval, channel,
                   initDone, threadVars, fresh, reportVars>>

-----------------------------------------------------------------------------
(* The sweep: for each sensor ready(), then get_value().                   *)

BeginSweep ==
    /\ pc = "sleep" /\ pc' = "ready" /\ at' = 1 /\ now' = time
    /\ UNCHANGED <<start, initialised, time, nextRead, readInterval, channel,
                   initDone, threadVars, fresh, reportVars>>

Due(s) == now >= nextRead[s]

\* Mutant: the calibration is awaited with > instead of >=.
MutReady(s) ==
    \/ s \in Polled /\ Due(s)
    \/ s \in Boards /\ Due(s) /\ (s \in Links \/ channel[s])
    \/ s \in Weights /\ runs[s] > EndRuns /\ fresh[s]
Ready(s) ==
    \/ s \in Polled /\ Due(s)
    \/ s \in Boards /\ Due(s) /\ (s \in Links \/ channel[s])
    \/ s \in Weights /\ runs[s] >= EndRuns /\ fresh[s]

NextSensor ==
    \/ at < Len(Config) /\ at' = at + 1 /\ pc' = "ready"
    \/ at = Len(Config) /\ at' = at /\ pc' = "sleep"

IsReady ==
    /\ pc = "ready" /\ Ready(Config[at]) /\ pc' = "read"
    /\ UNCHANGED <<at, start, now, initialised, time, nextRead, readInterval, channel,
                   initDone, threadVars, fresh, reportVars>>

NotReady ==
    /\ pc = "ready" /\ ~Ready(Config[at]) /\ NextSensor
    /\ UNCHANGED <<start, now, initialised, time, nextRead, readInterval, channel,
                   initDone, threadVars, fresh, reportVars>>

Report(s) == reports' = [reports EXCEPT ![s] = @ + 1]

\* Mutant: the next reading counts from the sweep, not from the one before.
MutReadPolled(s) ==
    /\ s \in Polled /\ Report(s)
    /\ nextRead' = [nextRead EXCEPT ![s] = now]
    /\ UNCHANGED <<fresh, failures, lastRead, prevRead>>
ReadPolled(s) ==
    /\ s \in Polled /\ Report(s)
    /\ nextRead' = [nextRead EXCEPT ![s] = @ + Interval[s]]
    /\ UNCHANGED <<fresh, failures, lastRead, prevRead>>

\* The file cannot be opened: get_value() returns before it moves the schedule
\* on.  The -1 is a value of the message like any other, and the sensor stays
\* due, so that the next sweep asks it again.
FileFails(s) ==
    /\ s \in Files /\ failures[s] < MaxFailures /\ Report(s)
    /\ failures' = [failures EXCEPT ![s] = @ + 1]
    /\ UNCHANGED <<nextRead, fresh, lastRead, prevRead>>

\* Mutant: the schedule catches up, as that of the other sensors does.
MutNextRead(s) == nextRead[s] + Interval[s]
LaterRead(s) ==
    IF nextRead[s] + Interval[s] > time THEN nextRead[s] + Interval[s] ELSE time

\* The channel's value, or 0 if it has expired since ready().
ReadBoard(s) ==
    /\ s \in Boards /\ Report(s)
    /\ nextRead' = [nextRead EXCEPT ![s] = LaterRead(s)]
    /\ prevRead' = [prevRead EXCEPT ![s] = lastRead[s]]
    /\ lastRead' = [lastRead EXCEPT ![s] = time]
    /\ UNCHANGED <<fresh, failures>>

\* Mutant: the value stays fresh.
MutReadWeight(s) ==
    s \in Weights /\ Report(s) /\ UNCHANGED <<nextRead, fresh, failures, lastRead, prevRead>>
ReadWeight(s) ==
    /\ s \in Weights /\ Report(s)
    /\ fresh' = [fresh EXCEPT ![s] = FALSE]
    /\ UNCHANGED <<nextRead, failures, lastRead, prevRead>>

ReadSensor ==
    /\ pc = "read" /\ NextSensor
    /\ LET s == Config[at]
       IN  ReadPolled(s) \/ FileFails(s) \/ ReadBoard(s) \/ ReadWeight(s)
    /\ UNCHANGED <<start, now, initialised, time, readInterval, channel, initDone, threadVars>>

Main ==
    \/ TakeStartTime \/ (\E s \in Sensor : InitInterval(s)) \/ StartUpDone
    \/ BeginSweep \/ IsReady \/ NotReady \/ ReadSensor

-----------------------------------------------------------------------------
(* threaded_update(): the reader thread of a weight sensor.                *)

\* "+=" on next_read_time is a read and, later, a write.
ReaderDue(w) ==
    /\ reader[w] = "idle" /\ initDone[w] /\ time >= nextRead[w]
    /\ reader' = [reader EXCEPT ![w] = "advance"]
    /\ loaded' = [loaded EXCEPT ![w] = nextRead[w]]
    /\ UNCHANGED <<mainVars, time, nextRead, readInterval, channel, initDone,
                   runs, fresh, readings, reportVars>>

ReaderAdvance(w) ==
    /\ reader[w] = "advance" /\ reader' = [reader EXCEPT ![w] = "run"]
    /\ nextRead' = [nextRead EXCEPT ![w] = loaded[w] + readInterval[w]]
    /\ loaded' = [loaded EXCEPT ![w] = 0]
    /\ UNCHANGED <<mainVars, time, readInterval, channel, initDone,
                   runs, fresh, readings, reportVars>>

\* A run of the wait before the calibration, or of the calibration.
ReaderCalibrates(w) ==
    /\ reader[w] = "run" /\ (runs[w] < StartRuns \/ runs[w] < EndRuns)
    /\ reader' = [reader EXCEPT ![w] = "idle"]
    /\ runs' = [runs EXCEPT ![w] = @ + 1]
    /\ UNCHANGED <<mainVars, time, nextRead, readInterval, channel, initDone,
                   loaded, fresh, readings, reportVars>>

ReaderMeasures(w) ==
    /\ reader[w] = "run" /\ runs[w] >= StartRuns /\ runs[w] >= EndRuns
    /\ readings[w] < MaxReadings
    /\ reader' = [reader EXCEPT ![w] = "idle"]
    /\ readings' = [readings EXCEPT ![w] = @ + 1] /\ fresh' = [fresh EXCEPT ![w] = TRUE]
    /\ UNCHANGED <<mainVars, time, nextRead, readInterval, channel, initDone,
                   loaded, runs, reportVars>>

Reader(w) == ReaderDue(w) \/ ReaderAdvance(w) \/ ReaderCalibrates(w) \/ ReaderMeasures(w)

-----------------------------------------------------------------------------
\* A line of telemetry names a channel, or none does for TELEMETRY_TIMEOUT.
ChannelChanges(s) ==
    /\ s \in Boards \ Links /\ channel' = [channel EXCEPT ![s] = ~@]
    /\ UNCHANGED <<mainVars, time, nextRead, readInterval, initDone, threadVars, fresh, reportVars>>

TimePasses ==
    /\ time < MaxTime /\ time' = time + 1
    /\ UNCHANGED <<mainVars, nextRead, readInterval, channel, initDone,
                   threadVars, fresh, reportVars>>

Next ==
    \/ Main
    \/ \E w \in Weights : TareDone(w) \/ Reader(w)
    \/ \E s \in Boards : ChannelChanges(s)
    \/ TimePasses

Spec == Init /\ [][Next]_vars

\* The tare ends and the main loop never stops.
FairSpec == Spec /\ WF_vars(Main) /\ \A w \in Weights : WF_vars(TareDone(w))
-----------------------------------------------------------------------------
(* Properties.                                                             *)

SensorTypeOK ==
    /\ pc \in {"starting", "intervals", "sleep", "ready", "read"}
    /\ at \in 1..Len(Config) /\ time \in Boot..MaxTime
    /\ start \in Boot..time /\ now \in Boot..time /\ initialised \subseteq Sensor
    /\ nextRead \in [Sensor -> Int] /\ readInterval \in [Weights -> Int]
    /\ channel \in [Boards -> BOOLEAN] /\ initDone \in [Weights -> BOOLEAN]
    /\ reader \in [Weights -> {"idle", "advance", "run"}] /\ loaded \in [Weights -> Int]
    /\ runs \in [Weights -> Nat] /\ fresh \in [Weights -> BOOLEAN]
    /\ readings \in [Weights -> 0..MaxReadings] /\ reports \in [Sensor -> Nat]
    /\ failures \in [Files -> 0..MaxFailures]
    /\ lastRead \in [Boards -> 0..time] /\ prevRead \in [Boards -> 0..time]

\* The values of a sensor that are measured, not the -1 of a file.
Measured(s) == reports[s] - (IF s \in Files THEN failures[s] ELSE 0)

\* However late the sweep runs, however it catches up afterwards and however
\* often a file could not be opened in between, no more values of a scheduled
\* sensor are measured than its frequency allows since the start (get_value()
\* advances next_read_time by the interval).  The -1 of a file is not paced: it
\* leaves the schedule alone and is reported again by every sweep.
Paced ==
    \A s \in Scheduled :
        Measured(s) > 0 => start + (Measured(s) - 1) * Interval[s] <= time

\* "no burst of reads after the channel was missing for a while"
\* (OlimexinoSensor::get_value): of three readings in a row the first and the
\* last are an interval apart, although the schedule is moved on at the time
\* of the reading and asked with the time of the sweep.
NoBurst ==
    [][\A s \in Boards :
         reports'[s] > reports[s] /\ reports[s] > 1 => time - prevRead[s] >= Interval[s]]_vars

\* WeightSensor::ready(), get_value() and the reader thread: no reading is
\* reported twice, although the lock is released between the two calls, the
\* fresh flag stands for a reading not taken yet, and none counts before the
\* calibration has ended.
ReportedOnce ==
    \A w \in Weights :
        /\ reports[w] + (IF fresh[w] THEN 1 ELSE 0) <= readings[w]
        /\ readings[w] > 0 => runs[w] >= EndRuns /\ runs[w] >= StartRuns

\* A reading is reported in the end, or replaced by a later one which is.
FreshIsReported == \A w \in Weights : fresh[w] ~> ~fresh[w]

\* The inductive invariant of the proofs.  The loop runs over a schedule that
\* is complete, and is set before any reading counts.
PhaseInv ==
    /\ pc = "starting" => initialised = {}
    /\ pc \in {"sleep", "ready", "read"} => initialised = Sensor
    /\ \A s \in Scheduled \ initialised : reports[s] = 0 /\ Measured(s) = 0

\* The schedule is ahead of the measurements counted from the start ...
ScheduleInv ==
    \A s \in Scheduled \cap initialised : start + Measured(s) * Interval[s] <= nextRead[s]

\* ... and, of a board's sensor, not behind its last two readings.
GapInv ==
    \A s \in Boards :
        /\ reports[s] > 0 => lastRead[s] <= nextRead[s]
        /\ reports[s] > 1 => prevRead[s] + Interval[s] <= nextRead[s]

\* What ready() has seen still holds, but for the channel.
ReadyInv ==
    pc = "read" =>
        /\ Config[at] \in Scheduled => nextRead[Config[at]] <= now
        /\ Config[at] \in Weights => fresh[Config[at]]

SensorInv ==
    /\ SensorTypeOK /\ PhaseInv /\ ScheduleInv /\ GapInv
    /\ ReadyInv /\ Paced /\ ReportedOnce
=============================================================================
