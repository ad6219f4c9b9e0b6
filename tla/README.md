# A verification of client_pi

TLA+ models of the rover payload's client (`src/`, C++), the TLC runs that check
them on small instances, and TLAPS proofs for every value of the constants.
Line numbers below are those of the repository's files under `src/`.

| file | what it is |
| --- | --- |
| `OlimexinoBoard.tla` | the motor controller board: its rules for host lines and one step of its loop |
| `OlimexinoBoardAlone.tla` | that board with a host that may send anything |
| `HostWatchdog.tla` | the same in counted time, with a client that loses its ground station, its port and its life |
| `OlimexinoControl.tla` | main loop, actions, link and board together, on their threads |
| `TaDrive.tla` | abstract specification of the TA70-100: what the operator is promised |
| `MotorDriver.tla` | a motor driven for a time through an L298N bridge |
| `GpioDriver.tla` | a switched pin or a PWM output with a ramp |
| `Automation.tla` | the interpreter of tasks, steps and items, on the outputs of `GpioDriver` |
| `SensorSweep.tla` | the sensors' schedule, the sweep of the main loop, the reader threads of the weight sensors |
| `SerialLink.tla` | the serial port: opening, loss, lines out of chunks, short writes |
| `Hx711.tla` | the driver of a weight cell: reads, gains, timeouts, median, tare |
| `Ina228.tla` | the driver of the power monitor: registers behind a bus that loses transfers |
| `MC*.tla`, `*.cfg` | values for the constants, one configuration per run |
| `OlimexinoControl_proofs.tla` | theorems about client and board, the refinement of `TaDrive` |
| `HostWatchdog_proofs.tla` | theorems about the board, untimed and in counted time |
| `MotorDriver_proofs.tla`, `Automation_proofs.tla`, `SensorSweep_proofs.tla`, `SerialLink_proofs.tla`, `Hx711_proofs.tla`, `Ina228_proofs.tla` | theorems about the module of that name |
| `PROJECT.json` | components, runs, mutants, the map to source lines, findings, hazards, theorems |

## 1. The system

The client runs on a Raspberry Pi. It connects to a ground station through the
library *robot_remote_control* (not in the repository), takes commands, drives
motors and reports sensors. In a simulation build the drivers are simulated.

### Parts, state, operations

| part | source | state | operations |
| --- | --- | --- | --- |
| main loop | `src/main.cpp` | `connected`, the lists of actions and sensors, `PROGRAM_START` | connection check (249-258), command drain (260-296), sensor sweep (300-333), `update()` of automation and actions (336-344), 50 ms sleep (`LOOP_SLEEP`) |
| AkSpeedAction | `src/actions/olimexino_actions.cpp` 69-106 | none of its own | `set_value`, `stop`, `reset`, `reinit`: one line each to the board |
| TaPositionAction | same file, 110-206 | `pending`, `last_sent`, `warned_not_in_mode` | the same, and `update()`, which confirms or resends the pending target |
| OLIMEXINO link | `src/driver/olimexino.cpp` | telemetry cache with time stamps, keepalive thread | `send`, `channel` (values older than 500 ms are missing), `on_line`, `ping` every 250 ms |
| serial transport | `src/driver/olimexino_serial.cpp` | file descriptor, read buffer, reader thread | `write_line`, `read_loop` (opens, reads, reopens) |
| simulated board | `src/driver/olimexino_sim.cpp` | AK80 speed, TA70 mode, brake, target, position, move, switch; watchdog | `handle` (host lines), `step` (50 ms) |
| MotorDriver | `src/actions/motor_driver.cpp` | `direction`, `desiredTime`, `positionTime`, `lastTime` and, implicit, the pins | `set_value`, `stop`, `reset`, `reinit`, `update` |
| GpioDriver | `src/actions/gpio_driver.cpp` | target and actual value of a pin, `lastTime` | `set_value`, `update` (ramp), `stop`, `reset`, `reinit` |
| sensors | `src/sensors/*.cpp` | `next_read_time`, `read_interval`, offsets and factors | `ready`, `get_value`, `init_interval` |
| weight sensor | `src/sensors/weight_sensor.cpp` | the same, `last_value`, a reader thread | reader loop, calibration |
| HX711, INA228, ADS1x15 | `src/driver/*.cpp` | registers, power state, scaling | bit-banged and I2C reads and writes |
| automation | `src/automation/*.cpp` | tasks, steps, step actions, counters, start times | `update`, `start`, `pause`, `stop` |
| excavation model | `src/sim/*.cpp` | soil, forces, positions | `step` |
| Coyote simulator | `coyote_sim` | pose, last command | drive commands, 0.5 s command timeout |

### How they interact

The main loop is one thread; it calls actions and sensors directly. The relay of
*robot_remote_control* fills the command queue and the connection state on its
own thread. The link has a keepalive thread. The board (simulated: a thread;
real: a serial port with a reader thread) calls back into `on_line()`, which
writes the telemetry cache under a mutex. Each weight sensor has a reader
thread. Nothing is persisted; a restarted client begins afresh, while the real
board runs on.

### What is hard in it

* A target the board refuses (out of its mode, during a move) is resent for as
  long as it takes, so a target outlives stops, outages and inits. The decision
  to resend is made on telemetry up to 500 ms old, read in three separate calls.
* The board's phase is four variables written by five lines and `step()`, and
  lines come between any two steps.
* The lost connection is recognised from two samples, its stop is sent once and
  may be lost; commands queued before it are run after it.
* The motor's position is dead reckoning from the times of calls, and the bridge
  is switched later than the direction is set.
* Sensors are read on the main loop while threads write what they return.
* The client may die at any point and come back to a board that ran on.
* An item of a task resets tasks, also its own, while the loops over tasks, steps
  and items are under way.
* A failed transfer of a driver returns 0, which is used like a value.
* The serial stream starts and stops in the middle of lines, in both directions.

### What makes each part correct

* board: a move only in position mode with the brake released, a switch locked;
  a tripped watchdog means standstill; moves end.
* control: the brake is released by an operator's init only; after the stop of an
  outage nothing but a command moves a motor; only the latest target is moved
  to, and never across an abort; a pending target gets through.
* motor: it steers to its target and reaches it; the bridge agrees with the
  direction; counted position and way moved differ by a bounded amount.
* sensors: frequencies are kept, a gap is not followed by a burst, a weight is
  reported once and after its calibration; an expired channel is not reported
  (it can be, section 5).
* automation: items run in sequence, a run ends in time and is taken back, a task
  taken for done is complete, a stopped task begins afresh.
* watchdog: silence stops the board in time, a living client is never stopped, a
  starting one finds a standstill.
* serial port: lines and commands are whole, in order and unmixed; a device that
  comes back is opened again.
* drivers: outliers and reads that failed do not pass for measurements; what a bus
  has lost is told by `getLastError()`; calls return.

The hazards are listed in `PROJECT.json`, each at its line, with the properties
that would catch it or the reason why none does.

## 2. How modules and code correspond

### OlimexinoBoard

One variable per member of the simulator (`akTarget` is `ak_target`, ...). One
operator per host line of `handle()`: the update of `last_host_line`
(`FeedWatchdog`) is part of every line. `Step` is one pass of `step()`, split by
what is due (`HostTimeout`, `EnterMode`, `Travel`, `Settle`, `Rest`).

* Angles are integers: `DegGrid` units make a thousandth of a degree, the last
  digit that is printed, so the rounding of `%.3f` is a real one.
* `ta_switch_until` and `ta_settled_since` are flags; the time they take is any
  number of steps. `hostSilent` says that the last host line is older than
  `HOST_TIMEOUT`; it is set by an action of its own.
* Left out: `ak_actual`, the ramp of the speed (no rule reads it), and the
  wording of warnings.

`OlimexinoBoardAlone` closes the module with a host that sends any of the lines
at any time, or none. It is the board against every client, also a faulty one.

### HostWatchdog

`OlimexinoBoardAlone` is instantiated with `hostSilent <- lineAge > WatchdogTimeout`,
and the times are ages that `Tick` advances: of the last host line, of the
keepalive thread's sleep, of the board's last step, of the client's end. A tick is
held back while a thread is overdue, so `BoardPeriod` and `PingLateness` are the
longest delays the theorems speak of; ages stop at `RestartDelay`, beyond every
time they are compared with.

| action | code |
| --- | --- |
| `Ping` | `keepalive_loop()`, which runs from the link's construction on |
| `GsConnects`, `ClientLine` | `main()` waiting for the ground station (235-238), and any line of its actions afterwards |
| `GsIsLost`, `GsReturns` | the connection check of `main()` (249-258): one `stop all`, into an open or a closed port (`Send`) |
| `Resend` | `update()` of the TA action during an outage (`olimexino_actions.cpp` 159-190): a pending target, without any command |
| `Crash`, `Restart` | the process ends anywhere; `autostart.bash` sleeps 7 s and starts it |
| `PortOpens`, `PortIsLost` | the reader thread of the port; the board runs on |
| `BoardStep`, `Tick` | `step()`, and time |

While the ground station is away the client is `alone`. The history `outage` says what
became of the stop of this outage: `stopped` when the port was open, or when so much
silence has passed that the watchdog must have tripped (`Overdue`), `undelivered`
until then, `commanded` once a line of a command has come in between: commands that
are queued at the loss, or come with a connection that flickers, are carried out.
`QuietOutage` says that nothing but a command ends a standstill; `lost_stop` shows what
happens to a stop that stays undelivered (section 5).

The sleep is the only thing that makes `WaitingIsStandstill` hold: a client started
by hand at once may quieten a watchdog that has not tripped yet and so keep the
AK80 turning before there is a ground station.

### OlimexinoControl

The board, the link and the client. `pc` cuts the main loop where another thread
can come between: after the connection check, between two commands, between the
lines of `reinit()`, and between the three `channel()` reads of `update()`.

| action | code |
| --- | --- |
| `ConnectionLost`, `ConnectionChecked` | `main.cpp` 249-258 |
| `ExecuteCommand` with `AkSet` ... `TaReinit` | `main.cpp` 260-296 and the methods of the two actions |
| `TaReinitMode` | the line `ta mode pos` of `TaPositionAction::reinit()` |
| `TaConfirmed`, `TaUnconfirmed`, `TaCheckMode`, `TaCheckMoving`, `TaSend` | `TaPositionAction::update()` 158-196 |
| `Keepalive` | `olimexino.cpp` 75-80 |
| `BoardStep`, `OnLine` | the board's thread: `step()` and the line, then `on_line()` |
| `ResendFallsDue`, `TelemetryExpires`, `HostGoesSilent` | the clocks: `TA_RESEND`, `TELEMETRY_TIMEOUT`, `HOST_TIMEOUT` |
| `PortChanges` | the port closing and reopening |
| `GsConnectionChanges`, `GsCommand` | the relay, any order (external) |

Time is not counted: a deadline that *can* have passed may pass at any step.
With `Stalls = FALSE` the threads are quick enough that neither the watchdog nor
the telemetry expires while the port is open. The history variables `taOrder` and
`outage` record what the last order to the TA70 that reached the board was, and
what became of the stop of the current outage; nothing reads them but
properties.

Left out: the copies of the telemetry for the operator's display (they feed
nothing back), logging with its flag `warned_not_in_mode`, the delay of the wire
(a written line is handled at once), a restart of the client with the board
running, and other actions and sensors, which share no state with these two.

### TaDrive

The promise to the operator in three variables: the phase of the drive, the
target wanted, the target moved to. `OlimexinoControl` implements it under the
mapping `Phase`, `Wanted`, `Goal` (bottom of that module): `pending` rounded as it
would be sent, and `taTarget` during a move. The abstract `Accept` only starts a
move to the target wanted at that moment and `BeginInit` needs that none is
wanted. So `DriveSpec` says: no target asked for before an init is moved to after
it, a replaced target is never moved to, a move under way is not diverted.

### MotorDriver

A motor with control *duration*: one action per method and two for the two ways
through `update()` and `stop()`. Time is in whole milliseconds. `elapsed` is the
time since the main loop's last `update()`, `since` the time since `lastTime`
(they differ after a stop, a reset and at start-up). `bridge` is the last
`set_l298n()`. `moved` is what the motor really ran, the measure for the dead
reckoning; `forgotten` says that a reset has left the bridge on, from where no
count can be expected to follow it.

Left out: control *position* (the value goes to the bridge as it is), the pins'
duty cycle, and the clock behind `high_resolution_clock` jumping.

### GpioDriver, Automation

`GpioDriver` has the operations of the action over `output`, `desired` and `pin`,
in parts of a whole pin value, because a double written to a pin, and the target of
a ramp (an `int`), lose their fraction. It has no specification of its own; it is
extended by `Automation`, whose operator (`Operate`) and items use its operations
and whose main loop calls its `update()`.

`Automation` walks through a task as the code does: `at` is task, step and item,
and each action is one item or one decision of a loop, so that an item which
restarts a task (`Restart`) changes it under the feet of the loops that run.

| action | code |
| --- | --- |
| `State` (`ResetTask`, `StartTask`, `PauseTask`) | `Automation::state()`, `Task::reset/start/pause/stop`, `Step::reset`, `StepAction::reset` |
| `EnterTask`, `EndTask` | `Task::update()` before and after its steps; `allDone` is its local |
| `EnterStep`, `PassItem`, `Proceed`, `Wait` | `Step::update()` and `checkCondition()` (`Holds`, `Kept`) |
| `SetItem`, `BeginRun`, `KeepRun`, `EndRun`, `Restart` | the cases of `StepAction::update()` |
| `CounterMissing` | `current_sensor_values.at()` throwing: the program ends |
| `Sweep`, `UpdateActions`, `Sleep` | the main loop around it |

The history `setBy` says whether an action's value is that of a run. The entry from
the ground station is commented out in `main.cpp` at this commit (220-229,
284-288); the module has it as `State`, as the code is written for it. Times are
in whole milliseconds, and `start_time` is the clock's epoch before a first
`reset()`, as the header leaves it. Left out: YAML parsing (`Program` is its result)
and the counters' display.

### SensorSweep

Three kinds of sensor that share the sweep: those with a schedule only
(`Polled`; a `CpuTemperature` may fail to open its file), those of the board
(`Boards`), whose channel expires at any moment, also between `ready()` and
`get_value()`, and weight sensors with a reader thread each. The module begins at
the start-up, because the reader threads run before the schedule is set:
`next_read_time` is 0 (the clock's epoch) and `read_interval` indeterminate
(`Unset`) until `init_interval()`. Neither is protected, so the reader's `+=` is two
steps, `ReaderDue` and `ReaderAdvance`. Main loop steps are one call each.

| action | code |
| --- | --- |
| `TareDone`, `TakeStartTime`, `InitInterval` | `weight_sensor.cpp` 24-30, `main.cpp` 137-198, `sensor.cpp` 15-25 |
| `IsReady`, `NotReady` | `ready()` of each sensor |
| `ReadSensor` with `ReadPolled`, `FileFails`, `ReadBoard`, `ReadWeight` | `get_value()` of each sensor |
| `ReaderDue` ... `ReaderMeasures` | `WeightSensor::threaded_update()` |

Weights are counted, not computed (`readings`); `reports` counts the values taken
for a message, and `failures` those of them that are the -1 of a file that could not be
opened: `FileFails` reports like every reading and leaves the schedule alone, so the
next sweep asks again. `Paced` speaks of the measured values (`Measured`), which the
schedule paces; the -1 comes in every sweep. Left out: what the drivers return, the positions of the values in
the message, and the end of the threads.

### SerialLink

A character is the number of its line and its place in it, so that a received line
tells where it came from. The reader thread is `Open`, `ReadChunk` and `Lost`, the
body of `read_loop()`; `Take` is what it does with one character, with the buffer
emptied beyond `MAX_LINE`. `WriteLine` is `write_line()`, complete or short.
Device and board (`BoardSends`, `Unplug`, `Plug`, what arrives of a command) are
external; they may stop at any character. Left out: the terminal's settings and a
board that cuts lines on its own.

### Hx711

Every call of the driver is a sequence of reads (`todo`), each with the gain set
before it; `Read` does one, with an answer of the chip or a timeout, `Return` what
follows the last. The chip's gain is a variable of its own (`chipGain`), because a
value has the gain of the read before it. `got` keeps for each value where it came
from, which only properties read. Signed values, median, trimmed mean and its
unsigned division are computed modulo `RawSpan` (2^24 in the chip) and `LongSpan` (2^64).
A sorted sequence is described by what it is (`Sorted`: the k-th value is the least with
at least k values up to it), the sum is a recursive function. Left out: pins
and microseconds, the changes of byte and bit order, setters that assign a value.

### Ina228

Registers are numbers and fields are cut out of them by place and width, as the
setters do (`Get`, `Put`); any transfer may fail, a failed read is 0 and is written
back. `Modify` stands for the setters of CONFIG and ADC_CONFIG, `ModifyBit` for
those of single diagnosis bits, `Overwrite` for those which only write; `Fields` is
the table of all of them. `want` and `suspect` are histories: what a faultless bus would have
left, and the registers whose last setter reported an error. `stale` says that
the driver's copy of the range was left behind. Left out: the values of the
measurements, and `setDiagnoseAlert()`.

## 3. Runs

Bounds are those of the `.cfg`; "grid" is `DegGrid`.

| run | asks | bounds, and why they are enough |
| --- | --- | --- |
| `board_alone` (`MCHostWatchdog`) | interlock, stop by silence, standstill at start, no trip of a living client, end of moves, a stopped outage that stays a standstill | angles -2..7 around a range of +-4, speeds within and beyond the limit; two steps of travel, so a move can be cut anywhere; times in the code's proportions (keepalive < timeout < restart), with every thread up to one unit late; ground station and port come and go at any moment |
| `control_both` | types, brake, outage, and the promise of `TaDrive`, in every interleaving, with stalls | two requests that replace each other, one off the grid and one beyond the range; one queued command (the loop drains one at a time, and while it works the next may be queued); 5 angles, steps of 2: every move takes several board steps |
| `control_serial` | `DriveSpec` with a port that closes at any time | `Serial = TRUE`, TA action; the port may fail between any two lines |
| `control_live` | `PendingIsConfirmed`, `OutageStops` | no stalls and the port open: with telemetry that stays away for ever nothing can be confirmed, and with a closed port the stop is lost (`lost_stop`). TA action: the AK80 is stopped by the same line |
| `motor` | steering, bridge, drift, arrival | loop of 2 to 3 ms, ways of a few ms, three set commands (set, reverse, set again), half-millisecond requests to meet both truncations; the proofs cover the rest |
| `sensors` | pace, bursts, weights reported once and in the end | one sensor of each kind and a link; a start from a clock that already runs; four ticks, in which a sensor of interval 1 can miss three readings; two readings of the weight sensor, so that one can be replaced; two failures of the file (`MaxFailures`), in one gap or around a reading |
| `automation` | runs, sequence, completeness, fresh starts, ends of tasks, ramps | two tasks with every kind of condition and item, one of which starts the other and loops; a ramp slower than the loop and a switched pin; runs of one and two ms with loops of one or two, so that a run ends on time and late |
| `serial_link` | lines, their order, commands, reopening | lines of length within, at and beyond `MAX_LINE` (3), with remainders 0 and 1; chunks up to four characters, so that a read may hold two ends of lines or none |
| `hx711` | outliers, stray readings, end of calls | weights of 3 and tares of 5 reads, the smallest with a middle and with a value to trim; readings of 4 bits (`RawSpan` 16) of both signs in sums of 8 (`LongSpan` 256); one timeout more than allowed can follow another |
| `ina228` | silent loss, range, calibration | one or two fields of each kind of register and both kinds of setter, values at and beyond their limits; any transfer fails |
| `lost_stop` (`MCHostWatchdog`) | a stop that met a closed port, made up for once the port is open for good | as `board_alone`, with one angle and one speed for the host's lines |
| `negative_tare` (`MCHx711`) | a tare that sets the zero point to the reading | as `hx711` |

`lost_stop` and `negative_tare` ask for statements of the repository that the code does not
keep (section 5).

`CHECK_DEADLOCK FALSE` is said in `automation` only: there the program may end by an
exception (`CounterMissing`). Everything else must never stop.

### Fairness

* watchdog (`board_alone`, `lost_stop`): time passes and makes the board and the keepalive thread
  run when they are due; a switch and a dwell in the settle band end (strong
  fairness: fixed times of a running clock, which other lines may interrupt). No
  fairness of client, ground station or port.
* control (`FairSpec`): main loop, board loop and reader deliver steps for ever -
  they are `while(true)` loops with sleeps, and locks are held for a few
  statements. Strong fairness of `CommandsDone`: the drain takes commands faster
  than a person gives them, so it is left again. Strong fairness of mode entry
  and settling: as for the board. `ResendFallsDue`: a clock. Nothing is assumed of
  the ground station, of the keepalive or of the port.
* motor: main loop and clock go on.
* sensors: the main loop goes on and the tare ends (a bounded number of samples).
  Nothing is assumed of the reader threads or the telemetry.
* automation: the main loop goes on, i.e. operator and ground station do not keep its
  drain of commands busy for ever.
* serial port: the reader looks for a device that is there, and `poll()` fails on a
  descriptor whose device is gone.
* weight cell: its thread goes on, with or without answers of the chip.

## 4. Proofs

TLC's instances have five angles and two requests; the theorems hold for every value of
the constants that the named assumptions allow. `BoardAssumption`: the limit is on the
telemetry's grid, steps are positive. `ControlAssumption`: the actions' ranges lie
within the board's, and the tolerance is at least half the grid. `MotorAssumption`: the
requests' range contains 0, and the start-up takes longer than an iteration.
`WatchdogAssumption`: a ping that is as late as it may be still comes within the
timeout, and the restart takes longer than the timeout and one board step (250 ms, 1 s
and 7 s in the code). `GpioAssumption`, `AutomationAssumption`: starts are whole, a
program has the shape the parser gives it, with tasks that exist, steps with at least
one item, and `LOOP` naming its own task. `SensorAssumption`: the kinds of sensor are
disjoint and intervals positive. `LinkAssumption`: lines and buffer have a length.
`HxAssumption`: as many raw values as a tare reads fit into its sum (`times` is an `int`
and a raw value has 24 bits, of 64), a weight reads at least once, a tare at least five
times. `InaAssumption`: values set are not negative (the setters' parameters are
unsigned), and current times shunt fit SHUNT_CAL in either range, i.e. are below 0.65 V,
four times what the chip can measure; beyond, the conversion of the float in
`setMaxCurrentShunt()` is undefined.

* `OlimexinoControl_proofs`: `TypeCorrect`, `BrakeIsReleasedByInit`, `MovesAreReleased`,
  `OutageIsStandstill`. The invariant `IInv` joins to the types the board's `Interlock`
  (without it, a switch could finish during a move and `MovesReleased` would not be
  inductive), what each value of `taOrder` and `outage` implies for the board, and what
  `pc` implies for `pending`. Each action of `Next` has a lemma of its own; host lines
  and the board's step are proved once, over the board's variables, and used by all of
  the actions that send. `ImplementsDrive` is `Spec => DriveSpec`: the initial states
  map, and under `IInv` every step is a step of `TaDrive` or a stutter. The mapping's
  one fact of arithmetic is that formatting a formatted angle changes nothing and stays
  in range (`FormatDeg`). `ClientIsAHost` is `Spec => AnyHost!Spec`: the client's lines
  and the clocks are moves of the host of `OlimexinoBoardAlone`, so what is proved there
  holds with this client, and the board with any host is a true abstraction of it.
  `TakenTargetsConfirm`: the target is rounded when it is sent, clamped by the board and
  rounded in the telemetry; a target the board has taken still lies within the tolerance
  of the one pending. It is the arithmetic under `PendingIsConfirmed`, and where the
  bound in `ControlAssumption` (half the grid within the tolerance) is used.
* `MotorDriver_proofs`: `MotorTypeCorrect`, `MotorSteersToTarget`, `MotorBridgeFollows`,
  `MotorPositionInRange`, `MotorDriftPerTarget`. The invariant `MotorInv` adds to the
  properties that `lastTime` is no older than the last update, or stems from the
  constructor with nothing moved yet (`LastTimeInv`), and that a motor under way keeps a
  reserve: its error is smaller than the bound by what the coming update and arrival may
  add (`WithinDrift`, with a case for each of bridge off, bridge and direction equal,
  bridge opposite). This reserve is why the error per target is one iteration and not
  three.
* `SensorSweep_proofs`: `SensorTypeCorrect`, `SensorsArePaced`,
  `WeightsAreReportedOnce`, `BoardsDoNotBurst`, for any sensors and frequencies.
  `SensorInv` adds that the schedule is ahead of the measured values counted from the
  start, the -1 of a file left out (`ScheduleInv`), and for the board's sensors not behind the last reading and an
  interval ahead of the one before (`GapInv`); that what `ready()` saw holds until
  `get_value()` (`ReadyInv`); and that the loop starts with a complete schedule.
* `HostWatchdog_proofs`: `SilenceStops`, `StartFindsStandstill`, `PingsKeepQuiet`,
  `OutageStaysQuiet`, `TimedInterlock`, `TimedTripIsStandstill`, `TimedTypes`. First, over
  the board's variables alone, `BoardKeepsInv`: every step of the board with any host
  keeps types, interlock and standstill. The invariant in counted time ties ages to
  states: a board that has not tripped heard a line no longer ago than the timeout plus
  the age of its last step (`WatchdogInvariant`: between timeout and trip there is no
  step); the silence is as old as the client's end (`DownInv`); since the port opened
  there was a ping or none was due (`PingInv`);
  and while the client waits, or its outage is stopped, the board is at rest with no
  switch under way, which pings and resent targets leave alone (`RestInv`).
* `Automation_proofs`: `RunsAreTakenBack`, `RunsEndInTime`, `StoppedTasksAreFresh`,
  `ItemsRunInSequence`, `EndedTasksAreComplete`, `InterpreterTypes`, for any program of
  tasks. The invariant `AutomationInv` says where the interpreter can be (`PlaceInv`),
  that what it has passed is done (`PassedInv`), that only `DURATION` items run
  (`RunningInv`), and `NoOverrun` for the part of the tasks already passed
  (`OverrunInv`). The case that needs all of it is `Restart`: it resets the steps the
  loops have just passed. `RampsNeverPass`: a ramp keeps to whole parts
  (`RampsAreWhole`; the pin takes whole values and its target is an `int`) and so meets
  its target and never steps across it: the safety half of `RampArrives`.
* `SerialLink_proofs`: `LinesComeWhole`, `LinesComeInOrder`, `CommandsComeWhole`, for
  any lines, any `MAX_LINE` and any cuts of the stream. What is hard is that the
  properties speak of lines already given and the code of a buffer in the middle of one,
  so the invariant `LinkInv` has the buffer, the wire and the board's position on one
  path of characters (`Contiguous`): with the port open, what is in the buffer is the
  piece of a line since its last cut by `MAX_LINE`, the wire goes on from there, and the
  board goes on from the end of the wire (`Reading`, `IsPath`). A read of any length is
  `TakeAll`, a recursive function; that it keeps the reader on the path is proved once,
  character by character (`TakeCharacter`).
* `Hx711_proofs`: `WeightIsOneMeasured`, `TareIsOneMeasured`, `AtMostOneStray`,
  `HxInvHolds`, for any number of reads and any values. Two independent parts. The first
  is about median and trimmed mean: the k-th of sorted values exists and counts as it
  should, so if more than half of the values are measured ones, the middle lies between
  two of them; if no more are not than are trimmed at an end, so does each that the trim
  leaves; a mean lies between the least and the greatest of its values. The second is
  the invariant `HxInv`: what was read and what is left to read are the plan of the call
  (`Planned`), a chip that has answered once has the gain the next value is wanted with
  (`GainIsSet`), whence only the first answered value of a call is stray
  (`OneStrayReading`), whichever reads time out; a result is what its reads give
  (`Computed`). The tare is between measured values when its sum is not negative; the
  other case is `negative_tare`.
* `Ina228_proofs`: `SettingsSurvive`, `RangeAgrees`, `CalibrationFollowsRange`,
  `RegistersKeepTheirSize`. The three properties with the types are inductive together
  (`InaInv`). The work is in the registers: `Put` changes its field and no other (the
  table's fields do not overlap), and leaves 16 bits; quotients and remainders by place
  and width are lemmas of their own (`Split`, `PutBelow`, `PutAbove`), for any place and
  width.

The type invariants of most modules, the range of the motor's position,
`TrippedIsStopped`, `BoardKeepsInv`, `ClientIsAHost`, `TakenTargetsConfirm` and
`RampsNeverPass` are proved and not run: the runs check what is built on them.

Inductions over sequences and numbers cannot use the library's theorems, which take an
operator as parameter. Where they are needed (a sum lies between bounds, a reader stays
on its path, a k-th value exists) the set of the numbers that satisfy the claim is shown
to be all of `Nat` through its least exception (`LeastNat`, `NatInd`), from the
library's theorem that `<` is well-founded. Recursion (`SumOf`, `TakeAll`) is written as
a recursive function, which TLA+ defines as some function that satisfies its equation;
that there is one (`SummingExists`, `TakingExists`) is proved in the same way.

Every invariant and every action property of the passing runs, and the refinement of
`TaDrive`, are theorems. Only model-checked is liveness
(`MoveEnds`, `PendingIsConfirmed`, `OutageStops`, `TargetIsReached`, `FreshIsReported`,
`TaskEnds`, `RampArrives`, `CallReturns`, `PortComesBack`): it rests on fairness and
ENABLED, which are out of the proof system's reach. `SilentIsStopped` and
`RampsNeverPass` are what of it can be said as safety.

## 5. Where code and documentation disagree

With a run that shows it:

* `lost_stop` (`StopAllArrives`): the `stop all` is sent once per outage and its result ignored
  (`main.cpp` 250-253; `README.md` 86-87, `main.cpp` 247). The trace is a lasso: the port
  is closed when the ground station is lost, so the line is dropped; the port is open
  again before the watchdog's timeout (`read_loop()` tries at once after `lost()`) and
  stays open; pings keep the watchdog quiet, no command comes, and the AK80 turns for
  ever. A port that stays closed until the timeout is no such case: then the watchdog
  stops the board (`QuietOutage`).
* `negative_tare` (`TareSetsZero`): the sum of a tare is divided by an unsigned size of the same width
  (`hx711.cpp` 153), so that negative readings give a zero point near 2^64 divided by
  their number, where the header promises the current reading (`hx711.hpp` 43). The
  program runs on arm64 (`compose.yml`), where both are 64 bits wide.

Seen while modelling, without a run of their own. In the control of the motors:

* A command in the queue when the connection is lost is run after the `stop all`
  (`main.cpp` 250), and the motor turns until the next command.
* The target of an aborted move is still reported, so the same target asked for again
  counts as confirmed and is never sent (`olimexino_actions.cpp` 167).
* The `init` a waiting target needs drops that target (`olimexino_actions.cpp` 178,
  202), which `TaDrive` requires of `BeginInit`.
* `MotorDriver::reset()` sets the direction to 0 and leaves the bridge on
  (`motor_driver.cpp` 127); no update switches it off. `forgotten` excepts it.
* A target among the first commands has the time since the constructor counted as
  driven (`motor_driver.cpp` 26): the term `early` of `DriftPerTarget`.
* `GpioDriver::reinit()` writes the start to the pin past value and ramp.

In sensors and drivers:

* A channel that expires between `ready()` and `get_value()` is reported as 0
  (`olimexino_sensor.cpp` 24; `README.md` 84 says it is left out), and a
  temperature file that cannot be opened as -1, in every iteration (`cpu_temp.cpp` 20):
  `failures`, which `Paced` does not count.
* A `write()` that takes a part of a command is told to the caller, who does not look,
  and the next command is appended to the part (`olimexino_serial.cpp` 44).
  `CommandsArrive` allows that after a short write and in no other case.
* The main thread sets the schedule of a weight sensor while its reader thread
  advances it; the start time is lost (`main.cpp` 197, `weight_sensor.cpp` 38).
* `sensor_ok` of the weight cell never becomes true again and nobody reads it; a tare
  of no reads throws and leaves the reference unit at 1; `reset()` with a gain other
  than 128 waits for its own lock (the program uses 128 only; `locked`, which
  `CallReturns` excepts).
* `INA228::reset()` leaves the driver's range as it was; a read that fails puts zeros
  over the other fields of its register; setters that only write leave the error of
  an earlier call standing; `begin()` succeeds with a range it could not read (`stale`, which
  `RangeIsChips` and `CalibrationFits` except). The
  power monitor's sensor never asks `getLastError()`, and a temperature below zero is
  not sign-extended.

In the automation:

* `START_TASK` and `LOOP` are never completed, so a task that ends in `START_TASK` goes
  on, and restarts the other task in every iteration, where the comment says "This task
  is done" (`step_action.cpp` 93). Hence the exception for restarts in `TaskEnds`.
* The time of a step counts from the last reset and not from the start of the task, as
  the comment has it (`step.hpp` 22), because `start()` does not reset it.
* A run whose counter's sensor gave no value in this iteration throws (`.at()`,
  `step_action.cpp` 53) and ends the program.
* `ADD_VALUE` on a ramp adds to the value it has reached, not to its target.

## 6. Not modelled, and why

* ADS1x15: two calls of a library and one multiplication.
* The excavation model and the dummy drivers: floating point physics and noise; what
  they return does not steer anything here.
* The Coyote simulator: a second, single-threaded program for tests of the ground
  station.
* `setDiagnoseAlert()`, measured values, the terminal's settings, pins and their
  libraries, texts for displays, YAML, start scripts but for the delay, containers.

What could follow: `SerialLink` as the link of `OlimexinoControl`, whose `PortChanges`
stands for it now; a promise to the operator that every target wanted is moved to,
once the confirmation of an aborted target is repaired; more of the safety under the
liveness properties, as was done for ramps and confirmations.
