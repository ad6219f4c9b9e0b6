----------------------------- MODULE Automation -----------------------------
(***************************************************************************)
(* The interpreter of tasks (src/src/automation/): a task runs its steps   *)
(* in parallel, a step runs its items in sequence once its condition       *)
(* holds, an item sets an action, runs it for a time or restarts a task -  *)
(* its own or another - while the loops over tasks and steps are under     *)
(* way.  One step of the module is one item, or one decision of a loop.    *)
(* The main loop calls the interpreter between its commands and the        *)
(* update() of the actions, here those of GpioDriver.  A task is started   *)
(* by Automation::state(), the command "task_..." (switched off in         *)
(* main.cpp at this commit, lines 220-229 and 284-288).                    *)
(***************************************************************************)
EXTENDS GpioDriver, Sequences

CONSTANTS
    TaskOrder,   \* the tasks, in the order of the map
    Program,     \* per task its steps: a condition and a sequence of items
    Sensors, Readings,
    None,        \* no value
    SetTo,       \* values the operator gives an action
    LoopMs       \* how long an iteration of the main loop may take

Tasks == {TaskOrder[k] : k \in DOMAIN TaskOrder}
StepIds == UNION {{<<t, i>> : i \in DOMAIN Program[t]} : t \in Tasks}
Items == UNION {{<<s[1], s[2], j>> : j \in DOMAIN Program[s[1]][s[2]].items} : s \in StepIds}
Condition(s) == Program[s[1]][s[2]].condition
Item(a) == Program[a[1]][a[2]].items[a[3]]
Restarts(a) == Item(a).type \in {"LOOP", "START_TASK"}
\* The steps that read their start_time, and those that read last_sensor_diff.
Timed == {s \in StepIds : Condition(s).type = "TIME"}
Differing == {s \in StepIds : Condition(s).type = "DIFF"}

IsSeq(s) == s \in Seq({s[i] : i \in DOMAIN s})

ASSUME AutomationAssumption ==
    /\ IsSeq(TaskOrder) /\ TaskOrder # <<>>
    /\ \A k, l \in DOMAIN TaskOrder : TaskOrder[k] = TaskOrder[l] => k = l
    /\ \A t \in Tasks : IsSeq(Program[t]) /\ Len(Program[t]) > 0
    /\ \A s \in StepIds : LET items == Program[s[1]][s[2]].items IN IsSeq(items) /\ Len(items) > 0
    /\ \A s \in StepIds :
        /\ Condition(s).type \in {"IMMEDIATE", "TIME", "SENSOR", "DIFF"}
        /\ Condition(s).type \in {"SENSOR", "DIFF"} => Condition(s).sensor \in Sensors
    /\ \A s \in Timed : Condition(s).ms \in Nat
    /\ \A a \in Items :
        /\ Item(a).type \in {"SET_VALUE", "ADD_VALUE", "DURATION", "LOOP", "START_TASK"}
        /\ IF Restarts(a) THEN Item(a).task \in Tasks
           ELSE Item(a).command \in Gpios /\ Item(a).value \in Int
        /\ Item(a).type = "LOOP" => Item(a).task = a[1]
        /\ Item(a).type = "DURATION" => Item(a).ms \in Nat \ {0}
    /\ SetTo \subseteq Int /\ LoopMs \subseteq Nat \ {0} /\ None \notin Readings

VARIABLES
    taskState,  \* state_value
    stepDone,   \* completed of a step
    stepAge,    \* ms since the start_time of a timed step, up to its time
    lowest,     \* last_sensor_diff of a step
    status,     \* started and completed of an item
    left,       \* ms to endTime of an item that runs
    reading,    \* current_sensor_values
    phase,      \* where the main loop is
    at,         \* <<task, step, item>> the interpreter is at
    allDone,    \* Task::update()'s local
    setBy       \* what gave an action its value last: its start, a run or another; history

progVars == <<taskState, stepDone, stepAge, lowest, status, left, setBy>>
vars == <<progVars, reading, phase, at, allDone, gpioVars>>

TaskAt == TaskOrder[at[1]]
Here == <<TaskAt, at[2]>>
ItemAt == <<TaskAt, at[2], at[3]>>

Init ==
    /\ GpioInit /\ setBy = [g \in Gpios |-> "start"]
    /\ taskState = [t \in Tasks |-> "stopped"]
    /\ stepDone = [s \in StepIds |-> FALSE]
    /\ stepAge = [s \in Timed |-> Condition(s).ms] \* since the clock's epoch
    /\ lowest = [s \in Differing |-> None]
    /\ status = [a \in Items |-> "idle"] /\ left = [a \in Items |-> 0]
    /\ reading = [x \in Sensors |-> None]
    /\ phase = "commands" /\ at = <<1, 0, 0>> /\ allDone = TRUE

---------------------------------------------------------------------------
\* set_value() of the actions in gs, all by the same caller.
Give(values, by) ==
    /\ SetValues(values)
    /\ setBy' = [g \in Gpios |-> IF g \in DOMAIN values THEN by ELSE setBy[g]]
GiveOne(g, v, by) == Give([h \in {g} |-> v], by)

\* The actions that an item of task t runs.
RunBy(t) == {Item(a).command : a \in {b \in Items : b[1] = t /\ status[b] = "running"}}

\* Step::reset() of every step of task t, StepAction::reset() of their items.
\* Mutant: a run that is reset leaves its action running.
MutResetSteps(t) ==
    /\ stepDone' = [s \in StepIds |-> s[1] # t /\ stepDone[s]]
    /\ stepAge' = [s \in Timed |-> IF s[1] = t THEN 0 ELSE stepAge[s]]
    /\ lowest' = [s \in Differing |-> IF s[1] = t THEN None ELSE lowest[s]]
    /\ status' = [a \in Items |-> IF a[1] = t THEN "idle" ELSE status[a]]
    /\ left' = [a \in Items |-> IF a[1] = t THEN 0 ELSE left[a]]
    /\ UNCHANGED <<setBy, gpioVars>>
ResetSteps(t) ==
    /\ stepDone' = [s \in StepIds |-> s[1] # t /\ stepDone[s]]
    /\ stepAge' = [s \in Timed |-> IF s[1] = t THEN 0 ELSE stepAge[s]]
    /\ lowest' = [s \in Differing |-> IF s[1] = t THEN None ELSE lowest[s]]
    /\ status' = [a \in Items |-> IF a[1] = t THEN "idle" ELSE status[a]]
    /\ left' = [a \in Items |-> IF a[1] = t THEN 0 ELSE left[a]]
    /\ Give([g \in RunBy(t) |-> Start[g]], "start")

\* Task::reset(), then start() if the task is to run again.
ResetTask(t, next) ==
    /\ taskState' = [taskState EXCEPT ![t] = next]
    /\ ResetSteps(t)

StartTask(t) ==
    /\ taskState' = [taskState EXCEPT ![t] = "running"]
    /\ UNCHANGED <<stepDone, stepAge, lowest, status, left, setBy, gpioVars>>

PauseTask(t) ==
    /\ taskState' = [taskState EXCEPT ![t] = "paused"]
    /\ UNCHANGED <<stepDone, stepAge, lowest, status, left, setBy, gpioVars>>

\* Automation::state() of a command.
State(t) == ResetTask(t, "stopped") \/ StartTask(t) \/ PauseTask(t)

\* A command of the operator to action g.
Operate(g) ==
    /\ \/ \E v \in SetTo : GiveOne(g, v, "other")
       \/ StopGpio(g) /\ setBy' = [setBy EXCEPT ![g] = "start"]
       \/ ReinitGpio(g) /\ UNCHANGED setBy
    /\ UNCHANGED <<taskState, stepDone, stepAge, lowest, status, left>>

Command ==
    /\ phase = "commands"
    /\ (\E t \in Tasks : State(t)) \/ (\E g \in Gpios : Operate(g))
    /\ UNCHANGED <<reading, phase, at, allDone>>

\* The sensors of this iteration, and the call of Automation::update().
Sweep ==
    /\ phase = "commands" /\ phase' = "tasks"
    /\ reading' \in [Sensors -> Readings \cup {None}]
    /\ UNCHANGED <<progVars, at, allDone, gpioVars>>

---------------------------------------------------------------------------
\* Task::update() up to its first step, or its early return.
EnterTask ==
    /\ at[1] \in DOMAIN TaskOrder /\ at[2] = 0
    /\ at' = IF taskState[TaskAt] = "running" THEN <<at[1], 1, 0>> ELSE <<at[1] + 1, 0, 0>>
    /\ allDone' = TRUE
    /\ UNCHANGED <<progVars, gpioVars>>

Compare(op, x, y) ==
    CASE op = "GREATER_THAN" -> x > y [] op = "LESS_THAN" -> x < y [] op = "EQUALS" -> x = y

\* Step::checkCondition(): what it returns ...
Holds(s) ==
    LET c == Condition(s) IN
    CASE c.type = "IMMEDIATE" -> TRUE
      [] c.type = "TIME" -> stepAge[s] >= c.ms
      [] c.type = "SENSOR" -> reading[c.sensor] # None /\ Compare(c.op, reading[c.sensor], c.value)
      [] c.type = "DIFF" -> /\ reading[c.sensor] # None /\ lowest[s] # None
                            /\ Compare(c.op, reading[c.sensor], lowest[s] + c.value)

\* ... and the reading it keeps to compare the next ones with.
Kept(s) ==
    LET x == reading[Condition(s).sensor] IN
    IF x = None THEN lowest[s]
    ELSE IF lowest[s] = None \/ (Condition(s).op = "GREATER_THAN" /\ x < lowest[s]) THEN x
    ELSE lowest[s]

\* Step::update() up to its first item, or past the step.
Enters(s) == ~stepDone[s] /\ Holds(s)

EnterStep ==
    /\ at[1] \in DOMAIN TaskOrder /\ at[2] \in DOMAIN Program[TaskAt] /\ at[3] = 0
    /\ IF Enters(Here)
       THEN at' = <<at[1], at[2], 1>> /\ UNCHANGED allDone
       ELSE at' = <<at[1], at[2] + 1, 0>> /\ allDone' = (allDone /\ stepDone[Here])
    /\ lowest' = [s \in Differing |-> IF s = Here /\ ~stepDone[s] THEN Kept(s) ELSE lowest[s]]
    /\ UNCHANGED <<taskState, stepDone, stepAge, status, left, setBy, gpioVars>>

---------------------------------------------------------------------------
\* The items, at one of a step's.
AtItem(types) == at[1] \in DOMAIN TaskOrder /\ at[3] > 0 /\ Item(ItemAt).type \in types

\* The item is done: on to the next, or the step is completed.
Proceed ==
    IF at[3] = Len(Program[TaskAt][at[2]].items)
    THEN at' = <<at[1], at[2] + 1, 0>> /\ stepDone' = [stepDone EXCEPT ![Here] = TRUE]
    ELSE at' = <<at[1], at[2], at[3] + 1>> /\ UNCHANGED stepDone

\* The item is not done: the step waits, its task is not done.
\* Mutants: the items after it are run all the same; the task is done all the same.
MutWaitNot ==
    /\ allDone' = FALSE /\ UNCHANGED stepDone
    /\ at' = IF at[3] = Len(Program[TaskAt][at[2]].items)
             THEN <<at[1], at[2] + 1, 0>> ELSE <<at[1], at[2], at[3] + 1>>
MutWaitDone == at' = <<at[1], at[2] + 1, 0>> /\ UNCHANGED <<allDone, stepDone>>
Wait == at' = <<at[1], at[2] + 1, 0>> /\ allDone' = FALSE /\ UNCHANGED stepDone

PassItem ==
    /\ at[3] > 0 /\ status[ItemAt] = "done" /\ Proceed
    /\ UNCHANGED <<taskState, stepAge, lowest, status, left, setBy, allDone, gpioVars>>

\* ADD_VALUE adds to the value the action has now, which a ramp is still changing.
SetItem ==
    /\ AtItem({"SET_VALUE", "ADD_VALUE"}) /\ status[ItemAt] # "done"
    /\ LET i == Item(ItemAt) IN
       GiveOne(i.command, i.value + (IF i.type = "ADD_VALUE" THEN output[i.command] ELSE 0), "other")
    /\ status' = [status EXCEPT ![ItemAt] = "done"]
    /\ Proceed
    /\ UNCHANGED <<taskState, stepAge, lowest, left, allDone>>

\* The value of reset_counter's sensor is there when a run begins.
Counted == Item(ItemAt).resetCounter # None => reading[Item(ItemAt).resetCounter] # None

BeginRun ==
    /\ AtItem({"DURATION"}) /\ status[ItemAt] = "idle" /\ Counted
    /\ GiveOne(Item(ItemAt).command, Item(ItemAt).value, "run")
    /\ status' = [status EXCEPT ![ItemAt] = "running"]
    /\ left' = [left EXCEPT ![ItemAt] = Item(ItemAt).ms]
    /\ Wait
    /\ UNCHANGED <<taskState, stepAge, lowest>>

\* Mutant: a run does not end.
MutRuns(a) == status[a] = "running"
Runs(a) == status[a] = "running" /\ left[a] > 0

KeepRun ==
    /\ AtItem({"DURATION"}) /\ Runs(ItemAt)
    /\ Wait
    /\ UNCHANGED <<taskState, stepAge, lowest, status, left, setBy, gpioVars>>

EndRun ==
    /\ AtItem({"DURATION"}) /\ status[ItemAt] = "running" /\ ~Runs(ItemAt)
    /\ GiveOne(Item(ItemAt).command, Start[Item(ItemAt).command], "start")
    /\ status' = [status EXCEPT ![ItemAt] = "done"]
    /\ Proceed
    /\ UNCHANGED <<taskState, stepAge, lowest, left, allDone>>

\* LOOP and START_TASK: state(task, 0), state(task, 1); the item is never done.
Restart ==
    /\ AtItem({"LOOP", "START_TASK"})
    /\ ResetTask(Item(ItemAt).task, "running")
    /\ at' = <<at[1], at[2] + 1, 0>> /\ allDone' = FALSE

\* current_sensor_values.at() throws, and nothing catches it.
CounterMissing ==
    /\ AtItem({"DURATION"}) /\ status[ItemAt] = "idle" /\ ~Counted
    /\ phase' = "terminated"
    /\ UNCHANGED <<progVars, reading, at, allDone, gpioVars>>

---------------------------------------------------------------------------
\* Task::update() after its last step.
\* Mutant: a task that is done keeps its steps as they are.
MutEndTask ==
    /\ at[1] \in DOMAIN TaskOrder /\ at[2] = Len(Program[TaskAt]) + 1
    /\ at' = <<at[1] + 1, 0, 0>>
    /\ taskState' = IF allDone THEN [taskState EXCEPT ![TaskAt] = "stopped"] ELSE taskState
    /\ UNCHANGED <<stepDone, stepAge, lowest, status, left, setBy, gpioVars, allDone>>
EndTask ==
    /\ at[1] \in DOMAIN TaskOrder /\ at[2] = Len(Program[TaskAt]) + 1
    /\ at' = <<at[1] + 1, 0, 0>>
    /\ IF allDone
       THEN taskState' = [taskState EXCEPT ![TaskAt] = "stopped"] /\ ResetSteps(TaskAt)
       ELSE UNCHANGED <<taskState, stepDone, stepAge, lowest, status, left, setBy, gpioVars>>
    /\ UNCHANGED allDone

Interpret ==
    /\ phase = "tasks"
    /\ \/ /\ UNCHANGED <<reading, phase>>
          /\ \/ EnterTask \/ EnterStep \/ EndTask
             \/ PassItem \/ SetItem \/ BeginRun \/ KeepRun \/ EndRun \/ Restart
       \/ CounterMissing
       \/ /\ at[1] > Len(TaskOrder) /\ phase' = "drivers"
          /\ UNCHANGED <<progVars, reading, at, allDone, gpioVars>>

Older(ms) ==
    [s \in Timed |-> IF stepAge[s] + ms < Condition(s).ms THEN stepAge[s] + ms ELSE Condition(s).ms]

\* update() of the actions, and the main loop's sleep.
UpdateActions ==
    /\ phase = "drivers" /\ phase' = "sleep"
    /\ UpdateGpios
    /\ at' = <<1, 0, 0>> /\ allDone' = TRUE /\ reading' = [x \in Sensors |-> None]
    /\ UNCHANGED progVars

Sleep ==
    /\ phase = "sleep" /\ phase' = "commands"
    /\ \E ms \in LoopMs :
        /\ GpioTimePasses(ms)
        /\ stepAge' = Older(ms)
        /\ left' = [a \in Items |-> IF left[a] > ms THEN left[a] - ms ELSE 0]
    /\ UNCHANGED <<taskState, stepDone, lowest, status, setBy, reading, at, allDone>>

Loop == Sweep \/ Interpret \/ UpdateActions \/ Sleep
Next == Command \/ Loop
Spec == Init /\ [][Next]_vars

\* The main loop goes on, and does not drain an endless queue of commands.
FairSpec == Spec /\ WF_vars(Loop)

---------------------------------------------------------------------------
TypeOK ==
    /\ GpioTypeOK /\ setBy \in [Gpios -> {"start", "run", "other"}]
    /\ taskState \in [Tasks -> {"stopped", "running", "paused"}]
    /\ stepDone \in [StepIds -> BOOLEAN]
    /\ \A s \in Timed : stepAge[s] \in 0..Condition(s).ms
    /\ lowest \in [Differing -> Readings \cup {None}]
    /\ status \in [Items -> {"idle", "running", "done"}] /\ left \in [Items -> Nat]
    /\ reading \in [Sensors -> Readings \cup {None}]
    /\ phase \in {"commands", "tasks", "drivers", "sleep", "terminated"}
    /\ at \in Nat \X Nat \X Nat /\ allDone \in BOOLEAN

\* What a run gave an action is taken back: while an action has a run's
\* value, an item that is going to set it back is still running - whatever
\* resets, restarts, pauses and other runs of the action come in between
\* (step_action.cpp lines 14-22, 66-70).
RunsAreOwned ==
    \A g \in Gpios : setBy[g] = "run" =>
        \E a \in Items : status[a] = "running" /\ Item(a).command = g

\* When an iteration is over, a run of a running task that its step's
\* condition cannot hold back is not past its time: the loops over tasks,
\* steps and items have reached it, even if they were restarted under way.
NoOverrun ==
    phase = "drivers" =>
        \A a \in Items :
            /\ status[a] = "running" /\ taskState[a[1]] = "running"
            /\ Condition(<<a[1], a[2]>>).type \in {"IMMEDIATE", "TIME"}
            => left[a] > 0

\* A stopped task has nothing left of its last run: whichever way it ended,
\* the next start() begins it from its first items.
StoppedIsFresh ==
    \A t \in Tasks : taskState[t] = "stopped" =>
        /\ \A s \in StepIds : s[1] = t => ~stepDone[s] /\ (s \in Differing => lowest[s] = None)
        /\ \A a \in Items : a[1] = t => status[a] = "idle"

\* "run each step IN SEQUENCE" (step.cpp line 35): an item is not begun
\* before those ahead of it in its step are done, and a completed step has
\* them all done, whatever restarts the task in the middle of its update.
ItemsInOrder ==
    /\ \A a, b \in Items :
        a[1] = b[1] /\ a[2] = b[2] /\ a[3] < b[3] /\ status[b] # "idle" => status[a] = "done"
    /\ \A a \in Items : stepDone[<<a[1], a[2]>>] => status[a] = "done"

\* A task is only taken for done (task.cpp line 59) when every step of it
\* is completed at that point, also after a restart during its own update.
EndedIsComplete ==
    phase = "tasks" /\ at[1] \in DOMAIN TaskOrder /\ at[2] > Len(Program[TaskAt]) /\ allDone =>
        \A s \in StepIds : s[1] = TaskAt => stepDone[s]

(* What these rest on.                                                     *)

\* Where the interpreter is: within the task it has entered, which runs.
PlaceInv ==
    /\ at[1] \in 1..Len(TaskOrder) + 1
    /\ at[2] > 0 =>
        /\ phase \in {"tasks", "terminated"} /\ at[1] \in DOMAIN TaskOrder
        /\ at[2] \in 1..Len(Program[TaskAt]) + 1 /\ taskState[TaskAt] = "running"
    /\ at[3] > 0 => at[2] > 0 /\ at[2] \in DOMAIN Program[TaskAt] /\ ItemAt \in Items
    /\ phase = "drivers" => at[1] = Len(TaskOrder) + 1
    /\ phase \in {"sleep", "commands"} => at = <<1, 0, 0>>

Elapsed(s) == s \in Timed => stepAge[s] = Condition(s).ms

\* The items it has passed in the step, and the steps it has passed in the task.
PassedInv ==
    /\ at[3] > 0 => Elapsed(Here) /\ \A a \in Items :
        a[1] = TaskAt /\ a[2] = at[2] /\ a[3] < at[3] => status[a] = "done"
    /\ allDone /\ at[2] > 0 => \A s \in StepIds : s[1] = TaskAt /\ s[2] < at[2] => stepDone[s]

\* Only a DURATION item is ever running, once the time of its step has come;
\* one that restarts a task is never done.
RunningInv ==
    \A a \in Items :
        /\ status[a] = "running" => Item(a).type = "DURATION" /\ Elapsed(<<a[1], a[2]>>)
        /\ status[a] # "idle" => ~Restarts(a)

\* NoOverrun for the steps the interpreter has passed.
Passed(s) == \E k \in DOMAIN TaskOrder :
    TaskOrder[k] = s[1] /\ (k < at[1] \/ (k = at[1] /\ s[2] < at[2]))
OverrunInv ==
    \A a \in Items :
        /\ status[a] = "running" /\ taskState[a[1]] = "running" /\ Passed(<<a[1], a[2]>>)
        /\ Condition(<<a[1], a[2]>>).type \in {"IMMEDIATE", "TIME"}
        => left[a] > 0

AutomationInv ==
    /\ TypeOK /\ PlaceInv /\ PassedInv /\ RunningInv /\ OverrunInv
    /\ RunsAreOwned /\ StoppedIsFresh /\ ItemsInOrder

---------------------------------------------------------------------------
\* A task that waits for no sensor and restarts nothing comes to an end, or
\* is stopped or paused, unless LOOP or START_TASK items restart it for ever.
PlainTasks == {t \in Tasks :
    /\ \A s \in StepIds : s[1] = t => Condition(s).type \in {"IMMEDIATE", "TIME"}
    /\ \A a \in Items : a[1] = t =>
        ~Restarts(a) /\ (Item(a).type = "DURATION" => Item(a).resetCounter = None)}
Restarted(t) == Restart /\ Item(ItemAt).task = t
TaskEnds ==
    \A t \in PlainTasks :
        \/ []<>(taskState[t] # "running") \/ []<><<Restarted(t)>>_vars
        \/ <>[](phase = "terminated")

\* A ramp whose target stays arrives at it, whatever value it was given: it
\* does not step over the target for ever (gpio_driver.cpp lines 79-99).
RampArrives ==
    \A g \in Gpios : Ramped(g) =>
        \/ []<>(output[g] = desired[g]) \/ []<><<desired'[g] # desired[g]>>_vars
        \/ <>[](phase = "terminated")
=============================================================================
