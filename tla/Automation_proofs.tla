--------------------------- MODULE Automation_proofs ---------------------------
(***************************************************************************)
(* Proofs about Automation, for every program of tasks.                    *)
(***************************************************************************)
EXTENDS Automation, TLAPS

USE GpioAssumption

\* A sequence in the sense of the assumptions.
LEMMA SeqFacts ==
    ASSUME NEW s, IsSeq(s)
    PROVE  Len(s) \in Nat /\ DOMAIN s = 1..Len(s)
BY DEF IsSeq

\* The tasks, steps and items of a program.
LEMMA ProgramFacts ==
    /\ Len(TaskOrder) \in Nat \ {0} /\ DOMAIN TaskOrder = 1..Len(TaskOrder)
    /\ \A k \in DOMAIN TaskOrder : TaskOrder[k] \in Tasks
    /\ \A t \in Tasks :
        Len(Program[t]) \in Nat \ {0} /\ DOMAIN Program[t] = 1..Len(Program[t])
    /\ \A t \in Tasks : \A i \in DOMAIN Program[t] :
        /\ <<t, i>> \in StepIds
        /\ Len(Program[t][i].items) \in Nat \ {0}
        /\ DOMAIN Program[t][i].items = 1..Len(Program[t][i].items)
        /\ \A j \in DOMAIN Program[t][i].items : <<t, i, j>> \in Items
<1>1. Len(TaskOrder) \in Nat \ {0} /\ DOMAIN TaskOrder = 1..Len(TaskOrder)
  <2>1. IsSeq(TaskOrder) /\ TaskOrder # <<>>
    BY AutomationAssumption
  <2>2. TaskOrder \in Seq({TaskOrder[i] : i \in DOMAIN TaskOrder})
    BY <2>1 DEF IsSeq
  <2>3. Len(TaskOrder) # 0
    BY <2>1, <2>2
  <2> QED
    BY <2>1, <2>3, SeqFacts
<1>2. \A k \in DOMAIN TaskOrder : TaskOrder[k] \in Tasks
  BY DEF Tasks
<1>3. \A t \in Tasks :
        Len(Program[t]) \in Nat \ {0} /\ DOMAIN Program[t] = 1..Len(Program[t])
  BY SeqFacts, AutomationAssumption
<1>4. \A t \in Tasks : \A i \in DOMAIN Program[t] : <<t, i>> \in StepIds
  BY DEF StepIds
<1>5. ASSUME NEW t \in Tasks, NEW i \in DOMAIN Program[t]
      PROVE  /\ Len(Program[t][i].items) \in Nat \ {0}
             /\ DOMAIN Program[t][i].items = 1..Len(Program[t][i].items)
  <2> DEFINE s == <<t, i>>
  <2>1. s \in StepIds /\ s[1] = t /\ s[2] = i
    BY <1>4
  <2>2. IsSeq(Program[t][i].items) /\ Len(Program[t][i].items) > 0
    BY <2>1, AutomationAssumption
  <2> QED
    BY <2>2, SeqFacts
<1>6. ASSUME NEW t \in Tasks, NEW i \in DOMAIN Program[t], NEW j \in DOMAIN Program[t][i].items
      PROVE  <<t, i, j>> \in Items
  <2> DEFINE s == <<t, i>>
  <2>1. s \in StepIds /\ s[1] = t /\ s[2] = i
    BY <1>4
  <2> QED
    BY <2>1 DEF Items
<1> QED
  BY <1>1, <1>2, <1>3, <1>4, <1>5, <1>6

LEMMA FirstItem ==
    ASSUME NEW t \in Tasks, NEW i \in DOMAIN Program[t]
    PROVE  <<t, i, 1>> \in Items
<1> DEFINE items == Program[t][i].items
<1>1. Len(items) \in Nat \ {0} /\ DOMAIN items = 1..Len(items)
      /\ \A j \in DOMAIN items : <<t, i, j>> \in Items
  BY ProgramFacts
<1> HIDE DEF items
<1> QED
  BY <1>1

\* An item and its step.
LEMMA ItemFacts ==
    ASSUME NEW a \in Items
    PROVE  /\ a = <<a[1], a[2], a[3]>> /\ a[1] \in Tasks /\ a[2] \in DOMAIN Program[a[1]]
           /\ a[3] \in DOMAIN Program[a[1]][a[2]].items /\ <<a[1], a[2]>> \in StepIds
<1>1. PICK s \in StepIds : \E j \in DOMAIN Program[s[1]][s[2]].items : a = <<s[1], s[2], j>>
  BY DEF Items
<1>2. PICK t \in Tasks : \E i \in DOMAIN Program[t] : s = <<t, i>>
  BY <1>1 DEF StepIds
<1> QED
  BY <1>1, <1>2 DEF StepIds

LEMMA ItemTypes ==
    ASSUME NEW a \in Items
    PROVE  /\ Item(a).type \in {"SET_VALUE", "ADD_VALUE", "DURATION", "LOOP", "START_TASK"}
           /\ Item(a).type \in {"SET_VALUE", "ADD_VALUE", "DURATION"} =>
                Item(a).command \in Gpios /\ Item(a).value \in Int
           /\ Item(a).type = "DURATION" => Item(a).ms \in Nat \ {0}
           /\ Item(a).type \in {"LOOP", "START_TASK"} => Item(a).task \in Tasks
<1>1. /\ Item(a).type \in {"SET_VALUE", "ADD_VALUE", "DURATION", "LOOP", "START_TASK"}
      /\ IF Restarts(a) THEN Item(a).task \in Tasks
         ELSE Item(a).command \in Gpios /\ Item(a).value \in Int
      /\ Item(a).type = "DURATION" => Item(a).ms \in Nat \ {0}
  BY AutomationAssumption
<1> QED
  BY <1>1 DEF Restarts

LEMMA ItemPlaces == \A a \in Items : a[3] \in Nat \ {0}
<1> SUFFICES ASSUME NEW a \in Items PROVE a[3] \in Nat \ {0}
  OBVIOUS
<1> DEFINE items == Program[a[1]][a[2]].items
<1>1. a[1] \in Tasks /\ a[2] \in DOMAIN Program[a[1]] /\ a[3] \in DOMAIN items
  BY ItemFacts
<1>2. DOMAIN items = 1..Len(items) /\ Len(items) \in Nat
  BY <1>1, ProgramFacts
<1> HIDE DEF items
<1> QED
  BY <1>1, <1>2

LEMMA StepFacts ==
    ASSUME NEW s \in StepIds
    PROVE  s = <<s[1], s[2]>> /\ s[1] \in Tasks /\ s[2] \in DOMAIN Program[s[1]]
BY DEF StepIds

-----------------------------------------------------------------------------
(* The actions of GpioDriver.                                              *)

LEMMA WholeIsInt == ASSUME NEW v \in Int PROVE Whole(v) \in Int
<1>1. v >= 0 => v \div Part \in Int
  OBVIOUS
<1>2. -v >= 0 => (-v) \div Part \in Int
  OBVIOUS
<1> QED
  BY <1>1, <1>2 DEF Whole

LEMMA LevelIsInt == ASSUME NEW g \in Gpios, NEW v \in Int PROVE Level(g, v) \in Int
BY WholeIsInt DEF Level

LEMMA SetValuesTypes ==
    ASSUME GpioTypeOK, NEW values, DOMAIN values \subseteq Gpios,
           \A g \in DOMAIN values : values[g] \in Int, SetValues(values)
    PROVE  GpioTypeOK'
<1>1. \A g \in DOMAIN values : Whole(values[g]) \in Int /\ Level(g, values[g]) \in Int
  BY WholeIsInt, LevelIsInt
<1> QED
  BY <1>1 DEF GpioTypeOK, SetValues

LEMMA GiveTypes ==
    ASSUME GpioTypeOK, setBy \in [Gpios -> {"start", "run", "other"}],
           NEW values, DOMAIN values \subseteq Gpios,
           \A g \in DOMAIN values : values[g] \in Int,
           NEW by \in {"start", "run", "other"}, Give(values, by)
    PROVE  GpioTypeOK' /\ setBy' \in [Gpios -> {"start", "run", "other"}]
BY SetValuesTypes DEF Give

LEMMA GiveOneTypes ==
    ASSUME GpioTypeOK, setBy \in [Gpios -> {"start", "run", "other"}],
           NEW g \in Gpios, NEW v \in Int, NEW by \in {"start", "run", "other"}, GiveOne(g, v, by)
    PROVE  /\ GpioTypeOK' /\ setBy' \in [Gpios -> {"start", "run", "other"}]
           /\ setBy' = [h \in Gpios |-> IF h = g THEN by ELSE setBy[h]]
<1> DEFINE values == [h \in {g} |-> v]
<1>1. DOMAIN values = {g} /\ values[g] = v /\ Give(values, by)
  BY DEF GiveOne
<1>2. setBy' = [h \in Gpios |-> IF h = g THEN by ELSE setBy[h]]
  BY <1>1 DEF Give
<1> HIDE DEF values
<1> QED
  BY <1>1, <1>2, GiveTypes

LEMMA GpioStepTypes ==
    ASSUME GpioTypeOK
    PROVE  /\ \A g \in Gpios : StopGpio(g) => GpioTypeOK'
           /\ \A g \in Gpios : ReinitGpio(g) => GpioTypeOK'
           /\ UpdateGpios => GpioTypeOK'
           /\ \A ms \in Nat : GpioTimePasses(ms) => GpioTypeOK'
<1>1. ASSUME NEW g \in Gpios, StopGpio(g) PROVE GpioTypeOK'
  BY <1>1, SetValuesTypes DEF StopGpio
<1>2. ASSUME NEW g \in Gpios, ReinitGpio(g) PROVE GpioTypeOK'
  BY <1>2 DEF ReinitGpio, GpioTypeOK
<1>3. ASSUME UpdateGpios PROVE GpioTypeOK'
  <2>1. ASSUME NEW g \in Gpios PROVE Updated(g) \in Int
    <3>1. Part \in Int /\ output[g] \in Int
      BY DEF GpioTypeOK
    <3>2. output[g] - Part \in Int /\ output[g] + Part \in Int
      BY <3>1
    <3> QED
      BY <3>1, <3>2 DEF Updated
  <2>2. \A g \in Gpios : Level(g, Updated(g)) \in Int
    BY <2>1, LevelIsInt
  <2> QED
    BY <1>3, <2>1, <2>2 DEF UpdateGpios, GpioTypeOK
<1>4. ASSUME NEW ms \in Nat, GpioTimePasses(ms) PROVE GpioTypeOK'
  <2>1. ASSUME NEW g \in Gpios PROVE rested'[g] \in 0..RampMs[g]
    <3>1. rested'[g] = IF rested[g] + ms < RampMs[g] THEN rested[g] + ms ELSE RampMs[g]
      BY <1>4 DEF GpioTimePasses
    <3>2. rested[g] \in 0..RampMs[g] /\ RampMs[g] \in Nat
      BY DEF GpioTypeOK
    <3> QED
      BY <3>1, <3>2
  <2> QED
    BY <1>4, <2>1 DEF GpioTimePasses, GpioTypeOK
<1> QED
  BY <1>1, <1>2, <1>3, <1>4

-----------------------------------------------------------------------------
(* Where the interpreter is.                                               *)

LEMMA HereFacts ==
    ASSUME TypeOK, PlaceInv, at[2] > 0
    PROVE  /\ at = <<at[1], at[2], at[3]>> /\ at[1] \in DOMAIN TaskOrder /\ TaskAt \in Tasks
           /\ at[2] \in DOMAIN Program[TaskAt] =>
                Here \in StepIds /\ Here[1] = TaskAt /\ Here[2] = at[2]
           /\ at[3] > 0 =>
                /\ at[2] \in DOMAIN Program[TaskAt] /\ ItemAt \in Items
                /\ at[3] \in 1..Len(Program[TaskAt][at[2]].items)
                /\ Len(Program[TaskAt][at[2]].items) \in Nat
                /\ ItemAt[1] = TaskAt /\ ItemAt[2] = at[2] /\ ItemAt[3] = at[3]
<1>1. at = <<at[1], at[2], at[3]>> /\ at[1] \in DOMAIN TaskOrder
  BY DEF TypeOK, PlaceInv
<1>2. TaskAt \in Tasks
  BY <1>1, ProgramFacts DEF TaskAt
<1>3. at[2] \in DOMAIN Program[TaskAt] => Here \in StepIds /\ Here[1] = TaskAt /\ Here[2] = at[2]
  BY <1>2, ProgramFacts DEF Here
<1>4. ASSUME at[3] > 0
      PROVE  /\ at[2] \in DOMAIN Program[TaskAt] /\ ItemAt \in Items
             /\ at[3] \in 1..Len(Program[TaskAt][at[2]].items)
             /\ Len(Program[TaskAt][at[2]].items) \in Nat
             /\ ItemAt[1] = TaskAt /\ ItemAt[2] = at[2] /\ ItemAt[3] = at[3]
  <2>1. ItemAt \in Items /\ ItemAt[1] = TaskAt /\ ItemAt[2] = at[2] /\ ItemAt[3] = at[3]
    BY <1>4 DEF PlaceInv, ItemAt
  <2>2. at[2] \in DOMAIN Program[TaskAt] /\ at[3] \in DOMAIN Program[TaskAt][at[2]].items
    BY <2>1, ItemFacts
  <2> QED
    BY <2>1, <2>2, <1>2, ProgramFacts
<1> QED
  BY <1>1, <1>2, <1>3, <1>4

\* An item the interpreter is at.
LEMMA AtItemFacts ==
    ASSUME TypeOK, PlaceInv, NEW types, AtItem(types)
    PROVE  at[2] > 0 /\ at[3] > 0 /\ phase \in {"tasks", "terminated"}
           /\ taskState[TaskAt] = "running" /\ ItemAt \in Items /\ Item(ItemAt).type \in types
<1>1. at[3] > 0 /\ Item(ItemAt).type \in types /\ at[1] \in DOMAIN TaskOrder
  BY DEF AtItem
<1>2. ItemAt \in Items /\ at[2] \in DOMAIN Program[TaskAt]
  BY <1>1 DEF PlaceInv
<1>3. at[2] > 0
  BY <1>1, <1>2, ProgramFacts DEF TaskAt
<1> QED
  BY <1>1, <1>2, <1>3 DEF PlaceInv

LEMMA RunByGpios ==
    ASSUME RunningInv, NEW t
    PROVE  RunBy(t) \subseteq Gpios
<1>1. ASSUME NEW a \in Items, status[a] = "running" PROVE Item(a).command \in Gpios
  BY <1>1, ItemTypes DEF RunningInv
<1> QED
  BY <1>1 DEF RunBy

\* The steps and items of a task after Step::reset().
LEMMA ResetTypes ==
    ASSUME TypeOK, RunningInv, NEW t \in Tasks, ResetSteps(t)
    PROVE  /\ GpioTypeOK' /\ setBy' \in [Gpios -> {"start", "run", "other"}]
           /\ stepDone' \in [StepIds -> BOOLEAN]
           /\ \A s \in Timed : stepAge'[s] \in 0..Condition(s).ms
           /\ lowest' \in [Differing -> Readings \cup {None}]
           /\ status' \in [Items -> {"idle", "running", "done"}] /\ left' \in [Items -> Nat]
           /\ setBy' = [g \in Gpios |-> IF g \in RunBy(t) THEN "start" ELSE setBy[g]]
<1> DEFINE values == [g \in RunBy(t) |-> Start[g]]
<1>1. DOMAIN values = RunBy(t) /\ RunBy(t) \subseteq Gpios /\ Give(values, "start")
  BY RunByGpios DEF ResetSteps
<1>2. \A g \in DOMAIN values : values[g] \in Int
  BY <1>1
<1>3. setBy' = [g \in Gpios |-> IF g \in RunBy(t) THEN "start" ELSE setBy[g]]
  BY <1>1 DEF Give
<1> HIDE DEF values
<1>4. GpioTypeOK' /\ setBy' \in [Gpios -> {"start", "run", "other"}]
  BY <1>1, <1>2, GiveTypes DEF TypeOK
<1>5. \A s \in Timed : stepAge'[s] \in 0..Condition(s).ms
  <2>1. \A s \in Timed : Condition(s).ms \in Nat
    BY AutomationAssumption
  <2> QED
    BY <2>1 DEF ResetSteps, TypeOK
<1> QED
  BY <1>3, <1>4, <1>5 DEF ResetSteps, TypeOK

LEMMA Readings1 == ASSUME TypeOK, NEW s \in Differing PROVE Kept(s) \in Readings \cup {None}
<1>1. reading[Condition(s).sensor] \in Readings \cup {None}
  BY AutomationAssumption DEF TypeOK, Differing
<1> QED
  BY <1>1 DEF Kept, TypeOK

-----------------------------------------------------------------------------
(* The invariants, one lemma each with one step per action.                *)

\* What an item does to the place, the types of it.
LEMMA PlaceTypes ==
    ASSUME TypeOK, PlaceInv, at[2] > 0
    PROVE  /\ Wait => at' \in Nat \X Nat \X Nat /\ allDone' \in BOOLEAN
                        /\ stepDone' \in [StepIds -> BOOLEAN]
           /\ Proceed => at' \in Nat \X Nat \X Nat /\ stepDone' \in [StepIds -> BOOLEAN]
<1>1. at[1] \in Nat /\ at[2] \in Nat /\ at[3] \in Nat /\ stepDone \in [StepIds -> BOOLEAN]
  BY DEF TypeOK
<1>2. at[1] + 1 \in Nat /\ at[2] + 1 \in Nat /\ at[3] + 1 \in Nat
  BY <1>1
<1>3. Wait => at' \in Nat \X Nat \X Nat
  BY <1>1, <1>2 DEF Wait
<1>4. Wait => allDone' \in BOOLEAN /\ stepDone' \in [StepIds -> BOOLEAN]
  BY <1>1 DEF Wait
<1>5. Proceed => at' \in Nat \X Nat \X Nat
  BY <1>1, <1>2 DEF Proceed
<1>6. Proceed => stepDone' \in [StepIds -> BOOLEAN]
  BY <1>1 DEF Proceed
<1> QED
  BY <1>3, <1>4, <1>5, <1>6

LEMMA TypeInit == Init => TypeOK
<1> SUFFICES ASSUME Init PROVE TypeOK
  OBVIOUS
<1>1. GpioTypeOK
  BY DEF Init, GpioInit, GpioTypeOK
<1>2. \A s \in Timed : stepAge[s] \in 0..Condition(s).ms
  BY AutomationAssumption DEF Init
<1> QED
  BY <1>1, <1>2 DEF Init, TypeOK

LEMMA TypeStep ==
    ASSUME TypeOK, PlaceInv, RunningInv, [Next]_vars
    PROVE  TypeOK'
<1>1. CASE Command
  <2>1. ASSUME NEW t \in Tasks, ResetTask(t, "stopped") PROVE TypeOK'
    BY <1>1, <2>1, ResetTypes DEF ResetTask, Command, TypeOK
  <2>2. ASSUME NEW t \in Tasks, StartTask(t) \/ PauseTask(t) PROVE TypeOK'
    BY <1>1, <2>2 DEF StartTask, PauseTask, Command, TypeOK, GpioTypeOK, gpioVars
  <2>3. ASSUME NEW g \in Gpios, Operate(g) PROVE TypeOK'
    <3>1. CASE \E v \in SetTo : GiveOne(g, v, "other")
      <4>1. PICK v \in SetTo : GiveOne(g, v, "other")
        BY <3>1
      <4>2. v \in Int
        BY AutomationAssumption
      <4>3. GpioTypeOK' /\ setBy' \in [Gpios -> {"start", "run", "other"}]
        BY <4>1, <4>2, GiveOneTypes DEF TypeOK
      <4> QED
        BY <1>1, <2>3, <4>3 DEF Operate, Command, TypeOK
    <3>2. CASE StopGpio(g) /\ setBy' = [setBy EXCEPT ![g] = "start"]
      <4>1. GpioTypeOK'
        BY <3>2, GpioStepTypes DEF TypeOK
      <4> QED
        BY <1>1, <2>3, <3>2, <4>1 DEF Operate, Command, TypeOK
    <3>3. CASE ReinitGpio(g) /\ UNCHANGED setBy
      <4>1. GpioTypeOK'
        BY <3>3, GpioStepTypes DEF TypeOK
      <4> QED
        BY <1>1, <2>3, <3>3, <4>1 DEF Operate, Command, TypeOK
    <3> QED
      BY <2>3, <3>1, <3>2, <3>3 DEF Operate
  <2> QED
    BY <1>1, <2>1, <2>2, <2>3 DEF Command, State
<1>2. CASE Sweep
  BY <1>2 DEF Sweep, TypeOK, GpioTypeOK, gpioVars, progVars
<1>3. CASE UpdateActions
  <2>1. GpioTypeOK'
    BY <1>3, GpioStepTypes DEF UpdateActions, TypeOK
  <2> QED
    BY <1>3, <2>1 DEF UpdateActions, TypeOK, progVars
<1>4. CASE Sleep
  <2>1. PICK ms \in LoopMs : GpioTimePasses(ms) /\ stepAge' = Older(ms)
                             /\ left' = [a \in Items |-> IF left[a] > ms THEN left[a] - ms ELSE 0]
    BY <1>4 DEF Sleep
  <2>2. ms \in Nat
    BY AutomationAssumption
  <2>3. GpioTypeOK'
    BY <2>1, <2>2, GpioStepTypes DEF TypeOK
  <2>4. left' \in [Items -> Nat]
    BY <2>1, <2>2 DEF TypeOK
  <2>5. ASSUME NEW s \in Timed PROVE stepAge'[s] \in 0..Condition(s).ms
    <3>1. stepAge'[s] = IF stepAge[s] + ms < Condition(s).ms THEN stepAge[s] + ms ELSE Condition(s).ms
      BY <2>1 DEF Older
    <3>2. Condition(s).ms \in Nat /\ stepAge[s] \in 0..Condition(s).ms
      BY AutomationAssumption DEF TypeOK
    <3> QED
      BY <2>2, <3>1, <3>2
  <2> QED
    BY <1>4, <2>3, <2>4, <2>5 DEF Sleep, TypeOK
<1>5. ASSUME phase = "tasks", UNCHANGED <<reading, phase>>,
             EnterTask \/ EnterStep \/ EndTask \/ PassItem \/ SetItem \/ BeginRun
                \/ KeepRun \/ EndRun \/ Restart
      PROVE  TypeOK'
  <2>1. CASE EnterTask
    BY <1>5, <2>1 DEF EnterTask, TypeOK, GpioTypeOK, gpioVars, progVars
  <2>2. CASE EnterStep
    <3>1. lowest' \in [Differing -> Readings \cup {None}]
      BY <2>2, Readings1 DEF EnterStep, TypeOK
    <3>2. at' \in Nat \X Nat \X Nat /\ allDone' \in BOOLEAN
      <4>1. at[1] \in Nat /\ at[2] \in Nat
        BY DEF TypeOK
      <4>2. at[2] \in DOMAIN Program[TaskAt] /\ at[2] > 0
        BY <2>2, <4>1, ProgramFacts DEF EnterStep, TaskAt
      <4>3. stepDone[Here] \in BOOLEAN
        BY <4>2, HereFacts DEF TypeOK
      <4> QED
        BY <2>2, <4>1, <4>3 DEF EnterStep, TypeOK
    <3> QED
      BY <1>5, <2>2, <3>1, <3>2 DEF EnterStep, TypeOK, GpioTypeOK, gpioVars
  <2>3. CASE EndTask
    <3>1. at' \in Nat \X Nat \X Nat
      BY <2>3 DEF EndTask, TypeOK
    <3>2. CASE allDone
      <4>1. TaskAt \in Tasks
        BY <2>3, ProgramFacts DEF EndTask, TaskAt
      <4>2. /\ taskState' = [taskState EXCEPT ![TaskAt] = "stopped"] /\ ResetSteps(TaskAt)
            /\ allDone' = allDone
        BY <2>3, <3>2 DEF EndTask
      <4>3. taskState' \in [Tasks -> {"stopped", "running", "paused"}] /\ allDone' \in BOOLEAN
        BY <4>2 DEF TypeOK
      <4>4. /\ GpioTypeOK' /\ setBy' \in [Gpios -> {"start", "run", "other"}]
            /\ stepDone' \in [StepIds -> BOOLEAN]
            /\ \A s \in Timed : stepAge'[s] \in 0..Condition(s).ms
            /\ lowest' \in [Differing -> Readings \cup {None}]
            /\ status' \in [Items -> {"idle", "running", "done"}] /\ left' \in [Items -> Nat]
        BY <4>1, <4>2, ResetTypes
      <4>5. reading' \in [Sensors -> Readings \cup {None}] /\ phase' = phase
        BY <1>5 DEF TypeOK
      <4> QED
        BY <3>1, <4>3, <4>4, <4>5 DEF TypeOK
    <3>3. CASE ~allDone
      BY <1>5, <2>3, <3>1, <3>3 DEF EndTask, TypeOK, GpioTypeOK, gpioVars
    <3> QED
      BY <3>2, <3>3
  <2>4. CASE PassItem
    <3>1. at[2] > 0
      BY <2>4 DEF PassItem, PlaceInv
    <3> QED
      BY <1>5, <2>4, <3>1, PlaceTypes DEF PassItem, TypeOK, GpioTypeOK, gpioVars
  <2>5. CASE SetItem
    <3> DEFINE i == Item(ItemAt)
               v == i.value + (IF i.type = "ADD_VALUE" THEN output[i.command] ELSE 0)
    <3>1. at[2] > 0 /\ ItemAt \in Items /\ i.type \in {"SET_VALUE", "ADD_VALUE"}
      BY <2>5, AtItemFacts DEF SetItem
    <3>2. i.command \in Gpios /\ i.value \in Int
      BY <3>1, ItemTypes
    <3>3. v \in Int
      BY <3>2 DEF TypeOK, GpioTypeOK
    <3>4. GiveOne(i.command, v, "other")
      BY <2>5 DEF SetItem
    <3> HIDE DEF v
    <3>5. GpioTypeOK' /\ setBy' \in [Gpios -> {"start", "run", "other"}]
      BY <3>2, <3>3, <3>4, GiveOneTypes DEF TypeOK
    <3> QED
      BY <1>5, <2>5, <3>1, <3>5, PlaceTypes DEF SetItem, TypeOK
  <2>6. CASE BeginRun
    <3> DEFINE i == Item(ItemAt)
    <3>1. at[2] > 0 /\ ItemAt \in Items /\ i.type = "DURATION"
      BY <2>6, AtItemFacts DEF BeginRun
    <3>2. i.command \in Gpios /\ i.value \in Int /\ i.ms \in Nat
      BY <3>1, ItemTypes
    <3>3. GpioTypeOK' /\ setBy' \in [Gpios -> {"start", "run", "other"}]
      BY <2>6, <3>2, GiveOneTypes DEF BeginRun, TypeOK
    <3> QED
      BY <1>5, <2>6, <3>1, <3>2, <3>3, PlaceTypes DEF BeginRun, TypeOK
  <2>7. CASE KeepRun
    <3>1. at[2] > 0
      BY <2>7, AtItemFacts DEF KeepRun
    <3> QED
      BY <1>5, <2>7, <3>1, PlaceTypes DEF KeepRun, TypeOK, GpioTypeOK, gpioVars
  <2>8. CASE EndRun
    <3> DEFINE i == Item(ItemAt)
    <3>1. at[2] > 0 /\ ItemAt \in Items /\ i.type = "DURATION"
      BY <2>8, AtItemFacts DEF EndRun
    <3>2. i.command \in Gpios /\ Start[i.command] \in Int
      BY <3>1, ItemTypes
    <3>3. GpioTypeOK' /\ setBy' \in [Gpios -> {"start", "run", "other"}]
      BY <2>8, <3>2, GiveOneTypes DEF EndRun, TypeOK
    <3> QED
      BY <1>5, <2>8, <3>1, <3>3, PlaceTypes DEF EndRun, TypeOK
  <2>9. CASE Restart
    <3>1. Item(ItemAt).task \in Tasks
      BY <2>9, AtItemFacts, ItemTypes DEF Restart
    <3>2. at' \in Nat \X Nat \X Nat
      BY <2>9 DEF Restart, TypeOK
    <3> QED
      BY <1>5, <2>9, <3>1, <3>2, ResetTypes DEF Restart, ResetTask, TypeOK
  <2> QED
    BY <1>5, <2>1, <2>2, <2>3, <2>4, <2>5, <2>6, <2>7, <2>8, <2>9
<1>6. CASE CounterMissing
  BY <1>6 DEF CounterMissing, TypeOK, GpioTypeOK, gpioVars, progVars
<1>7. ASSUME phase' = "drivers", UNCHANGED <<progVars, reading, at, allDone, gpioVars>> PROVE TypeOK'
  BY <1>7 DEF TypeOK, GpioTypeOK, gpioVars, progVars
<1>8. CASE UNCHANGED vars
  BY <1>8 DEF TypeOK, GpioTypeOK, gpioVars, progVars, vars
<1> QED
  BY <1>1, <1>2, <1>3, <1>4, <1>5, <1>6, <1>7, <1>8 DEF Next, Loop, Interpret

\* Between the items of a step, and to the next.
LEMMA PlaceMoves ==
    ASSUME TypeOK, PlaceInv, at[3] > 0, phase = "tasks", phase' = "tasks",
           taskState'[TaskAt] = "running",
           at' = <<at[1], at[2] + 1, 0>> \/ Proceed
    PROVE  PlaceInv'
<1>1. at[2] > 0 /\ at[1] \in DOMAIN TaskOrder /\ TaskAt \in Tasks /\ at[2] \in DOMAIN Program[TaskAt]
      /\ Len(Program[TaskAt]) \in Nat /\ DOMAIN Program[TaskAt] = 1..Len(Program[TaskAt])
  BY HereFacts, ProgramFacts DEF PlaceInv
<1>2. CASE at' = <<at[1], at[2] + 1, 0>>
  <2>1. at'[1] = at[1] /\ at'[2] = at[2] + 1 /\ at'[3] = 0 /\ TaskAt' = TaskAt
    BY <1>2 DEF TaskAt
  <2> QED
    BY <1>1, <2>1 DEF PlaceInv
<1>3. CASE at' = <<at[1], at[2], at[3] + 1>> /\ at[3] # Len(Program[TaskAt][at[2]].items)
  <2>1. at'[1] = at[1] /\ at'[2] = at[2] /\ at'[3] = at[3] + 1 /\ TaskAt' = TaskAt
    BY <1>3 DEF TaskAt
  <2>2. at[3] + 1 \in 1..Len(Program[TaskAt][at[2]].items)
    BY <1>1, <1>3, HereFacts
  <2>3. ItemAt' \in Items
    BY <1>1, <2>1, <2>2, ProgramFacts DEF ItemAt
  <2> QED
    BY <1>1, <2>1, <2>3 DEF PlaceInv
<1> QED
  BY <1>2, <1>3 DEF Proceed

LEMMA PlaceStep ==
    ASSUME TypeOK, PlaceInv, [Next]_vars
    PROVE  PlaceInv'
<1>1. CASE Command
  <2>1. at = <<1, 0, 0>> /\ at' = at /\ phase = "commands" /\ phase' = phase
    BY <1>1 DEF Command, PlaceInv
  <2> QED
    BY <2>1, ProgramFacts DEF PlaceInv
<1>2. CASE Sweep \/ UpdateActions \/ Sleep
  <2>1. at' = <<1, 0, 0>> /\ phase' \in {"tasks", "sleep", "commands"}
    BY <1>2 DEF Sweep, UpdateActions, Sleep, PlaceInv
  <2> QED
    BY <2>1, ProgramFacts DEF PlaceInv
<1>5. ASSUME phase = "tasks", UNCHANGED <<reading, phase>>,
             EnterTask \/ EnterStep \/ EndTask \/ PassItem \/ SetItem \/ BeginRun
                \/ KeepRun \/ EndRun \/ Restart
      PROVE  PlaceInv'
  <2>1. CASE EnterTask
    <3>1. at[1] \in DOMAIN TaskOrder /\ taskState' = taskState
      BY <2>1 DEF EnterTask, progVars
    <3>2. CASE taskState[TaskAt] = "running"
      <4>1. at'[1] = at[1] /\ at'[2] = 1 /\ at'[3] = 0 /\ TaskAt' = TaskAt
        BY <2>1, <3>2 DEF EnterTask, TaskAt
      <4>2. 1 \in 1..Len(Program[TaskAt]) + 1
        BY <3>1, ProgramFacts DEF TaskAt
      <4> QED
        BY <1>5, <3>1, <3>2, <4>1, <4>2, ProgramFacts DEF PlaceInv
    <3>3. CASE taskState[TaskAt] # "running"
      <4>1. at'[1] = at[1] + 1 /\ at'[2] = 0 /\ at'[3] = 0
        BY <2>1, <3>3 DEF EnterTask
      <4> QED
        BY <1>5, <3>1, <4>1, ProgramFacts DEF PlaceInv
    <3> QED
      BY <3>2, <3>3
  <2>2. CASE EnterStep
    <3>1. /\ at[1] \in DOMAIN TaskOrder /\ at[2] \in DOMAIN Program[TaskAt] /\ at[3] = 0
          /\ taskState' = taskState /\ TaskAt \in Tasks
          /\ Len(Program[TaskAt]) \in Nat /\ DOMAIN Program[TaskAt] = 1..Len(Program[TaskAt])
      BY <2>2, ProgramFacts DEF EnterStep, TaskAt
    <3>2. taskState[TaskAt] = "running"
      BY <3>1 DEF PlaceInv
    <3>3. CASE at' = <<at[1], at[2], 1>>
      <4>1. at'[1] = at[1] /\ at'[2] = at[2] /\ at'[3] = 1 /\ TaskAt' = TaskAt
        BY <3>3 DEF TaskAt
      <4>2. <<TaskAt, at[2], 1>> \in Items
        BY <3>1, FirstItem
      <4>3. ItemAt' \in Items
        BY <4>1, <4>2 DEF ItemAt
      <4> QED
        BY <1>5, <3>1, <3>2, <4>1, <4>3 DEF PlaceInv
    <3>4. CASE at' = <<at[1], at[2] + 1, 0>>
      <4>1. at'[1] = at[1] /\ at'[2] = at[2] + 1 /\ at'[3] = 0 /\ TaskAt' = TaskAt
        BY <3>4 DEF TaskAt
      <4> QED
        BY <1>5, <3>1, <3>2, <4>1, ProgramFacts DEF PlaceInv
    <3> QED
      BY <2>2, <3>3, <3>4 DEF EnterStep
  <2>3. CASE EndTask
    <3>1. at'[1] = at[1] + 1 /\ at'[2] = 0 /\ at'[3] = 0 /\ at[1] \in DOMAIN TaskOrder
      BY <2>3 DEF EndTask
    <3> QED
      BY <1>5, <3>1, ProgramFacts DEF PlaceInv
  <2>4. CASE PassItem
    <3>1. at[3] > 0 /\ taskState' = taskState /\ Proceed
      BY <2>4 DEF PassItem
    <3> QED
      BY <1>5, <3>1, PlaceMoves DEF PlaceInv
  <2>5. CASE SetItem \/ EndRun
    <3>1. at[3] > 0 /\ taskState' = taskState /\ Proceed
      BY <2>5 DEF SetItem, EndRun, AtItem
    <3> QED
      BY <1>5, <3>1, PlaceMoves DEF PlaceInv
  <2>6. CASE BeginRun \/ KeepRun
    <3>1. at[3] > 0 /\ taskState' = taskState /\ at' = <<at[1], at[2] + 1, 0>>
      BY <2>6 DEF BeginRun, KeepRun, AtItem, Wait
    <3> QED
      BY <1>5, <3>1, PlaceMoves DEF PlaceInv
  <2>9. CASE Restart
    <3>1. at[3] > 0 /\ at' = <<at[1], at[2] + 1, 0>> /\ at[2] > 0
      BY <2>9 DEF Restart, AtItem, PlaceInv
    <3>2. taskState' = [taskState EXCEPT ![Item(ItemAt).task] = "running"]
      BY <2>9 DEF Restart, ResetTask
    <3>3. taskState'[TaskAt] = "running"
      BY <3>1, <3>2, HereFacts DEF PlaceInv, TypeOK
    <3> QED
      BY <1>5, <3>1, <3>3, PlaceMoves
  <2> QED
    BY <1>5, <2>1, <2>2, <2>3, <2>4, <2>5, <2>6, <2>9
<1>6. CASE CounterMissing
  BY <1>6 DEF CounterMissing, PlaceInv, progVars, TaskAt, ItemAt
<1>7. ASSUME phase = "tasks", at[1] > Len(TaskOrder), phase' = "drivers",
             UNCHANGED <<progVars, reading, at, allDone, gpioVars>>
      PROVE  PlaceInv'
  <2>1. at[1] = Len(TaskOrder) + 1 /\ ~(at[1] \in DOMAIN TaskOrder)
    BY <1>7, ProgramFacts DEF PlaceInv
  <2>2. ~(at[2] > 0)
    BY <2>1 DEF PlaceInv
  <2>3. ~(at[3] > 0)
    BY <2>2 DEF PlaceInv
  <2> QED
    BY <1>7, <2>1, <2>2, <2>3, ProgramFacts DEF PlaceInv
<1>8. CASE UNCHANGED vars
  BY <1>8 DEF PlaceInv, progVars, vars, TaskAt, ItemAt
<1> QED
  BY <1>1, <1>2, <1>5, <1>6, <1>7, <1>8 DEF Next, Loop, Interpret

\* What an action's value was given by, after GiveOne().
LEMMA GivenBy ==
    ASSUME NEW g, NEW v, NEW by, GiveOne(g, v, by)
    PROVE  setBy' = [h \in Gpios |-> IF h = g THEN by ELSE setBy[h]]
BY DEF GiveOne, Give

\* A place in the program is one item and one step.
LEMMA SamePlace ==
    /\ \A a \in Items : a[1] = TaskAt /\ a[2] = at[2] /\ a[3] = at[3] => a = ItemAt
    /\ \A s \in StepIds : s[1] = TaskAt /\ s[2] = at[2] => s = Here
<1>1. ASSUME NEW a \in Items, a[1] = TaskAt, a[2] = at[2], a[3] = at[3] PROVE a = ItemAt
  BY <1>1, ItemFacts DEF ItemAt
<1>2. ASSUME NEW s \in StepIds, s[1] = TaskAt, s[2] = at[2] PROVE s = Here
  BY <1>2, StepFacts DEF Here
<1> QED
  BY <1>1, <1>2


LEMMA RunningStep ==
    ASSUME TypeOK, PlaceInv, PassedInv, RunningInv, [Next]_vars
    PROVE  RunningInv'
<1>1. ASSUME UNCHANGED <<status, stepAge>> PROVE RunningInv'
  BY <1>1 DEF RunningInv, Elapsed
<1>2. ASSUME NEW t \in Tasks, ResetSteps(t) PROVE RunningInv'
  <2>1. \A a \in Items : status'[a] # "idle" => a[1] # t /\ status'[a] = status[a]
    BY <1>2 DEF ResetSteps
  <2>2. \A s \in Timed : s[1] # t => stepAge'[s] = stepAge[s]
    BY <1>2 DEF ResetSteps
  <2>3. \A a \in Items : <<a[1], a[2]>>[1] = a[1]
    OBVIOUS
  <2> QED
    BY <2>1, <2>2, <2>3 DEF RunningInv, Elapsed
<1>3. ASSUME ItemAt \in Items, ~Restarts(ItemAt), UNCHANGED stepAge, status' = [status EXCEPT ![ItemAt] = "done"]
      PROVE  RunningInv'
  <2>1. \A a \in Items : status'[a] = "running" => status[a] = "running"
    BY <1>3 DEF TypeOK
  <2>2. \A a \in Items : a = ItemAt \/ status'[a] = status[a]
    BY <1>3 DEF TypeOK
  <2> QED
    BY <1>3, <2>1, <2>2 DEF RunningInv, Elapsed
<1>4. CASE Command
  BY <1>1, <1>2, <1>4 DEF Command, State, ResetTask, StartTask, PauseTask, Operate
<1>5. CASE Sweep \/ UpdateActions \/ CounterMissing \/ UNCHANGED <<progVars, reading, at, allDone, gpioVars>>
  BY <1>1, <1>5 DEF Sweep, UpdateActions, CounterMissing, progVars
<1>6. CASE Sleep
  <2>1. PICK ms \in LoopMs : stepAge' = Older(ms)
    BY <1>6 DEF Sleep
  <2>2. ASSUME NEW s \in StepIds, Elapsed(s) PROVE Elapsed(s)'
    <3>1. CASE s \in Timed
      <4>1. ms \in Nat /\ Condition(s).ms \in Nat /\ stepAge[s] = Condition(s).ms
        BY <2>2, <3>1, AutomationAssumption DEF Elapsed
      <4>2. stepAge'[s] = IF stepAge[s] + ms < Condition(s).ms THEN stepAge[s] + ms ELSE Condition(s).ms
        BY <2>1, <3>1 DEF Older
      <4> QED
        BY <4>1, <4>2 DEF Elapsed
    <3> QED
      BY <3>1 DEF Elapsed
  <2> QED
    BY <1>6, <2>2, ItemFacts DEF Sleep, RunningInv
<1>7. CASE EnterTask \/ EnterStep \/ PassItem \/ KeepRun
  BY <1>1, <1>7 DEF EnterTask, EnterStep, PassItem, KeepRun, progVars
<1>8. CASE EndTask
  <2>1. TaskAt \in Tasks
    BY <1>8, ProgramFacts DEF EndTask, TaskAt
  <2> QED
    BY <1>1, <1>2, <1>8, <2>1 DEF EndTask
<1>9. CASE SetItem \/ EndRun
  BY <1>3, <1>9, AtItemFacts DEF SetItem, EndRun, Restarts
<1>10. CASE BeginRun
  <2>1. ItemAt \in Items /\ Item(ItemAt).type = "DURATION" /\ at[3] > 0
    BY <1>10, AtItemFacts DEF BeginRun
  <2>2. Elapsed(<<ItemAt[1], ItemAt[2]>>)
    BY <2>1 DEF PassedInv, ItemAt, Here
  <2>3. UNCHANGED stepAge /\ status' = [status EXCEPT ![ItemAt] = "running"]
    BY <1>10 DEF BeginRun
  <2>4. \A a \in Items : a = ItemAt \/ status'[a] = status[a]
    BY <2>1, <2>3 DEF TypeOK
  <2>5. ~Restarts(ItemAt)
    BY <2>1 DEF Restarts
  <2> QED
    BY <2>1, <2>2, <2>3, <2>4, <2>5 DEF RunningInv, Elapsed
<1>11. CASE Restart
  <2>1. Item(ItemAt).task \in Tasks
    BY <1>11, AtItemFacts, ItemTypes DEF Restart
  <2> QED
    BY <1>2, <1>11, <2>1 DEF Restart, ResetTask
<1> QED
  BY <1>1, <1>4, <1>5, <1>6, <1>7, <1>8, <1>9, <1>10, <1>11 DEF Next, Loop, Interpret, vars, progVars

LEMMA OwnedStep ==
    ASSUME TypeOK, PlaceInv, RunningInv, RunsAreOwned, [Next]_vars
    PROVE  RunsAreOwned'
<1>1. ASSUME UNCHANGED <<status, setBy>> PROVE RunsAreOwned'
  BY <1>1 DEF RunsAreOwned
<1>2. ASSUME NEW t \in Tasks, ResetSteps(t) PROVE RunsAreOwned'
  <2> SUFFICES ASSUME NEW g \in Gpios, setBy'[g] = "run"
               PROVE  \E a \in Items : status'[a] = "running" /\ Item(a).command = g
    BY DEF RunsAreOwned
  <2>1. g \notin RunBy(t) /\ setBy[g] = "run"
    BY <1>2, ResetTypes
  <2>2. PICK a \in Items : status[a] = "running" /\ Item(a).command = g
    BY <2>1 DEF RunsAreOwned
  <2>3. a[1] # t
    BY <2>1, <2>2 DEF RunBy
  <2>4. status'[a] = "running"
    BY <1>2, <2>2, <2>3 DEF ResetSteps
  <2> QED
    BY <2>2, <2>4
<1>3. ASSUME NEW g \in Gpios, NEW by \in {"start", "other"}, UNCHANGED status,
             setBy' = [h \in Gpios |-> IF h = g THEN by ELSE setBy[h]]
      PROVE  RunsAreOwned'
  BY <1>3 DEF RunsAreOwned
<1>4. CASE Command
  <2>1. ASSUME NEW g \in Gpios, Operate(g) PROVE RunsAreOwned'
    <3>1. CASE \E v \in SetTo : GiveOne(g, v, "other")
      BY <1>3, <2>1, <3>1, GivenBy DEF Operate
    <3>2. CASE StopGpio(g) /\ setBy' = [setBy EXCEPT ![g] = "start"]
      <4>1. setBy' = [h \in Gpios |-> IF h = g THEN "start" ELSE setBy[h]]
        BY <3>2 DEF TypeOK
      <4> QED
        BY <1>3, <2>1, <4>1 DEF Operate
    <3>3. CASE ReinitGpio(g) /\ UNCHANGED setBy
      BY <1>1, <2>1, <3>3 DEF Operate
    <3> QED
      BY <2>1, <3>1, <3>2, <3>3 DEF Operate
  <2> QED
    BY <1>1, <1>2, <1>4, <2>1 DEF Command, State, ResetTask, StartTask, PauseTask
<1>5. CASE Sweep \/ UpdateActions \/ Sleep \/ CounterMissing
           \/ UNCHANGED <<progVars, reading, at, allDone, gpioVars>>
  BY <1>1, <1>5 DEF Sweep, UpdateActions, Sleep, CounterMissing, progVars
<1>6. CASE EnterTask \/ EnterStep \/ PassItem \/ KeepRun
  BY <1>1, <1>6 DEF EnterTask, EnterStep, PassItem, KeepRun, progVars
<1>7. CASE EndTask
  <2>1. TaskAt \in Tasks
    BY <1>7, ProgramFacts DEF EndTask, TaskAt
  <2> QED
    BY <1>1, <1>2, <1>7, <2>1 DEF EndTask
<1>8. CASE SetItem
  <2>1. ItemAt \in Items /\ Item(ItemAt).type # "DURATION"
    BY <1>8, AtItemFacts DEF SetItem
  <2>2. setBy' = [h \in Gpios |-> IF h = Item(ItemAt).command THEN "other" ELSE setBy[h]]
    BY <1>8, GivenBy DEF SetItem
  <2>3. \A a \in Items : status[a] = "running" => status'[a] = "running"
    BY <1>8, <2>1 DEF SetItem, TypeOK, RunningInv
  <2> QED
    BY <2>2, <2>3 DEF RunsAreOwned
<1>9. CASE BeginRun
  <2>1. ItemAt \in Items
    BY <1>9, AtItemFacts DEF BeginRun
  <2>2. setBy' = [h \in Gpios |-> IF h = Item(ItemAt).command THEN "run" ELSE setBy[h]]
    BY <1>9, GivenBy DEF BeginRun
  <2>3. status'[ItemAt] = "running" /\ \A a \in Items : status[a] = "running" => status'[a] = "running"
    BY <1>9, <2>1 DEF BeginRun, TypeOK
  <2> QED
    BY <2>1, <2>2, <2>3 DEF RunsAreOwned
<1>10. CASE EndRun
  <2>1. ItemAt \in Items
    BY <1>10, AtItemFacts DEF EndRun
  <2>2. setBy' = [h \in Gpios |-> IF h = Item(ItemAt).command THEN "start" ELSE setBy[h]]
    BY <1>10, GivenBy DEF EndRun
  <2>3. \A a \in Items : status[a] = "running" /\ a # ItemAt => status'[a] = "running"
    BY <1>10, <2>1 DEF EndRun, TypeOK
  <2> QED
    BY <2>2, <2>3 DEF RunsAreOwned
<1>11. CASE Restart
  <2>1. Item(ItemAt).task \in Tasks
    BY <1>11, AtItemFacts, ItemTypes DEF Restart
  <2> QED
    BY <1>2, <1>11, <2>1 DEF Restart, ResetTask
<1> QED
  BY <1>1, <1>4, <1>5, <1>6, <1>7, <1>8, <1>9, <1>10, <1>11 DEF Next, Loop, Interpret, vars, progVars

LEMMA FreshStep ==
    ASSUME TypeOK, PlaceInv, StoppedIsFresh, [Next]_vars
    PROVE  StoppedIsFresh'
<1> DEFINE Fresh(t) ==
        /\ \A s \in StepIds : s[1] = t => ~stepDone[s] /\ (s \in Differing => lowest[s] = None)
        /\ \A a \in Items : a[1] = t => status[a] = "idle"
<1>1. ASSUME UNCHANGED <<taskState, stepDone, lowest, status>> PROVE StoppedIsFresh'
  BY <1>1 DEF StoppedIsFresh
<1>2. ASSUME NEW t \in Tasks, ResetSteps(t), \A u \in Tasks : u # t => taskState'[u] = taskState[u]
      PROVE  StoppedIsFresh'
  <2>1. ASSUME NEW u \in Tasks, u # t, Fresh(u) PROVE Fresh(u)'
    BY <1>2, <2>1 DEF ResetSteps
  <2>2. Fresh(t)'
    BY <1>2 DEF ResetSteps
  <2>3. \A u \in Tasks : u # t /\ taskState'[u] = "stopped" => Fresh(u)
    BY <1>2 DEF StoppedIsFresh
  <2>4. \A u \in Tasks : taskState'[u] = "stopped" => Fresh(u)'
    BY <2>1, <2>2, <2>3
  <2> QED
    BY <2>4 DEF StoppedIsFresh
<1>3. ASSUME TaskAt \in Tasks, taskState[TaskAt] = "running", UNCHANGED taskState,
             \A s \in StepIds : s[1] # TaskAt => stepDone'[s] = stepDone[s],
             \A s \in Differing : s[1] # TaskAt => lowest'[s] = lowest[s],
             \A a \in Items : a[1] # TaskAt => status'[a] = status[a]
      PROVE  StoppedIsFresh'
  <2>1. ASSUME NEW u \in Tasks, u # TaskAt, Fresh(u) PROVE Fresh(u)'
    BY <1>3, <2>1
  <2>2. \A u \in Tasks : taskState'[u] = "stopped" => u # TaskAt /\ Fresh(u)
    BY <1>3 DEF StoppedIsFresh
  <2>3. \A u \in Tasks : taskState'[u] = "stopped" => Fresh(u)'
    BY <2>1, <2>2
  <2> QED
    BY <2>3 DEF StoppedIsFresh
<1>4. CASE Command
  <2>1. ASSUME NEW t \in Tasks, ResetTask(t, "stopped") PROVE StoppedIsFresh'
    BY <1>2, <2>1 DEF ResetTask, TypeOK
  <2>2. ASSUME NEW t \in Tasks, StartTask(t) \/ PauseTask(t) PROVE StoppedIsFresh'
    <3>1. \A u \in Tasks : taskState'[u] = "stopped" => taskState[u] = "stopped"
      BY <2>2 DEF StartTask, PauseTask, TypeOK
    <3> QED
      BY <2>2, <3>1 DEF StartTask, PauseTask, StoppedIsFresh
  <2>3. ASSUME NEW g \in Gpios, Operate(g) PROVE StoppedIsFresh'
    BY <1>1, <2>3 DEF Operate
  <2> QED
    BY <1>4, <2>1, <2>2, <2>3 DEF Command, State
<1>5. CASE Sweep \/ UpdateActions \/ Sleep \/ CounterMissing \/ EnterTask \/ KeepRun
           \/ UNCHANGED <<progVars, reading, at, allDone, gpioVars>>
  BY <1>1, <1>5 DEF Sweep, UpdateActions, Sleep, CounterMissing, EnterTask, KeepRun, Wait, progVars
<1>6. CASE EnterStep
  <2>1. at[2] > 0
    <3>1. at[1] \in DOMAIN TaskOrder /\ at[2] \in DOMAIN Program[TaskAt]
      BY <1>6 DEF EnterStep
    <3> QED
      BY <3>1, ProgramFacts DEF TaskAt
  <2>2. TaskAt \in Tasks /\ taskState[TaskAt] = "running" /\ Here[1] = TaskAt
    BY <2>1, HereFacts DEF PlaceInv, Here
  <2> QED
    BY <1>3, <1>6, <2>2 DEF EnterStep
<1>7. CASE EndTask
  <2>1. TaskAt \in Tasks
    BY <1>7, ProgramFacts DEF EndTask, TaskAt
  <2> QED
    BY <1>1, <1>2, <1>7, <2>1 DEF EndTask, TypeOK
<1>8. CASE PassItem \/ SetItem \/ BeginRun \/ EndRun
  <2>1. at[3] > 0
    BY <1>8 DEF PassItem, SetItem, BeginRun, EndRun, AtItem
  <2>2. at[2] > 0 /\ taskState[TaskAt] = "running"
    BY <2>1 DEF PlaceInv
  <2>3. TaskAt \in Tasks /\ Here[1] = TaskAt /\ ItemAt[1] = TaskAt
    BY <2>1, <2>2, HereFacts
  <2>4. UNCHANGED <<taskState, lowest>>
    BY <1>8 DEF PassItem, SetItem, BeginRun, EndRun
  <2>5. \A a \in Items : a[1] # TaskAt => status'[a] = status[a]
    BY <1>8, <2>3 DEF PassItem, SetItem, BeginRun, EndRun, TypeOK
  <2>6. \A s \in StepIds : s[1] # TaskAt => stepDone'[s] = stepDone[s]
    BY <1>8, <2>3 DEF PassItem, SetItem, BeginRun, EndRun, Wait, Proceed, TypeOK
  <2> QED
    BY <1>3, <2>2, <2>3, <2>4, <2>5, <2>6
<1>9. CASE Restart
  <2>1. Item(ItemAt).task \in Tasks
    BY <1>9, AtItemFacts, ItemTypes DEF Restart
  <2> QED
    BY <1>2, <1>9, <2>1 DEF Restart, ResetTask, TypeOK
<1> QED
  BY <1>1, <1>4, <1>5, <1>6, <1>7, <1>8, <1>9 DEF Next, Loop, Interpret, vars, progVars

LEMMA OrderStep ==
    ASSUME TypeOK, PlaceInv, PassedInv, ItemsInOrder, [Next]_vars
    PROVE  ItemsInOrder'
<1>1. ASSUME UNCHANGED <<stepDone, status>> PROVE ItemsInOrder'
  BY <1>1 DEF ItemsInOrder
<1>2. ASSUME NEW t, ResetSteps(t) PROVE ItemsInOrder'
  <2>1. \A a \in Items : status'[a] = IF a[1] = t THEN "idle" ELSE status[a]
    BY <1>2 DEF ResetSteps
  <2>2. \A a \in Items : stepDone'[<<a[1], a[2]>>] => a[1] # t /\ stepDone[<<a[1], a[2]>>]
    BY <1>2, ItemFacts DEF ResetSteps
  <2> QED
    BY <2>1, <2>2 DEF ItemsInOrder
\* The item the interpreter is at begins, or ends, or was done; its step is
\* completed with the last item.
<1>3. ASSUME at[3] > 0, ItemAt \in Items,
             \A a \in Items : a # ItemAt => status'[a] = status[a],
             status[ItemAt] = "done" => status'[ItemAt] = "done",
             \A s \in StepIds : stepDone'[s] => \/ stepDone[s]
                 \/ /\ s = Here /\ at[3] = Len(Program[TaskAt][at[2]].items)
                    /\ status'[ItemAt] = "done"
      PROVE  ItemsInOrder'
  <2>1. /\ ItemAt[1] = TaskAt /\ ItemAt[2] = at[2] /\ ItemAt[3] = at[3] /\ at[2] > 0
        /\ at[3] \in Nat
    BY <1>3, HereFacts DEF PlaceInv
  <2>2. ASSUME NEW a \in Items, status[a] = "done" PROVE status'[a] = "done"
    BY <1>3, <2>2
  <2>3. ASSUME NEW a \in Items, NEW b \in Items,
               a[1] = b[1], a[2] = b[2], a[3] < b[3], status'[b] # "idle"
        PROVE  status'[a] = "done"
    <3>1. CASE b = ItemAt
      <4>1. status[a] = "done"
        BY <1>3, <2>1, <2>3, <3>1 DEF PassedInv
      <4> QED
        BY <2>2, <4>1
    <3>2. CASE b # ItemAt
      <4>1. status[a] = "done"
        BY <1>3, <2>3, <3>2 DEF ItemsInOrder
      <4> QED
        BY <2>2, <4>1
    <3> QED
      BY <3>1, <3>2
  <2>4. ASSUME NEW a \in Items, stepDone'[<<a[1], a[2]>>] PROVE status'[a] = "done"
    <3>1. CASE stepDone[<<a[1], a[2]>>]
      BY <2>2, <3>1 DEF ItemsInOrder
    <3>2. CASE /\ <<a[1], a[2]>> = Here /\ at[3] = Len(Program[TaskAt][at[2]].items)
               /\ status'[ItemAt] = "done"
      <4>1. a[1] = TaskAt /\ a[2] = at[2]
        BY <3>2 DEF Here
      <4>2. TaskAt \in Tasks /\ at[2] \in DOMAIN Program[TaskAt]
        BY <4>1, ItemFacts
      <4>3. a[3] \in 1..at[3]
        BY <3>2, <4>1, <4>2, ItemFacts, ProgramFacts
      <4>4. CASE a[3] = at[3]
        BY <3>2, <4>1, <4>4, SamePlace
      <4>5. CASE a[3] < at[3]
        BY <1>3, <2>2, <4>1, <4>5 DEF PassedInv
      <4> QED
        BY <2>1, <4>3, <4>4, <4>5
    <3> QED
      BY <1>3, <2>4, <3>1, <3>2, ItemFacts
  <2> QED
    BY <2>3, <2>4 DEF ItemsInOrder
<1>4. CASE Command
  BY <1>1, <1>2, <1>4 DEF Command, State, ResetTask, StartTask, PauseTask, Operate
<1>5. CASE Sweep \/ UpdateActions \/ Sleep \/ CounterMissing \/ EnterTask \/ EnterStep \/ KeepRun
           \/ UNCHANGED <<progVars, reading, at, allDone, gpioVars>>
  BY <1>1, <1>5 DEF Sweep, UpdateActions, Sleep, CounterMissing, EnterTask, EnterStep, KeepRun, Wait, progVars
<1>6. CASE EndTask
  BY <1>1, <1>2, <1>6 DEF EndTask
<1>7. CASE PassItem \/ SetItem \/ BeginRun \/ EndRun
  <2>1. at[3] > 0 /\ at[2] > 0 /\ ItemAt \in Items
    BY <1>7 DEF PassItem, SetItem, BeginRun, EndRun, AtItem, PlaceInv
  <2>2. \A a \in Items : a # ItemAt => status'[a] = status[a]
    BY <1>7, <2>1 DEF PassItem, SetItem, BeginRun, EndRun, TypeOK
  <2>3. status[ItemAt] = "done" => status'[ItemAt] = "done"
    BY <1>7, <2>1 DEF PassItem, SetItem, BeginRun, EndRun, TypeOK
  <2>4. \A s \in StepIds : stepDone'[s] => \/ stepDone[s]
            \/ /\ s = Here /\ at[3] = Len(Program[TaskAt][at[2]].items)
               /\ status'[ItemAt] = "done"
    <3>1. CASE BeginRun
      BY <3>1 DEF BeginRun, Wait
    <3>2. CASE PassItem \/ SetItem \/ EndRun
      <4>1. status'[ItemAt] = "done" /\ Proceed
        BY <3>2, <2>1 DEF PassItem, SetItem, EndRun, TypeOK
      <4> QED
        BY <4>1 DEF Proceed, TypeOK
    <3> QED
      BY <1>7, <3>1, <3>2
  <2> QED
    BY <1>3, <2>1, <2>2, <2>3, <2>4
<1>8. CASE Restart
  BY <1>2, <1>8 DEF Restart, ResetTask
<1> QED
  BY <1>1, <1>4, <1>5, <1>6, <1>7, <1>8 DEF Next, Loop, Interpret, vars, progVars

LEMMA PassedStep ==
    ASSUME TypeOK, PlaceInv, PassedInv, [Next]_vars
    PROVE  PassedInv'
<1>1. ASSUME ~(at'[2] > 0), ~(at'[3] > 0) PROVE PassedInv'
  BY <1>1 DEF PassedInv
<1>2. ASSUME ~allDone', ~(at'[3] > 0) PROVE PassedInv'
  BY <1>2 DEF PassedInv
<1>3. ASSUME UNCHANGED <<progVars, at, allDone>> PROVE PassedInv'
  BY <1>3 DEF PassedInv, TaskAt, Here, Elapsed, progVars
<1>4. CASE Command \/ Sweep \/ UpdateActions \/ Sleep
  <2>1. at' = <<1, 0, 0>>
    BY <1>4 DEF Command, Sweep, UpdateActions, Sleep, PlaceInv
  <2>2. ~(at'[2] > 0) /\ ~(at'[3] > 0)
    BY <2>1
  <2> QED
    BY <1>1, <2>2
<1>5. CASE CounterMissing \/ UNCHANGED <<progVars, reading, at, allDone, gpioVars>> \/ UNCHANGED vars
  BY <1>3, <1>5 DEF CounterMissing, vars
<1>6. CASE EnterTask
  <2>1. CASE at' = <<at[1], 1, 0>>
    <3>1. at'[2] = 1 /\ ~(at'[3] > 0)
      BY <2>1
    <3>2. \A s \in StepIds : ~(s[2] < 1)
      BY StepFacts, ProgramFacts
    <3> QED
      BY <3>1, <3>2 DEF PassedInv
  <2>2. CASE at' = <<at[1] + 1, 0, 0>>
    <3>1. ~(at'[2] > 0) /\ ~(at'[3] > 0)
      BY <2>2
    <3> QED
      BY <1>1, <3>1
  <2> QED
    BY <1>6, <2>1, <2>2 DEF EnterTask
<1>7. CASE EnterStep
  <2>1. /\ at[1] \in DOMAIN TaskOrder /\ at[2] \in DOMAIN Program[TaskAt] /\ TaskAt \in Tasks
        /\ UNCHANGED <<stepDone, stepAge, status>>
    BY <1>7, ProgramFacts DEF EnterStep, TaskAt
  <2>2. at[2] > 0 /\ at[2] \in Nat
    BY <2>1, ProgramFacts
  <2>3. Here \in StepIds
    BY <2>1, <2>2, HereFacts
  <2>4. CASE Enters(Here) /\ at' = <<at[1], at[2], 1>> /\ UNCHANGED allDone
    <3>1. at'[1] = at[1] /\ at'[2] = at[2] /\ at'[3] = 1 /\ TaskAt' = TaskAt /\ Here' = Here
      BY <2>4 DEF TaskAt, Here
    <3>2. Elapsed(Here)
      <4>1. CASE Here \in Timed
        <5>1. stepAge[Here] >= Condition(Here).ms
          BY <2>4, <4>1 DEF Enters, Holds, Timed
        <5>2. Condition(Here).ms \in Nat /\ stepAge[Here] \in 0..Condition(Here).ms
          BY <4>1, AutomationAssumption DEF TypeOK
        <5> QED
          BY <5>1, <5>2 DEF Elapsed
      <4> QED
        BY <4>1 DEF Elapsed
    <3>3. \A a \in Items : ~(a[3] < 1)
      BY ItemPlaces
    <3> QED
      BY <2>1, <2>2, <2>4, <3>1, <3>2, <3>3 DEF PassedInv, Elapsed
  <2>5. CASE at' = <<at[1], at[2] + 1, 0>> /\ allDone' = (allDone /\ stepDone[Here])
    <3>1. at'[1] = at[1] /\ at'[2] = at[2] + 1 /\ ~(at'[3] > 0) /\ TaskAt' = TaskAt
      BY <2>5 DEF TaskAt
    <3>2. ASSUME allDone', NEW s \in StepIds, s[1] = TaskAt, s[2] < at[2] + 1
          PROVE  stepDone'[s]
      <4>1. allDone /\ stepDone[Here]
        BY <2>5, <3>2
      <4>2. s[2] \in Nat
        BY StepFacts, ProgramFacts
      <4>3. CASE s[2] = at[2]
        BY <2>1, <3>2, <4>1, <4>3, SamePlace
      <4>4. CASE s[2] < at[2]
        BY <2>1, <2>2, <3>2, <4>1, <4>4 DEF PassedInv
      <4> QED
        BY <2>2, <3>2, <4>2, <4>3, <4>4
    <3> QED
      BY <3>1, <3>2 DEF PassedInv
  <2> QED
    BY <1>7, <2>4, <2>5 DEF EnterStep
<1>8. CASE EndTask
  <2>1. ~(at'[2] > 0) /\ ~(at'[3] > 0)
    BY <1>8 DEF EndTask
  <2> QED
    BY <1>1, <2>1
<1>9. CASE BeginRun \/ KeepRun \/ Restart
  <2>1. ~allDone' /\ ~(at'[3] > 0)
    BY <1>9 DEF BeginRun, KeepRun, Restart, Wait
  <2> QED
    BY <1>2, <2>1
<1>10. CASE PassItem \/ SetItem \/ EndRun
  <2>1. at[3] > 0 /\ at[2] > 0 /\ ItemAt \in Items /\ at[3] \in Nat /\ at[2] \in Nat
    BY <1>10 DEF PassItem, SetItem, EndRun, AtItem, PlaceInv, TypeOK
  <2>2. UNCHANGED <<stepAge, allDone>> /\ status'[ItemAt] = "done" /\ Proceed
        /\ \A a \in Items : status[a] = "done" => status'[a] = "done"
    BY <1>10, <2>1 DEF PassItem, SetItem, EndRun, TypeOK
  <2>3. Here \in StepIds
    BY <2>1, HereFacts
  <2>4. CASE at' = <<at[1], at[2] + 1, 0>> /\ stepDone' = [stepDone EXCEPT ![Here] = TRUE]
    <3>1. at'[1] = at[1] /\ at'[2] = at[2] + 1 /\ ~(at'[3] > 0) /\ TaskAt' = TaskAt
      BY <2>4 DEF TaskAt
    <3>2. ASSUME allDone', NEW s \in StepIds, s[1] = TaskAt, s[2] < at[2] + 1
          PROVE  stepDone'[s]
      <4>1. s[2] \in Nat
        BY StepFacts, ProgramFacts
      <4>2. CASE s = Here
        BY <2>3, <2>4, <4>2 DEF TypeOK
      <4>3. CASE s # Here
        <5>1. s[2] < at[2]
          BY <2>1, <3>2, <4>1, <4>3, SamePlace
        <5>2. stepDone[s]
          BY <2>1, <2>2, <3>2, <5>1 DEF PassedInv
        <5> QED
          BY <2>4, <4>3, <5>2 DEF TypeOK
      <4> QED
        BY <4>2, <4>3
    <3> QED
      BY <3>1, <3>2 DEF PassedInv
  <2>5. CASE at' = <<at[1], at[2], at[3] + 1>> /\ UNCHANGED stepDone
    <3>1. at'[1] = at[1] /\ at'[2] = at[2] /\ at'[3] = at[3] + 1 /\ TaskAt' = TaskAt /\ Here' = Here
      BY <2>5 DEF TaskAt, Here
    <3>2. ASSUME NEW a \in Items, a[1] = TaskAt, a[2] = at[2], a[3] < at[3] + 1
          PROVE  status'[a] = "done"
      <4>1. a[3] \in Nat
        BY ItemPlaces
      <4>2. CASE a[3] = at[3]
        BY <2>2, <3>2, <4>2, SamePlace
      <4>3. CASE a[3] < at[3]
        BY <2>1, <2>2, <3>2, <4>3 DEF PassedInv
      <4> QED
        BY <2>1, <3>2, <4>1, <4>2, <4>3
    <3>3. Elapsed(Here)'
      BY <2>1, <2>2, <3>1 DEF PassedInv, Elapsed
    <3>4. allDone' => \A s \in StepIds : s[1] = TaskAt /\ s[2] < at[2] => stepDone'[s]
      BY <2>1, <2>2, <2>5 DEF PassedInv
    <3> QED
      BY <3>1, <3>2, <3>3, <3>4 DEF PassedInv
  <2> QED
    BY <2>2, <2>4, <2>5 DEF Proceed
<1> QED
  BY <1>4, <1>5, <1>6, <1>7, <1>8, <1>9, <1>10 DEF Next, Loop, Interpret

\* The steps the interpreter has passed when it goes on to the next step.
LEMMA PassedNext ==
    ASSUME TypeOK, PlaceInv, at[2] > 0, NEW s \in StepIds,
           at' = <<at[1], at[2] + 1, 0>>, Passed(s)'
    PROVE  Passed(s) \/ s = Here
<1>1. at'[1] = at[1] /\ at'[2] = at[2] + 1 /\ at[1] \in Nat /\ at[2] \in Nat
  BY DEF TypeOK
<1>2. PICK k \in DOMAIN TaskOrder :
        TaskOrder[k] = s[1] /\ (k < at[1] \/ (k = at[1] /\ s[2] < at[2] + 1))
  BY <1>1 DEF Passed
<1>3. k \in Nat /\ s[2] \in Nat
  BY StepFacts, ProgramFacts
<1>4. CASE k < at[1] \/ (k = at[1] /\ s[2] < at[2])
  BY <1>2, <1>4 DEF Passed
<1>5. CASE k = at[1] /\ s[2] = at[2]
  BY <1>2, <1>5, SamePlace DEF TaskAt
<1> QED
  BY <1>1, <1>2, <1>3, <1>4, <1>5

\* Of the items of a step only the one the interpreter is at can be running.
LEMMA OnlyHereRuns ==
    ASSUME TypeOK, PlaceInv, PassedInv, ItemsInOrder, at[3] > 0, status[ItemAt] # "done",
           NEW a \in Items, a # ItemAt, <<a[1], a[2]>> = Here
    PROVE  status[a] # "running"
<1>1. at[2] > 0
  BY DEF PlaceInv
<1>2. /\ a[1] = TaskAt /\ a[2] = at[2] /\ at[3] \in Nat /\ a[3] \in Nat /\ ItemAt \in Items
      /\ ItemAt[1] = TaskAt /\ ItemAt[2] = at[2] /\ ItemAt[3] = at[3]
  BY <1>1, HereFacts, ItemPlaces DEF Here
<1>3. CASE a[3] < at[3]
  BY <1>2, <1>3 DEF PassedInv
<1>4. CASE at[3] < a[3]
  BY <1>2, <1>4 DEF ItemsInOrder
<1>5. CASE a[3] = at[3]
  BY <1>2, <1>5, SamePlace
<1> QED
  BY <1>2, <1>3, <1>4, <1>5

\* A timed step whose time has come.
LEMMA TimedHolds ==
    ASSUME NEW s \in Timed, stepAge[s] = Condition(s).ms
    PROVE  Holds(s)
<1>1. Condition(s).ms \in Nat /\ Condition(s).type = "TIME"
  BY AutomationAssumption DEF Timed
<1> QED
  BY <1>1 DEF Holds

LEMMA OverrunStep ==
    ASSUME TypeOK, PlaceInv, PassedInv, RunningInv, OverrunInv, ItemsInOrder, ItemsInOrder',
           [Next]_vars
    PROVE  OverrunInv'
<1> SUFFICES ASSUME NEW a \in Items, status'[a] = "running", taskState'[a[1]] = "running",
                    Passed(<<a[1], a[2]>>)', Condition(<<a[1], a[2]>>).type \in {"IMMEDIATE", "TIME"}
             PROVE  left'[a] > 0
  BY DEF OverrunInv
<1> DEFINE s == <<a[1], a[2]>>
<1>1. s \in StepIds /\ s[1] = a[1] /\ s[2] = a[2] /\ a[1] \in Tasks /\ a[2] \in Nat \ {0}
      /\ a[2] <= Len(Program[a[1]]) /\ Len(Program[a[1]]) \in Nat
  <2>1. a[1] \in Tasks /\ a[2] \in DOMAIN Program[a[1]] /\ s \in StepIds
    BY ItemFacts
  <2>2. Len(Program[a[1]]) \in Nat /\ a[2] \in 1..Len(Program[a[1]])
    BY <2>1, ProgramFacts
  <2> QED
    BY <2>1, <2>2
\* Nothing happens to an item of a step that was passed before.
<1>2. ASSUME status[a] = "running", taskState[a[1]] = "running", Passed(s), left'[a] = left[a]
      PROVE  left'[a] > 0
  BY <1>2 DEF OverrunInv
<1>3. ASSUME UNCHANGED <<status, taskState, left, at>> PROVE left'[a] > 0
  BY <1>2, <1>3 DEF Passed
<1>4. CASE Command \/ Sweep \/ UpdateActions \/ Sleep
  <2>1. at' = <<1, 0, 0>>
    BY <1>4 DEF Command, Sweep, UpdateActions, Sleep, PlaceInv
  <2>2. at'[1] = 1 /\ at'[2] = 0
    BY <2>1
  <2>3. ~Passed(s)'
    BY <1>1, <2>2, ProgramFacts DEF Passed
  <2> QED
    BY <2>3
<1>5. CASE CounterMissing \/ UNCHANGED <<progVars, reading, at, allDone, gpioVars>> \/ UNCHANGED vars
  BY <1>3, <1>5 DEF CounterMissing, vars, progVars
<1>6. CASE EnterTask
  <2>1. UNCHANGED <<status, taskState, left>> /\ at[1] \in DOMAIN TaskOrder
    BY <1>6 DEF EnterTask, progVars
  <2>2. PICK k \in DOMAIN TaskOrder :
          TaskOrder[k] = a[1] /\ (k < at'[1] \/ (k = at'[1] /\ a[2] < at'[2]))
    BY <1>1 DEF Passed
  <2>3. k < at[1]
    <3>1. CASE at' = <<at[1], 1, 0>>
      <4>1. at'[1] = at[1] /\ at'[2] = 1
        BY <3>1
      <4> QED
        BY <1>1, <2>2, <4>1
    <3>2. CASE at' = <<at[1] + 1, 0, 0>> /\ taskState[TaskAt] # "running"
      <4>1. at'[1] = at[1] + 1 /\ at'[2] = 0
        BY <3>2
      <4>2. k # at[1]
        BY <2>1, <2>2, <3>2 DEF TaskAt
      <4> QED
        BY <1>1, <2>1, <2>2, <4>1, <4>2, ProgramFacts
    <3> QED
      BY <1>6, <3>1, <3>2 DEF EnterTask
  <2>4. Passed(s)
    BY <1>1, <2>2, <2>3 DEF Passed
  <2> QED
    BY <1>2, <2>1, <2>4
<1>7. CASE EnterStep
  <2>1. UNCHANGED <<status, taskState, left>> /\ at[1] \in DOMAIN TaskOrder
        /\ at[2] \in DOMAIN Program[TaskAt]
    BY <1>7 DEF EnterStep
  <2>2. at[2] > 0
    BY <2>1, ProgramFacts DEF TaskAt
  <2>3. CASE at' = <<at[1], at[2], 1>>
    <3>1. at'[1] = at[1] /\ at'[2] = at[2]
      BY <2>3
    <3>2. Passed(s)
      BY <3>1 DEF Passed
    <3> QED
      BY <1>2, <2>1, <3>2
  <2>4. CASE ~Enters(Here) /\ at' = <<at[1], at[2] + 1, 0>>
    <3>1. s # Here
      <4> SUFFICES ASSUME s = Here PROVE FALSE
        OBVIOUS
      <4>1. ~stepDone[s]
        BY <2>1 DEF ItemsInOrder
      <4>2. ~Holds(s)
        BY <2>4, <4>1 DEF Enters
      <4>3. Condition(s).type # "IMMEDIATE"
        BY <4>2 DEF Holds
      <4>4. s \in Timed
        BY <1>1, <4>3 DEF Timed
      <4>5. stepAge[s] = Condition(s).ms
        BY <2>1, <4>4 DEF RunningInv, Elapsed
      <4> QED
        BY <4>2, <4>4, <4>5, TimedHolds
    <3> QED
      BY <1>1, <1>2, <2>1, <2>2, <2>4, <3>1, PassedNext
  <2> QED
    BY <1>7, <2>3, <2>4 DEF EnterStep
<1>8. CASE EndTask
  <2>1. at[1] \in DOMAIN TaskOrder /\ at[2] = Len(Program[TaskAt]) + 1
        /\ at'[1] = at[1] + 1 /\ at'[2] = 0
    BY <1>8 DEF EndTask
  <2>2. PICK k \in DOMAIN TaskOrder : TaskOrder[k] = a[1] /\ k < at[1] + 1
    BY <1>1, <2>1 DEF Passed
  <2>3. k < at[1] \/ (k = at[1] /\ a[2] < at[2])
    <3>1. k = at[1] => Len(Program[TaskAt]) = Len(Program[a[1]])
      BY <2>2 DEF TaskAt
    <3> QED
      BY <1>1, <2>1, <2>2, <3>1, ProgramFacts
  <2>4. Passed(s)
    BY <1>1, <2>2, <2>3 DEF Passed
  <2>5. CASE allDone
    <3>1. ResetSteps(TaskAt) /\ taskState' = [taskState EXCEPT ![TaskAt] = "stopped"]
      BY <1>8, <2>5 DEF EndTask
    <3>2. a[1] # TaskAt /\ status[a] = "running" /\ left'[a] = left[a]
      BY <3>1 DEF ResetSteps
    <3>3. taskState[a[1]] = "running"
      BY <1>1, <3>1, <3>2 DEF TypeOK
    <3> QED
      BY <1>2, <2>4, <3>2, <3>3
  <2>6. CASE ~allDone
    BY <1>2, <1>8, <2>4, <2>6 DEF EndTask
  <2> QED
    BY <2>5, <2>6
<1>9. CASE PassItem \/ SetItem \/ EndRun
  <2>1. at[3] > 0 /\ at[2] > 0 /\ ItemAt \in Items
    BY <1>9 DEF PassItem, SetItem, EndRun, AtItem, PlaceInv
  <2>2. UNCHANGED <<left, taskState>> /\ status[a] = "running" /\ Proceed
    BY <1>9, <2>1 DEF PassItem, SetItem, EndRun, TypeOK
  <2>3. Passed(s)
    <3>1. CASE at' = <<at[1], at[2] + 1, 0>> /\ stepDone' = [stepDone EXCEPT ![Here] = TRUE]
      <4>1. Here \in StepIds
        BY <2>1, HereFacts
      <4>2. s # Here
        BY <3>1, <4>1 DEF TypeOK, ItemsInOrder
      <4> QED
        BY <1>1, <2>1, <3>1, <4>2, PassedNext
    <3>2. CASE at' = <<at[1], at[2], at[3] + 1>>
      <4>1. at'[1] = at[1] /\ at'[2] = at[2]
        BY <3>2
      <4> QED
        BY <4>1 DEF Passed
    <3> QED
      BY <2>2, <3>1, <3>2 DEF Proceed
  <2> QED
    BY <1>2, <2>2, <2>3
<1>10. CASE BeginRun \/ KeepRun
  <2>1. /\ at[3] > 0 /\ at[2] > 0 /\ ItemAt \in Items /\ status[ItemAt] # "done"
        /\ Item(ItemAt).type = "DURATION" /\ UNCHANGED taskState /\ at' = <<at[1], at[2] + 1, 0>>
    BY <1>10, AtItemFacts DEF BeginRun, KeepRun, Wait, Runs
  <2>2. CASE a = ItemAt
    <3>1. CASE BeginRun
      <4>1. Item(ItemAt).ms \in Nat \ {0}
        BY <2>1, ItemTypes
      <4> QED
        BY <2>1, <2>2, <3>1, <4>1 DEF BeginRun, TypeOK
    <3>2. CASE KeepRun
      BY <2>2, <3>2 DEF KeepRun, Runs
    <3> QED
      BY <1>10, <3>1, <3>2
  <2>3. CASE a # ItemAt
    <3>1. status[a] = "running" /\ left'[a] = left[a]
      BY <1>10, <2>1, <2>3 DEF BeginRun, KeepRun, TypeOK
    <3>2. s # Here
      BY <2>1, <2>3, <3>1, OnlyHereRuns
    <3> QED
      BY <1>1, <1>2, <2>1, <3>1, <3>2, PassedNext
  <2> QED
    BY <2>2, <2>3
<1>11. CASE Restart
  <2>1. /\ at[3] > 0 /\ at[2] > 0 /\ ItemAt \in Items /\ Restarts(ItemAt)
        /\ at' = <<at[1], at[2] + 1, 0>>
    BY <1>11, AtItemFacts DEF Restart, Restarts
  <2>2. ResetSteps(Item(ItemAt).task)
        /\ taskState' = [taskState EXCEPT ![Item(ItemAt).task] = "running"]
    BY <1>11 DEF Restart, ResetTask
  <2>3. a[1] # Item(ItemAt).task /\ status[a] = "running" /\ left'[a] = left[a]
    BY <2>2 DEF ResetSteps
  <2>4. taskState[a[1]] = "running"
    BY <1>1, <2>2, <2>3 DEF TypeOK
  <2>5. status[ItemAt] # "done" /\ a # ItemAt
    BY <2>1, <2>3 DEF RunningInv, TypeOK
  <2>6. s # Here
    BY <2>1, <2>3, <2>5, OnlyHereRuns
  <2> QED
    BY <1>1, <1>2, <2>1, <2>3, <2>4, <2>6, PassedNext
<1> QED
  BY <1>4, <1>5, <1>6, <1>7, <1>8, <1>9, <1>10, <1>11 DEF Next, Loop, Interpret

-----------------------------------------------------------------------------
(* The theorems.                                                           *)

LEMMA AutomationInvInit == Init => AutomationInv
<1> SUFFICES ASSUME Init PROVE AutomationInv
  OBVIOUS
<1>1. TypeOK
  BY TypeInit
<1>2. at = <<1, 0, 0>> /\ at[1] = 1 /\ ~(at[2] > 0) /\ ~(at[3] > 0) /\ phase = "commands"
  BY DEF Init
<1>3. PlaceInv /\ PassedInv
  BY <1>2, ProgramFacts DEF PlaceInv, PassedInv
<1>4. RunningInv /\ OverrunInv /\ RunsAreOwned
  BY DEF Init, RunningInv, OverrunInv, RunsAreOwned
<1>5. StoppedIsFresh
  BY DEF Init, StoppedIsFresh
<1>6. ItemsInOrder
  BY ItemFacts DEF Init, ItemsInOrder
<1> QED
  BY <1>1, <1>3, <1>4, <1>5, <1>6 DEF AutomationInv

\* AutomationInv is inductive.
THEOREM InterpreterInvariant == Spec => []AutomationInv
<1>1. ASSUME AutomationInv, [Next]_vars PROVE AutomationInv'
  BY <1>1, TypeStep, PlaceStep, PassedStep, RunningStep, OverrunStep, OwnedStep, FreshStep,
     OrderStep DEF AutomationInv
<1> QED
  BY <1>1, AutomationInvInit, PTL DEF Spec

\* Whatever the program, its tasks, steps, items and the outputs keep their
\* types: the place of the interpreter stays within the program.
THEOREM InterpreterTypes == Spec => []TypeOK
<1>1. AutomationInv => TypeOK
  BY DEF AutomationInv
<1> QED
  BY <1>1, InterpreterInvariant, PTL

\* No action is left with the value of a run that nobody takes back, for any
\* program, commands and loop times (step_action.cpp lines 14-22, 66-70).
THEOREM RunsAreTakenBack == Spec => []RunsAreOwned
<1>1. AutomationInv => RunsAreOwned
  BY DEF AutomationInv
<1> QED
  BY <1>1, InterpreterInvariant, PTL

\* No run is past its time after an iteration that could have ended it,
\* however tasks restart each other within it (step_action.cpp line 66).
THEOREM RunsEndInTime == Spec => []NoOverrun
<1>1. ASSUME AutomationInv PROVE NoOverrun
  <2> SUFFICES ASSUME phase = "drivers", NEW a \in Items, status[a] = "running",
                      taskState[a[1]] = "running",
                      Condition(<<a[1], a[2]>>).type \in {"IMMEDIATE", "TIME"}
               PROVE  left[a] > 0
    BY DEF NoOverrun
  <2>1. at[1] = Len(TaskOrder) + 1 /\ a[1] \in Tasks
    BY <1>1, ItemFacts DEF AutomationInv, PlaceInv
  <2>2. PICK k \in DOMAIN TaskOrder : TaskOrder[k] = a[1]
    BY <2>1 DEF Tasks
  <2>3. k < at[1] /\ <<a[1], a[2]>>[1] = a[1]
    BY <2>1, ProgramFacts
  <2>4. Passed(<<a[1], a[2]>>)
    BY <2>2, <2>3 DEF Passed
  <2> QED
    BY <1>1, <2>4 DEF AutomationInv, OverrunInv
<1> QED
  BY <1>1, InterpreterInvariant, PTL

\* A stopped task begins afresh, whichever way it was stopped (task.cpp lines
\* 25-36, 59-63).
THEOREM StoppedTasksAreFresh == Spec => []StoppedIsFresh
<1>1. AutomationInv => StoppedIsFresh
  BY DEF AutomationInv
<1> QED
  BY <1>1, InterpreterInvariant, PTL

\* Items run in sequence, also in a task that restarts itself in the middle
\* of its update (step.cpp line 35).
THEOREM ItemsRunInSequence == Spec => []ItemsInOrder
<1>1. AutomationInv => ItemsInOrder
  BY DEF AutomationInv
<1> QED
  BY <1>1, InterpreterInvariant, PTL

\* A task is taken for done only when all its steps are (task.cpp line 59).
THEOREM EndedTasksAreComplete == Spec => []EndedIsComplete
<1>1. ASSUME AutomationInv PROVE EndedIsComplete
  <2> SUFFICES ASSUME at[1] \in DOMAIN TaskOrder, at[2] > Len(Program[TaskAt]), allDone,
                      NEW s \in StepIds, s[1] = TaskAt
               PROVE  stepDone[s]
    BY DEF EndedIsComplete
  <2>1. TaskAt \in Tasks /\ at[2] \in Nat
    BY <1>1, ProgramFacts DEF TaskAt, AutomationInv, TypeOK
  <2>2. s[2] \in 1..Len(Program[TaskAt]) /\ Len(Program[TaskAt]) \in Nat
    BY <2>1, StepFacts, ProgramFacts
  <2>3. at[2] > 0 /\ s[2] < at[2]
    BY <2>1, <2>2
  <2> QED
    BY <1>1, <2>3 DEF AutomationInv, PassedInv
<1> QED
  BY <1>1, InterpreterInvariant, PTL

-----------------------------------------------------------------------------
(* Ramps.                                                                  *)

IsWhole(v) == \E k \in Int : v = Part * k
RampsAreWhole == \A g \in Gpios : Ramped(g) => IsWhole(output[g]) /\ IsWhole(desired[g])

\* A ramp stands, or takes one whole step towards its target and not past it.
NearsTarget(g) ==
    \/ output'[g] = output[g]
    \/ output[g] < desired[g] /\ output'[g] = output[g] + Part /\ output'[g] <= desired[g]
    \/ output[g] > desired[g] /\ output'[g] = output[g] - Part /\ output'[g] >= desired[g]
RampsNearTargets == [][\A g \in Gpios : Ramped(g) => NearsTarget(g)]_vars

\* What every step but update() of the actions leaves of the ramps.
RampsStand == \A g \in Gpios : Ramped(g) => output'[g] = output[g] /\ IsWhole(desired'[g])

LEMMA WholeIsWhole == ASSUME NEW v \in Int PROVE IsWhole(Whole(v))
<1>1. CASE v >= 0
  <2>1. v \div Part \in Int
    OBVIOUS
  <2>2. Whole(v) = Part * (v \div Part)
    BY <1>1 DEF Whole
  <2> QED
    BY <2>1, <2>2 DEF IsWhole
<1>2. CASE ~(v >= 0)
  <2>1. PICK k \in Int : k = (-v) \div Part
    OBVIOUS
  <2>2. Whole(v) = -(Part * k)
    BY <1>2, <2>1 DEF Whole
  <2>3. -k \in Int /\ -(Part * k) = Part * (-k)
    OBVIOUS
  <2> QED
    BY <2>2, <2>3 DEF IsWhole
<1> QED
  BY <1>1, <1>2

LEMMA StartIsWhole == ASSUME NEW g \in Gpios PROVE IsWhole(Start[g])
<1>1. \A x \in Int : x % Part = 0 => x \div Part \in Int /\ x = Part * (x \div Part)
  OBVIOUS
<1>2. Start[g] \in Int /\ Start[g] % Part = 0
  OBVIOUS
<1> QED
  BY <1>1, <1>2 DEF IsWhole

\* Whole numbers that differ are a step apart at least.
LEMMA StepApart ==
    ASSUME NEW x, NEW y, IsWhole(x), IsWhole(y), x < y
    PROVE  x + Part <= y
<1>1. PICK j \in Int : x = Part * j
  BY DEF IsWhole
<1>2. PICK k \in Int : y = Part * k
  BY DEF IsWhole
<1>3. j < k
  <2> SUFFICES ASSUME k <= j PROVE FALSE
    OBVIOUS
  <2>1. Part * k <= Part * j
    OBVIOUS
  <2> QED
    BY <1>1, <1>2, <2>1
<1>4. Part * (j + 1) <= Part * k
  BY <1>3
<1>5. Part * (j + 1) = Part * j + Part
  OBVIOUS
<1> QED
  BY <1>1, <1>2, <1>4, <1>5

LEMMA WholeSteps ==
    ASSUME NEW x, IsWhole(x)
    PROVE  x \in Int /\ IsWhole(x + Part) /\ IsWhole(x - Part)
<1>1. PICK k \in Int : x = Part * k
  BY DEF IsWhole
<1>2. Part * (k + 1) = Part * k + Part /\ Part * (k - 1) = Part * k - Part
  OBVIOUS
<1>3. k + 1 \in Int /\ k - 1 \in Int /\ x + Part = Part * (k + 1) /\ x - Part = Part * (k - 1) /\ x \in Int
  BY <1>1, <1>2
<1> QED
  BY <1>3 DEF IsWhole

LEMMA SetRamps ==
    ASSUME RampsAreWhole, NEW values, \A g \in DOMAIN values : values[g] \in Int, SetValues(values)
    PROVE  RampsStand
<1> SUFFICES ASSUME NEW g \in Gpios, Ramped(g) PROVE output'[g] = output[g] /\ IsWhole(desired'[g])
  BY DEF RampsStand
<1>1. output'[g] = output[g]
  BY DEF SetValues
<1>2. desired'[g] = IF g \in DOMAIN values THEN Whole(values[g]) ELSE desired[g]
  BY DEF SetValues
<1>3. IsWhole(desired[g])
  BY DEF RampsAreWhole
<1> QED
  BY <1>1, <1>2, <1>3, WholeIsWhole

LEMMA SetOneRamp ==
    ASSUME RampsAreWhole, NEW g, NEW v \in Int, NEW by, GiveOne(g, v, by)
    PROVE  RampsStand
<1> DEFINE values == [h \in {g} |-> v]
<1>1. SetValues(values) /\ \A h \in DOMAIN values : values[h] \in Int
  BY DEF GiveOne, Give
<1> HIDE DEF values
<1> QED
  BY <1>1, SetRamps

LEMMA ResetRamps ==
    ASSUME RampsAreWhole, RunningInv, NEW t, ResetSteps(t)
    PROVE  RampsStand
<1> DEFINE values == [g \in RunBy(t) |-> Start[g]]
<1>1. SetValues(values) /\ RunBy(t) \subseteq Gpios
  BY RunByGpios DEF ResetSteps, Give
<1>2. \A g \in DOMAIN values : values[g] \in Int
  BY <1>1
<1> HIDE DEF values
<1> QED
  BY <1>1, <1>2, SetRamps

LEMMA OtherRamps ==
    ASSUME RampsAreWhole, UNCHANGED <<output, desired>>
    PROVE  RampsStand
BY DEF RampsAreWhole, RampsStand

LEMMA UpdateRamps ==
    ASSUME RampsAreWhole, UpdateGpios
    PROVE  RampsAreWhole' /\ \A g \in Gpios : Ramped(g) => NearsTarget(g)
<1> SUFFICES ASSUME NEW g \in Gpios, Ramped(g)
             PROVE  NearsTarget(g) /\ IsWhole(output'[g]) /\ IsWhole(desired'[g])
  BY DEF RampsAreWhole, Ramped
<1>1. output'[g] = Updated(g) /\ desired'[g] = desired[g]
  BY DEF UpdateGpios
<1>2. IsWhole(output[g]) /\ IsWhole(desired[g])
  BY DEF RampsAreWhole
<1>3. output[g] \in Int /\ desired[g] \in Int /\ IsWhole(output[g] + Part) /\ IsWhole(output[g] - Part)
  BY <1>2, WholeSteps
<1>4. CASE Updated(g) = output[g]
  BY <1>1, <1>2, <1>4 DEF NearsTarget
<1>5. CASE output[g] > desired[g] /\ Updated(g) = output[g] - Part
  <2>1. desired[g] + Part <= output[g]
    BY <1>2, <1>3, <1>5, StepApart
  <2>2. output[g] - Part >= desired[g]
    BY <1>3, <2>1
  <2> QED
    BY <1>1, <1>2, <1>3, <1>5, <2>2 DEF NearsTarget
<1>6. CASE output[g] < desired[g] /\ Updated(g) = output[g] + Part
  <2>1. output[g] + Part <= desired[g]
    BY <1>2, <1>3, <1>6, StepApart
  <2> QED
    BY <1>1, <1>2, <1>3, <1>6, <2>1 DEF NearsTarget
<1> QED
  BY <1>4, <1>5, <1>6 DEF Updated

LEMMA RampStep ==
    ASSUME AutomationInv, RampsAreWhole, [Next]_vars
    PROVE  RampsAreWhole' /\ \A g \in Gpios : Ramped(g) => NearsTarget(g)
<1>1. TypeOK /\ PlaceInv /\ RunningInv
  BY DEF AutomationInv
<1>2. ASSUME RampsStand PROVE RampsAreWhole' /\ \A g \in Gpios : Ramped(g) => NearsTarget(g)
  BY <1>2 DEF RampsStand, RampsAreWhole, Ramped, NearsTarget
<1>3. CASE UpdateActions
  BY <1>3, UpdateRamps DEF UpdateActions
<1>4. CASE Command
  <2>1. ASSUME NEW t \in Tasks, State(t) PROVE RampsStand
    BY <1>1, <2>1, ResetRamps, OtherRamps DEF State, ResetTask, StartTask, PauseTask, gpioVars
  <2>2. ASSUME NEW g \in Gpios, Operate(g) PROVE RampsStand
    <3>1. CASE \E v \in SetTo : GiveOne(g, v, "other")
      BY <3>1, SetOneRamp, AutomationAssumption
    <3>2. CASE StopGpio(g)
      <4> DEFINE values == [h \in {g} |-> Start[h]]
      <4>1. SetValues(values) /\ \A h \in DOMAIN values : values[h] \in Int
        BY <3>2 DEF StopGpio
      <4> HIDE DEF values
      <4> QED
        BY <4>1, SetRamps
    <3>3. CASE ReinitGpio(g)
      BY <3>3, OtherRamps DEF ReinitGpio
    <3> QED
      BY <2>2, <3>1, <3>2, <3>3 DEF Operate
  <2> QED
    BY <1>2, <1>4, <2>1, <2>2 DEF Command
<1>5. CASE Sleep
  BY <1>2, <1>5, OtherRamps DEF Sleep, GpioTimePasses
<1>6. CASE EndTask \/ Restart
  <2>1. (\E t : ResetSteps(t)) \/ UNCHANGED <<output, desired>>
    BY <1>6 DEF EndTask, Restart, ResetTask, gpioVars
  <2> QED
    BY <1>1, <1>2, <2>1, ResetRamps, OtherRamps
<1>7. CASE SetItem
  <2>1. ItemAt \in Items /\ Item(ItemAt).type \in {"SET_VALUE", "ADD_VALUE"}
    BY <1>1, <1>7, AtItemFacts DEF SetItem
  <2>2. Item(ItemAt).command \in Gpios /\ Item(ItemAt).value \in Int
    BY <2>1, ItemTypes
  <2>3. output[Item(ItemAt).command] \in Int
    BY <1>1, <2>2 DEF TypeOK, GpioTypeOK
  <2>4. PICK v \in Int : GiveOne(Item(ItemAt).command, v, "other")
    BY <1>7, <2>2, <2>3 DEF SetItem
  <2> QED
    BY <1>2, <2>4, SetOneRamp
<1>8. CASE BeginRun \/ EndRun
  <2>1. ItemAt \in Items /\ Item(ItemAt).type = "DURATION"
    BY <1>1, <1>8, AtItemFacts DEF BeginRun, EndRun
  <2>2. Item(ItemAt).command \in Gpios /\ Item(ItemAt).value \in Int /\ Start[Item(ItemAt).command] \in Int
    BY <2>1, ItemTypes
  <2>3. \E v \in Int, by \in {"run", "start"} : GiveOne(Item(ItemAt).command, v, by)
    BY <1>8, <2>2 DEF BeginRun, EndRun
  <2> QED
    BY <1>2, <2>3, SetOneRamp
<1>9. ASSUME UNCHANGED gpioVars PROVE RampsStand
  BY <1>9, OtherRamps DEF gpioVars
<1>10. CASE EnterTask \/ EnterStep \/ PassItem \/ KeepRun \/ CounterMissing \/ Sweep \/ UNCHANGED vars
  BY <1>2, <1>9, <1>10 DEF EnterTask, EnterStep, PassItem, KeepRun, CounterMissing, Sweep, vars
<1> QED
  BY <1>2, <1>3, <1>4, <1>5, <1>6, <1>7, <1>8, <1>9, <1>10 DEF Next, Loop, Interpret

\* A ramp never passes its target, whatever targets commands and tasks set on
\* the way and however late an iteration is (gpio_driver.cpp lines 79-98): each
\* update() of it that changes the value is a whole step nearer, so it comes to
\* stand there, and does not for ever go up and down beside it.
THEOREM RampsNeverPass == Spec => RampsNearTargets
<1>1. Init => RampsAreWhole
  BY StartIsWhole DEF Init, GpioInit, RampsAreWhole
<1>2. AutomationInv /\ RampsAreWhole /\ [Next]_vars => RampsAreWhole'
  BY RampStep
<1>3. AutomationInv /\ RampsAreWhole /\ [Next]_vars => [\A g \in Gpios : Ramped(g) => NearsTarget(g)]_vars
  BY RampStep
<1> QED
  BY <1>1, <1>2, <1>3, InterpreterInvariant, PTL DEF Spec, RampsNearTargets
=============================================================================
