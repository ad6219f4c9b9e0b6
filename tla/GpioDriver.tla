----------------------------- MODULE GpioDriver -----------------------------
(***************************************************************************)
(* The actions of driver "gpio" (src/src/actions/gpio_driver.cpp): a pin   *)
(* that is switched, or a PWM output, which may follow its target with one *)
(* step per ramp_ms.  Values are in parts of the whole numbers a pin takes. *)
(***************************************************************************)
EXTENDS Integers

CONSTANTS
    Gpios,    \* the actions
    Digital,  \* those of mode "gpio"; the others are PWM outputs
    Start,    \* start, per action
    RampMs,   \* rampMs, per action; 0 is no ramp
    Part      \* parts of a whole step

ASSUME GpioAssumption ==
    /\ Part \in Nat \ {0} /\ Digital \subseteq Gpios
    /\ RampMs \in [Gpios -> Nat]
    /\ Start \in [Gpios -> Int] /\ \A g \in Gpios : Start[g] % Part = 0

VARIABLES
    output,   \* value
    desired,  \* desiredPos
    pin,      \* what was last written to the pin
    rested    \* ms since lastTime, up to RampMs

gpioVars == <<output, desired, pin, rested>>

\* A double read as an int.
\* Mutant: the target of a ramp keeps its fraction.
MutKeepsFraction(v) == v
Whole(v) == IF v >= 0 THEN Part * (v \div Part) ELSE -(Part * ((-v) \div Part))
Level(g, v) == IF g \in Digital THEN (IF v > 0 THEN Part ELSE 0) ELSE Whole(v)

Ramped(g) == RampMs[g] > 0

\* lastTime is the clock's epoch.
GpioInit ==
    /\ output = Start /\ desired = Start /\ rested = RampMs
    /\ pin = [g \in Gpios |-> IF g \in Digital THEN 0 ELSE Start[g]]

\* set_value() of the actions in the domain of values.
SetValues(values) ==
    LET Applies(g) == g \in DOMAIN values /\ ~Ramped(g)
    IN  /\ desired' = [g \in Gpios |-> IF g \in DOMAIN values /\ Ramped(g)
                                       THEN Whole(values[g]) ELSE desired[g]]
        /\ output' = [g \in Gpios |-> IF Applies(g) THEN values[g] ELSE output[g]]
        /\ pin' = [g \in Gpios |-> IF Applies(g) THEN Level(g, values[g]) ELSE pin[g]]
        /\ UNCHANGED rested

\* stop(), and reset(), which calls it.
StopGpio(g) == SetValues([h \in {g} |-> Start[h]])

\* reinit(): the start goes to a PWM pin, past value and ramp.
ReinitGpio(g) ==
    /\ pin' = IF g \in Digital THEN pin ELSE [pin EXCEPT ![g] = Start[g]]
    /\ UNCHANGED <<output, desired, rested>>

\* update() of every action.
Updated(g) ==
    IF ~Ramped(g) \/ rested[g] < RampMs[g] THEN output[g]
    ELSE IF output[g] > desired[g] THEN output[g] - Part
    ELSE IF output[g] < desired[g] THEN output[g] + Part
    ELSE output[g]

UpdateGpios ==
    /\ output' = [g \in Gpios |-> Updated(g)]
    /\ pin' = [g \in Gpios |-> IF Updated(g) # output[g] THEN Level(g, Updated(g)) ELSE pin[g]]
    /\ rested' = [g \in Gpios |-> IF Updated(g) # output[g] THEN 0 ELSE rested[g]]
    /\ UNCHANGED desired

GpioTimePasses(ms) ==
    /\ rested' = [g \in Gpios |-> IF rested[g] + ms < RampMs[g] THEN rested[g] + ms ELSE RampMs[g]]
    /\ UNCHANGED <<output, desired, pin>>

GpioTypeOK ==
    /\ output \in [Gpios -> Int] /\ desired \in [Gpios -> Int] /\ pin \in [Gpios -> Int]
    /\ \A g \in Gpios : rested[g] \in 0..RampMs[g]
=============================================================================
