---------------------------- MODULE MCAutomation ----------------------------
(* Values for the constants of Automation: an arm on a ramp and a drill    *)
(* that is switched; a task with a run, a sum and a timed step, and one    *)
(* that waits for a sensor, starts the first and loops.            *)
EXTENDS Automation

MCGpios == {"arm", "drill"}
MCDigital == {"drill"}
MCStart == [g \in MCGpios |-> 0]
MCRampMs == [g \in MCGpios |-> IF g = "arm" THEN 2 ELSE 0]
MCTaskOrder == <<"dig", "watch">>
MCStep(condition, items) == [condition |-> condition, items |-> items]
MCRun(g, v, ms, sensor) ==
    [type |-> "DURATION", command |-> g, value |-> v, ms |-> ms, resetCounter |-> sensor]
MCProgram == [t \in {"dig", "watch"} |->
    IF t = "dig"
    THEN << MCStep([type |-> "IMMEDIATE"],
                   << MCRun("drill", 2, 2, None),
                      [type |-> "ADD_VALUE", command |-> "drill", value |-> 2] >>),
            MCStep([type |-> "TIME", ms |-> 1],
                   << [type |-> "SET_VALUE", command |-> "arm", value |-> 5] >>) >>
    ELSE << MCStep([type |-> "SENSOR", sensor |-> "weight", op |-> "GREATER_THAN", value |-> 1],
                   << [type |-> "START_TASK", task |-> "dig"] >>),
            MCStep([type |-> "DIFF", sensor |-> "weight", op |-> "GREATER_THAN", value |-> 1],
                   << MCRun("arm", 2, 1, "weight"), [type |-> "LOOP", task |-> "watch"] >>) >>]
MCSensors == {"weight"}
MCReadings == {0, 1, 2}
MCSetTo == {2}
MCLoopMs == {1, 2}
=============================================================================
