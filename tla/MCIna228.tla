------------------------------ MODULE MCIna228 ------------------------------
(* Values for the constants of Ina228: one or two fields of each kind of   *)
(* register, and the reset values of the chip.                             *)
EXTENDS Ina228

MCUsed == {"conversionDelay", "mode", "average",
            "alertLatch", "busOvervoltageTH"}
MCValues ==
    [ conversionDelay |-> {255},
      mode |-> {3, 16}, average |-> {7},
      alertLatch |-> {0, 1}, busOvervoltageTH |-> {1, 40000} ]
MCResetValue == [reg \in Registers |->
    CASE reg = "ADC_CONFIG" -> 64360 [] reg = "SHUNT_CAL" -> 4096
      [] reg = "DIAG_ALERT" -> 1 [] reg = "SUVL" -> 32768 [] reg = "POWER_LIMIT" -> 65535
      [] reg \in {"SOVL", "BOVL", "TEMP_LIMIT"} -> 32767 [] OTHER -> 0]
MCCurrents == {10}
MCShunts == {0, 15, 20}
=============================================================================
