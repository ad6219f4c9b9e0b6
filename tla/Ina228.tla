------------------------------- MODULE Ina228 -------------------------------
(***************************************************************************)
(* The power monitor's driver (src/src/driver/ina228.cpp) and the chip     *)
(* behind it, over an I2C bus on which any transfer may fail.  A setter    *)
(* reads a register, changes a field in it and writes it back; a read that *)
(* fails counts as 0 and is written back all the same.  The driver keeps   *)
(* the ADC range in a variable of its own, which scales the shunt voltage  *)
(* and the calibration.  A client calls any method in any order.           *)
(***************************************************************************)
EXTENDS Integers

CONSTANTS
    Used,          \* the fields that are set here, of those of Fields
    Values,        \* values per field
    ResetValue,    \* registers after a reset of the chip (external: data sheet)
    Currents,      \* values of maxCurrent
    Shunts,        \* values of shunt; 0 stands for those below 0.0001
    CalUnit        \* SHUNT_CAL of one current and one shunt

\* What a register of 16 bits holds.
WordSize == 65536
Word == 0..WordSize - 1

\* What the setters change: a register, the place value of the field's lowest
\* bit and the number of its values, and the largest value they accept.
Field(reg, place, size, limit) == [reg |-> reg, place |-> place, size |-> size, limit |-> limit]
Fields ==
    [ accumulation |-> Field("CONFIG", 16384, 2, 1),
      conversionDelay |-> Field("CONFIG", 64, 256, 255),
      temperatureCompensation |-> Field("CONFIG", 32, 2, 1),
      adcRange |-> Field("CONFIG", 16, 2, 1),
      mode |-> Field("ADC_CONFIG", 4096, 16, 15),
      busVoltageConversionTime |-> Field("ADC_CONFIG", 512, 8, 7),
      shuntVoltageConversionTime |-> Field("ADC_CONFIG", 64, 8, 7),
      temperatureConversionTime |-> Field("ADC_CONFIG", 8, 8, 7),
      average |-> Field("ADC_CONFIG", 1, 8, 7),
      slowAlert |-> Field("DIAG_ALERT", 8192, 2, 1),
      alertLatch |-> Field("DIAG_ALERT", 32768, 2, 1),
      shuntTemperatureCoefficent |-> Field("SHUNT_TEMP_CO", 1, WordSize, 16383),
      shuntOvervoltageTH |-> Field("SOVL", 1, WordSize, WordSize - 1),
      shuntUndervoltageTH |-> Field("SUVL", 1, WordSize, WordSize - 1),
      busOvervoltageTH |-> Field("BOVL", 1, WordSize, 32767),
      busUndervoltageTH |-> Field("BUVL", 1, WordSize, 32767),
      temperatureOverLimitTH |-> Field("TEMP_LIMIT", 1, WordSize, WordSize - 1),
      powerOverLimitTH |-> Field("POWER_LIMIT", 1, WordSize, WordSize - 1) ]
Reg(f) == Fields[f].reg
Registers == {Reg(f) : f \in DOMAIN Fields} \cup {"SHUNT_CAL"}
Writable(reg) == {f \in Used : Reg(f) = reg}

ASSUME InaAssumption ==
    /\ Used \subseteq DOMAIN Fields \ {"adcRange"}
    /\ Values \in [Used -> SUBSET Nat]
    /\ ResetValue \in [Registers -> Word]
    /\ Currents \subseteq Nat \ {0} /\ Shunts \subseteq Nat /\ CalUnit \in Nat \ {0}
    /\ \A c \in Currents, s \in Shunts : 4 * CalUnit * c * s < WordSize

VARIABLES
    chip,        \* the registers
    connected,   \* fd_i2c >= 0
    ADCRange,    \* _ADCRange
    maxCurrent, shunt,
    error,       \* _error # 0
    want,        \* values of the fields a faultless bus would have left; history
    suspect,     \* registers whose last setter ended with an error; history
    stale        \* ADCRange is not known to be the chip's; history

vars == <<chip, connected, ADCRange, maxCurrent, shunt, error, want, suspect, stale>>

Get(value, f) == (value \div Fields[f].place) % Fields[f].size
Put(value, f, x) == value + (x - Get(value, f)) * Fields[f].place

\* The constructor, of any calibration.
Init ==
    /\ chip = ResetValue /\ want = [f \in Used |-> Get(ResetValue[Reg(f)], f)]
    /\ connected = FALSE /\ ADCRange \in BOOLEAN   \* not initialised
    /\ maxCurrent \in Currents /\ shunt \in Shunts \ {0}
    /\ error = FALSE
    /\ suspect = {"SHUNT_CAL"} /\ stale = TRUE

---------------------------------------------------------------------------
\* _readRegister(): what it returns if the transfer succeeds or not.
ReadRegister(reg, ok) == IF ok THEN chip[reg] ELSE 0

\* _writeRegister(), after reads that failed or not.  A reset bit clears the chip.
\* Mutant: the error of the read before is cleared.
MutWriteRegister(reg, value, ok, failed) ==
    /\ chip' = IF ok THEN [chip EXCEPT ![reg] = value] ELSE chip
    /\ error' = ~ok
WriteRegister(reg, value, ok, failed) ==
    /\ chip' = IF ok THEN [chip EXCEPT ![reg] = value] ELSE chip
    /\ error' = (failed \/ ~ok)

\* A transfer on a closed bus always fails.
Transfers == IF connected THEN BOOLEAN ELSE {FALSE}

\* What a client that looks at getLastError() after a setter takes for set:
\* the fields of regs are not known from now on if there is an error, and
\* those of known are again if there is none.
Judge(regs, known, fields) ==
    /\ suspect' = IF error' THEN suspect \cup regs ELSE suspect \ known
    /\ want' = [f \in Used |-> IF Reg(f) \in suspect' THEN 0 ELSE fields[f]]

\* getADCRange()
GetADCRange ==
    \E ok \in Transfers :
        /\ ADCRange' = (Get(ReadRegister("CONFIG", ok), "adcRange") = 1)
        /\ error' = ~ok /\ stale' = ~ok
        /\ UNCHANGED <<chip, connected, maxCurrent, shunt, want, suspect>>

\* begin(): it fails if there is no bus or no chip, but not if getADCRange() does.
Begin ==
    \/ /\ connected' \in BOOLEAN
       /\ UNCHANGED <<chip, ADCRange, maxCurrent, shunt, error, want, suspect, stale>>
    \/ /\ connected' = TRUE
       /\ \E ok \in BOOLEAN :
            /\ ADCRange' = (Get(ReadRegister("CONFIG", ok), "adcRange") = 1)
            /\ error' = ~ok /\ stale' = ~ok
       /\ UNCHANGED <<chip, maxCurrent, shunt, want, suspect>>

\* reset(): the chip's registers take their reset values; the driver's variables stay.
Reset ==
    \E r, w \in Transfers :
        /\ error' = (~r \/ ~w)
        /\ chip' = IF w THEN ResetValue ELSE chip
        /\ suspect' = IF error' THEN Registers ELSE {"SHUNT_CAL"}
        /\ want' = [f \in Used |-> IF error' THEN 0 ELSE Get(ResetValue[Reg(f)], f)]
        /\ stale' = TRUE
        /\ UNCHANGED <<connected, ADCRange, maxCurrent, shunt>>

---------------------------------------------------------------------------
\* The setters of CONFIG and ADC_CONFIG: read, change, write.
Modify(f, x) ==
    /\ Reg(f) \in {"CONFIG", "ADC_CONFIG"}
    /\ \E r, w \in Transfers :
        WriteRegister(Reg(f), Put(ReadRegister(Reg(f), r), f, x), w, ~r)
    /\ Judge({Reg(f)}, {}, [want EXCEPT ![f] = x])

\* setDiagnoseAlertBit(), clearDiagnoseAlertBit(): nothing is written if the bit is so.
ModifyBit(f, x) ==
    /\ Reg(f) = "DIAG_ALERT"
    /\ \E r, w \in Transfers :
        LET value == ReadRegister(Reg(f), r) IN
        IF Get(value, f) = x THEN UNCHANGED chip /\ error' = ~r
        ELSE WriteRegister(Reg(f), Put(value, f, x), w, ~r)
    /\ Judge({Reg(f)}, {}, [want EXCEPT ![f] = x])

\* The setters of limits and of the coefficient, which only write; an error
\* of a call before stays.
Overwrite(f, x) ==
    /\ Fields[f].size = WordSize
    /\ \E w \in Transfers : WriteRegister(Reg(f), x, w, error)
    /\ Judge({Reg(f)}, {Reg(f)}, [want EXCEPT ![f] = x])

Accepts(f, x) == x <= Fields[f].limit

Set(f, x) ==
    /\ Accepts(f, x)
    /\ Modify(f, x) \/ ModifyBit(f, x) \/ Overwrite(f, x)
    /\ UNCHANGED <<connected, ADCRange, maxCurrent, shunt, stale>>

\* What setMaxCurrentShunt() writes to SHUNT_CAL.
Calibration(current, resistance, range) ==
    CalUnit * current * resistance * (IF range THEN 4 ELSE 1)

\* setMaxCurrentShunt(), which returns -2 for a shunt that is too small.
SetMaxCurrentShunt(current, resistance) ==
    /\ resistance > 0
    /\ maxCurrent' = current /\ shunt' = resistance
    /\ \E w \in Transfers :
        WriteRegister("SHUNT_CAL", Calibration(current, resistance, ADCRange), w, error)
    /\ suspect' = IF error' \/ stale THEN suspect \cup {"SHUNT_CAL"} ELSE suspect \ {"SHUNT_CAL"}
    /\ UNCHANGED <<connected, ADCRange, want, stale>>

\* What is in ADCRange after setADCRange(), changed or not.
\* Mutant: the flag is not taken over.
MutRangeAfter(value, flag) == Get(value, "adcRange") = 1
RangeAfter(value, flag) == flag

\* What it writes to SHUNT_CAL.
\* Mutant: nothing new.
MutRecalibrated == chip["SHUNT_CAL"]
Recalibrated == Calibration(maxCurrent, shunt, ADCRange')

SetADCRange(flag) ==
    \E r, w, w2 \in Transfers :
        LET value == ReadRegister("CONFIG", r)
            new == Put(value, "adcRange", IF flag THEN 1 ELSE 0)
        IN
        /\ ADCRange' = RangeAfter(value, flag)
        /\ IF (Get(value, "adcRange") = 1) = flag
           THEN /\ UNCHANGED chip /\ error' = ~r
                /\ Judge({"CONFIG"}, {}, want)
           ELSE /\ chip' = [reg \in Registers |->
                     CASE reg = "CONFIG" /\ w -> new
                       [] reg = "SHUNT_CAL" /\ w2 -> Recalibrated
                       [] OTHER -> chip[reg]]
                /\ error' = ~(r /\ w /\ w2)
                /\ Judge({"CONFIG", "SHUNT_CAL"}, {"SHUNT_CAL"}, want)
        /\ stale' = error'
        /\ UNCHANGED <<connected, maxCurrent, shunt>>

---------------------------------------------------------------------------
\* The methods that read a measurement or a setting, and getLastError().
Read ==
    /\ \/ \E ok \in Transfers : error' = ~ok
       \/ error' = FALSE
    /\ UNCHANGED <<chip, connected, ADCRange, maxCurrent, shunt, want, suspect, stale>>

Next ==
    \/ Begin \/ Reset \/ GetADCRange \/ Read
    \/ \E f \in Used : \E x \in Values[f] : Set(f, x)
    \/ \E flag \in BOOLEAN : SetADCRange(flag)
    \/ \E c \in Currents, s \in Shunts : SetMaxCurrentShunt(c, s)
Spec == Init /\ [][Next]_vars

---------------------------------------------------------------------------
\* A client that looks at getLastError() after each setter knows its
\* settings: in a register whose setters reported no error, every field has
\* what was set last, or its reset value, whatever was lost before or after
\* elsewhere (a failed read writes zeros over the register's other fields).
NoSilentLoss ==
    \A f \in Used : Reg(f) \notin suspect => Get(chip[Reg(f)], f) = want[f]

\* The range that scales the shunt voltage is the chip's, unless reset() was
\* called or a transfer failed since it was read (ina228.cpp line 126).
RangeIsChips ==
    "CONFIG" \notin suspect /\ ~stale => (ADCRange <=> Get(chip["CONFIG"], "adcRange") = 1)

\* "Fix #26, issue where shunt_cal was not modified" (line 276): a
\* calibration without errors stays right for the chip's range, however the
\* range is switched afterwards.
CalibrationFits ==
    "CONFIG" \notin suspect /\ "SHUNT_CAL" \notin suspect =>
        chip["SHUNT_CAL"] =
            Calibration(maxCurrent, shunt, Get(chip["CONFIG"], "adcRange") = 1)
=============================================================================
