-------------------------------- MODULE Bme280 --------------------------------
(* Adafruit_BME280: the driver of the sensor and the registers it programs.   *)
(* A measurement is its number; the driver's arithmetic on the values is left *)
(* out.  The chip is external: a write of ctrl_hum shows with the next write  *)
(* of ctrl_meas, config is ignored in normal mode, a forced measurement goes  *)
(* back to sleep, and a reset is followed by copying the calibration.         *)
EXTENDS Integers

CONSTANTS
    Addresses,     \* on the bus: the first and the alternative one
    Chips,         \* what may be at each of them: chip ids, or NoChip
    NoChip,
    Samplings,     \* oversampling rates used, 0 for SAMPLING_NONE
    Filters,
    Durations,
    MaxMeasured    \* bound: measurements

ChipId == 96       \* 0x60
Sleep  == 0   Forced == 1   Normal == 3
Skipped == 0       \* a value of 0x800000 or 0x8000

ASSUME BmeAssumption ==
    /\ Samplings \subseteq 0 .. 5 /\ Filters \subseteq 0 .. 4 /\ Durations \subseteq 0 .. 7
    /\ MaxMeasured \in Nat /\ NoChip # ChipId

VARIABLES
    bus,       \* what is at each address
    i2caddr,   \* _i2caddr
    bmepc,     \* where the call is
    untried,   \* begin(): addresses not tried yet
    regs,      \* _measReg, _humReg and _configReg, as get() encodes them
    chip,      \* the chip: its registers, whether it copies or measures
    done,      \* number of the last measurement
    values,    \* the data registers: the measurement each is of, or Skipped
    tfine,     \* t_fine: the measurement it is of, 0 before the first
    coeffs,    \* the coefficients are those of the chip
    forced,    \* history: the measurement takeForcedMeasurement() asked for, or 0
    reading    \* history: after a forced measurement, those the last pressure or humidity and its t_fine are of

bmeVars == <<bus, i2caddr, bmepc, untried, regs, chip, done, values, tfine, coeffs, forced, reading>>

(* ctrl_meas::get(), config::get()                                            *)
Meas(t, p, m)  == t * 32 + p * 4 + m
Config(sb, f)  == sb * 32 + f * 4
ModeOf(r)      == r % 4
TempOf(r)      == r \div 32
PressOf(r)     == (r \div 4) % 8

Reset      == [meas |-> 0, hum |-> 0, humSet |-> 0, config |-> 0, copying |-> FALSE, measuring |-> FALSE]
NoValues   == [t |-> Skipped, p |-> Skipped, h |-> Skipped]
NoReading  == [value |-> 0, tfine |-> 0]
Defaults   == [meas |-> Meas(5, 5, Normal), hum |-> 5, config |-> Config(0, 0)]

BmeInit ==
    /\ bus \in [Addresses -> Chips]
    /\ i2caddr = 0 /\ bmepc = "new" /\ untried = {}
    /\ regs = [meas |-> 0, hum |-> 0, config |-> 0]
    /\ chip = Reset
    /\ done = 0 /\ values = NoValues
    /\ tfine = 0 /\ coeffs = FALSE /\ forced = 0 /\ reading = NoReading

BmeAt(place) == bmepc = place
KeepsData == UNCHANGED <<bus, done, values, tfine, forced, reading>>

-----------------------------------------------------------------------------
(* begin() and init().                                                        *)

Begin == \E a \in Addresses :
    /\ bmepc \in {"new", "failed", "ready"}
    /\ i2caddr' = a /\ untried' = Addresses \ {a}
    /\ bmepc' = "id"
    /\ UNCHANGED <<regs, chip, coeffs>> /\ KeepsData

(* Wrong chip, or none: the other address, if it is another one.              *)
NotThere ==
    /\ BmeAt("id") /\ bus[i2caddr] # ChipId
    /\ IF untried = {} THEN bmepc' = "failed" /\ UNCHANGED <<i2caddr, untried>>
       ELSE \E a \in untried : i2caddr' = a /\ untried' = untried \ {a} /\ bmepc' = "id"
    /\ UNCHANGED <<regs, chip, coeffs>> /\ KeepsData

SoftReset ==
    /\ BmeAt("id") /\ bus[i2caddr] = ChipId
    /\ chip' = [Reset EXCEPT !.copying = TRUE]
    /\ values' = NoValues /\ forced' = 0 /\ reading' = NoReading
    /\ bmepc' = "copying"
    /\ UNCHANGED <<i2caddr, untried, regs, coeffs, bus, done, tfine>>

(* while (isReadingCalibration()), then readCoefficients().                   *)
ReadCoefficients ==
    /\ BmeAt("copying") /\ ~chip.copying
    /\ coeffs' = ~chip.copying
    /\ regs' = Defaults
    /\ bmepc' = "sleep"
    /\ UNCHANGED <<i2caddr, untried, chip>> /\ KeepsData

-----------------------------------------------------------------------------
(* setSampling(), register by register.                                       *)

SetSampling == \E m \in {Sleep, Forced, Normal}, t, p, h \in Samplings, f \in Filters, sb \in Durations :
    /\ BmeAt("ready")
    /\ regs' = [meas |-> Meas(t, p, m), hum |-> h, config |-> Config(sb, f)]
    /\ bmepc' = "sleep"
    /\ UNCHANGED <<i2caddr, untried, chip, coeffs>> /\ KeepsData

(* ctrl_meas written: the humidity rate waiting is taken; a forced            *)
(* measurement begins, any other mode ends the one that runs.                 *)
WithMeas(r) == [chip EXCEPT !.meas = r, !.humSet = chip.hum, !.measuring = (ModeOf(r) = Forced)]

WriteSleep ==
    /\ BmeAt("sleep") /\ bmepc' = "hum"
    /\ chip' = WithMeas(Meas(0, 0, Sleep))
    /\ UNCHANGED <<i2caddr, untried, regs, coeffs>> /\ KeepsData

WriteHum ==
    /\ BmeAt("hum") /\ bmepc' = "config"
    /\ chip' = [chip EXCEPT !.hum = regs.hum]
    /\ UNCHANGED <<i2caddr, untried, regs, coeffs>> /\ KeepsData

WriteConfig ==
    /\ BmeAt("config") /\ bmepc' = "meas"
    /\ chip' = IF ModeOf(chip.meas) = Normal THEN chip ELSE [chip EXCEPT !.config = regs.config]
    /\ UNCHANGED <<i2caddr, untried, regs, coeffs>> /\ KeepsData

WriteMeas ==
    /\ BmeAt("meas") /\ bmepc' = "ready"
    /\ chip' = WithMeas(regs.meas)
    /\ forced' = 0 /\ reading' = NoReading
    /\ UNCHANGED <<i2caddr, untried, regs, coeffs, bus, done, values, tfine>>

-----------------------------------------------------------------------------
(* Measurements.                                                              *)

TakeForcedMeasurement ==
    /\ BmeAt("ready") /\ ModeOf(regs.meas) = Forced /\ done < MaxMeasured
    /\ chip' = WithMeas(regs.meas)
    /\ forced' = done + 1 /\ reading' = NoReading
    /\ bmepc' = "forced"
    /\ UNCHANGED <<i2caddr, untried, regs, coeffs, bus, done, values, tfine>>

(* Mutant: the measurement is not waited for.                                 *)
ForcedDone_AtOnce ==
    /\ BmeAt("forced") /\ bmepc' = "ready"
    /\ UNCHANGED <<i2caddr, untried, regs, chip, coeffs>> /\ KeepsData

(* while (status & 0x08)                                                      *)
ForcedDone ==
    /\ BmeAt("forced") /\ ~chip.measuring /\ bmepc' = "ready"
    /\ UNCHANGED <<i2caddr, untried, regs, chip, coeffs>> /\ KeepsData

(* readTemperature(), also from the other two: a value that was skipped       *)
(* leaves t_fine as it is.                                                    *)
TempRead == tfine' = IF values.t = Skipped THEN tfine ELSE values.t

ReadTemperature ==
    /\ BmeAt("ready")
    /\ TempRead
    /\ UNCHANGED <<i2caddr, untried, regs, chip, coeffs, bmepc, bus, done, values, forced, reading>>

CompensatesWith ==
    /\ BmeAt("ready")
    /\ TempRead
    /\ bmepc' \in {"p", "h"}
    /\ UNCHANGED <<i2caddr, untried, regs, chip, coeffs, bus, done, values, forced, reading>>

(* A burst of its own: by now a newer measurement may be there.               *)
ReadValue == \E k \in {"p", "h"} :
    /\ BmeAt(k) /\ bmepc' = "ready"
    /\ reading' = IF values[k] = Skipped \/ forced = 0 THEN NoReading ELSE [value |-> values[k], tfine |-> tfine]
    /\ UNCHANGED <<i2caddr, untried, regs, chip, coeffs, bus, done, values, tfine, forced>>

BmeCall ==
    \/ Begin \/ NotThere \/ SoftReset \/ ReadCoefficients
    \/ SetSampling \/ WriteSleep \/ WriteHum \/ WriteConfig \/ WriteMeas
    \/ TakeForcedMeasurement \/ ForcedDone \/ ReadTemperature \/ CompensatesWith \/ ReadValue

-----------------------------------------------------------------------------
(* The chip.                                                                  *)

CopyEnds ==
    /\ chip.copying
    /\ chip' = [chip EXCEPT !.copying = FALSE]
    /\ UNCHANGED <<bus, i2caddr, bmepc, untried, regs, done, values, tfine, coeffs, forced, reading>>

MeasureEnds ==
    /\ done < MaxMeasured
    /\ chip.measuring \/ ModeOf(chip.meas) = Normal
    /\ done' = done + 1
    /\ values' = [t |-> IF TempOf(chip.meas) = 0 THEN Skipped ELSE done',
                  p |-> IF PressOf(chip.meas) = 0 THEN Skipped ELSE done',
                  h |-> IF chip.humSet = 0 THEN Skipped ELSE done']
    /\ chip' = IF ModeOf(chip.meas) = Normal THEN chip
               ELSE [chip EXCEPT !.measuring = FALSE, !.meas = @ - Forced]
    /\ UNCHANGED <<bus, i2caddr, bmepc, untried, regs, tfine, coeffs, forced, reading>>

BmeNext == BmeCall \/ CopyEnds \/ MeasureEnds

BmeSpec == BmeInit /\ [][BmeNext]_bmeVars

-----------------------------------------------------------------------------
(* Once the driver is ready, the chip measures with what the last             *)
(* setSampling() asked for, whatever mode it was in (init 116-158,            *)
(* setSampling 172-197); the coefficients are those copied; after             *)
(* takeForcedMeasurement() (369-382) a value is of that measurement and, with *)
(* the temperature on, compensated with the temperature of the same one.      *)
MeasuresAsSet ==
    BmeAt("ready") =>
        /\ coeffs /\ bus[i2caddr] = ChipId
        /\ chip.humSet = regs.hum /\ chip.config = regs.config
        /\ TempOf(chip.meas) = TempOf(regs.meas) /\ PressOf(chip.meas) = PressOf(regs.meas)
        /\ ModeOf(chip.meas) \in {ModeOf(regs.meas)} \cup (IF ModeOf(regs.meas) = Forced THEN {Sleep} ELSE {})
        /\ forced # 0 /\ reading # NoReading =>
             /\ reading.value = forced
             /\ TempOf(regs.meas) # 0 => reading.tfine = forced
=============================================================================
