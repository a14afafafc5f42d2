------------------------------ MODULE Collect ------------------------------
(* service/collect/collect.py: the process that reads the sensors over Modbus *)
(* and, twice a minute, hands a sample to the connector by appending it to    *)
(* the day file.  The append itself is DataDir's DatakirimOpen and            *)
(* DatakirimWrite; here it is the pair of steps Open and Write.               *)
EXTENDS Integers

CONSTANTS
    Units,          \* parse_json: range(1,4)
    Minute,         \* seconds of a minute
    Period,         \* intervalkirim: waktukirim % 30
    Window,         \* intervalkirim: kirim <= 2
    BateraiBound,   \* the global name `baterai` of line 92 is bound
    CollectFaults,  \* the kinds of fault that may happen
    MaxCollectFaults \* bound: how many of them happen

CollectFaultKinds == {"usb", "modbus", "disk", "kill"}

ASSUME CollectAssumption ==
    /\ Units \in Nat \ {0}
    /\ Period \in Nat \ {0} /\ Minute \in Nat \ {0} /\ Minute % Period = 0
    /\ Window \in 0 .. Period - 1
    /\ BateraiBound \in BOOLEAN
    /\ CollectFaults \subseteq CollectFaultKinds
    /\ MaxCollectFaults \in Nat

VARIABLES
    cpc,        \* the statement the process is about to run
    unit,       \* parse_json's loop variable
    client,     \* SensorModbus has the attribute `client`
    flagkirim,  \* self.flagkirim
    kirim,      \* intervalkirim's local: the second modulo Period
    rooms,      \* the rooms that have a line in data/collect
    second,     \* datetime.now().second
    usb,        \* a ttyUSB adapter is plugged in
    cfaults,    \* how many faults happened
    atZero,     \* history: hand-overs begun in this visit of kirim = 0
    decided,    \* history: samples decided after second 0 of this window, up to 2
    served      \* history: some hand-over began in this window

ctlVars  == <<cpc, unit, client, flagkirim, kirim, rooms>>
histVars == <<atZero, decided, served>>
collectVars == <<ctlVars, second, usb, cfaults, histVars>>

CLabels == {"boot", "read", "parse", "interval", "open", "write", "flag",
            "rest", "pause"}

(* parse_json 84-90: the second if overrides the first one's choice.          *)
IdPerangkat(u) == IF u = 2 THEN "Ruang Panel Listrik 1" ELSE "Ruang Panel Listrik 2"

CollectTypeOK ==
    /\ cpc \in CLabels
    /\ unit \in 1 .. Units
    /\ client \in BOOLEAN
    /\ flagkirim \in BOOLEAN
    /\ kirim \in 0 .. Period - 1
    /\ rooms \subseteq {IdPerangkat(u) : u \in 1 .. Units}
    /\ second \in 0 .. Minute - 1
    /\ usb \in BOOLEAN
    /\ cfaults \in 0 .. MaxCollectFaults
    /\ atZero \in Nat
    /\ decided \in 0 .. 2
    /\ served \in BOOLEAN

CollectInit ==
    /\ cpc = "boot"
    /\ unit = 1
    /\ client = FALSE
    /\ flagkirim = TRUE
    /\ kirim = 0
    /\ rooms = {}
    /\ second = 0
    /\ usb \in BOOLEAN
    /\ cfaults = 0
    /\ atZero = 0
    /\ decided = 0
    /\ served = FALSE

Step(from, to) == cpc = from /\ cpc' = to

CollectFault(kind) ==
    /\ kind \in CollectFaults
    /\ cfaults < MaxCollectFaults
    /\ cfaults' = cfaults + 1

-----------------------------------------------------------------------------
(* SensorModbus.__init__ and ParseClass.__init__: the ports are searched      *)
(* once; without a ttyUSB the attribute `client` is never set.                *)
Boot ==
    /\ Step("boot", "read")
    /\ client' = usb
    /\ flagkirim' = TRUE
    /\ unit' = 1
    /\ UNCHANGED <<kirim, rooms, second, usb, cfaults, histVars>>

(* temperaturehumidity: both registers are read.  A missing attribute, an     *)
(* unplugged adapter or an error answer raises, which ends the whole cycle.   *)
Read ==
    /\ \/ client /\ usb /\ Step("read", "parse") /\ UNCHANGED cfaults
       \/ client /\ usb /\ Step("read", "pause") /\ CollectFault("modbus")
       \/ ~(client /\ usb) /\ Step("read", "pause") /\ UNCHANGED cfaults
    /\ UNCHANGED <<unit, client, flagkirim, kirim, rooms, second, usb, histVars>>

(* parse_data takes the global `baterai`: a NameError ends the cycle when it  *)
(* is not bound.  parse_datalog then appends the sample to the room's file.   *)
Parse ==
    /\ IF BateraiBound
       THEN Step("parse", "interval") /\ rooms' = rooms \cup {IdPerangkat(unit)}
       ELSE Step("parse", "pause") /\ UNCHANGED rooms
    /\ UNCHANGED <<unit, client, flagkirim, kirim, second, usb, cfaults, histVars>>

(* Mutant: the flag is set again only outside the window.                     *)
FlagAfter_OutsideWindow(flag, k) == flag \/ k > Window

(* What the flag becomes at the end of intervalkirim (108-109).               *)
FlagAfter(flag, k) == flag \/ k # 0

(* intervalkirim: is it time to send, and was nothing sent yet?               *)
Due(k) == 0 <= k /\ k <= Window /\ flagkirim

(* intervalkirim.  The second is read once, when it is called.                *)
IntervalKirim ==
    LET k == second % Period IN
    /\ Step("interval", IF Due(k) THEN "open" ELSE "rest")
    /\ kirim' = k
    /\ flagkirim' = IF Due(k) THEN flagkirim ELSE FlagAfter(flagkirim, k)
    /\ atZero' = IF Due(k) /\ k = 0 THEN atZero + 1 ELSE atZero
    /\ decided' = IF k \in 1 .. Window /\ decided < 2 THEN decided + 1 ELSE decided
    /\ served' = (served \/ Due(k))
    /\ UNCHANGED <<unit, client, rooms, second, usb, cfaults>>

(* datakirim: the day file is opened ...                                      *)
Open ==
    /\ Step("open", "write")
    /\ UNCHANGED <<unit, client, flagkirim, kirim, rooms, second, usb, cfaults, histVars>>

(* ... and written.                                                           *)
Write ==
    /\ Step("write", "flag")
    /\ UNCHANGED <<unit, client, flagkirim, kirim, rooms, second, usb, cfaults, histVars>>

(* datakirim's handler: the file cannot be opened (disk full, read-only).     *)
OpenFails ==
    /\ CollectFault("disk")
    /\ Step("open", "flag")
    /\ UNCHANGED <<unit, client, flagkirim, kirim, rooms, second, usb, histVars>>

(* Mutant: the flag is cleared and set again whatever the second was.         *)
ClearFlag_Always ==
    /\ Step("flag", "rest")
    /\ flagkirim' = TRUE
    /\ UNCHANGED <<unit, client, kirim, rooms, second, usb, cfaults, histVars>>

(* intervalkirim, back from datakirim: flagkirim = False, then lines 108-109. *)
ClearFlag ==
    /\ Step("flag", "rest")
    /\ flagkirim' = FlagAfter(FALSE, kirim)
    /\ UNCHANGED <<unit, client, kirim, rooms, second, usb, cfaults, histVars>>

(* Mutant: each cycle ends after its first unit.                              *)
Rest_FirstUnitOnly ==
    /\ Step("rest", "pause")
    /\ UNCHANGED <<unit, client, flagkirim, kirim, rooms, second, usb, cfaults, histVars>>

(* The half second between units, and the next turn of the loop.              *)
Rest ==
    /\ Step("rest", IF unit < Units THEN "read" ELSE "pause")
    /\ unit' = IF unit < Units THEN unit + 1 ELSE unit
    /\ UNCHANGED <<client, flagkirim, kirim, rooms, second, usb, cfaults, histVars>>

(* main: the 0.1 s pause, then parse_json starts again with the first unit.   *)
Pause ==
    /\ Step("pause", "read")
    /\ unit' = 1
    /\ UNCHANGED <<client, flagkirim, kirim, rooms, second, usb, cfaults, histVars>>

-----------------------------------------------------------------------------
(* The environment.                                                           *)

(* The process is killed; docker starts it again.                             *)
CollectRestarts ==
    /\ cpc' = "boot"
    /\ atZero' = 0
    /\ decided' = 0
    /\ UNCHANGED <<unit, client, flagkirim, kirim, rooms, second, usb, served>>

Kill == CollectFault("kill") /\ CollectRestarts

UsbChanges ==
    /\ CollectFault("usb")
    /\ usb' = ~usb
    /\ UNCHANGED <<ctlVars, second, histVars>>

(* A second passes.  A new window opens every Period seconds.                 *)
NextSecond ==
    /\ second' = (second + 1) % Minute
    /\ IF second' % Period = 0
       THEN atZero' = 0 /\ decided' = 0 /\ served' = FALSE
       ELSE UNCHANGED histVars
    /\ UNCHANGED <<ctlVars, usb, cfaults>>

CollectStep ==
    \/ Boot \/ Read \/ Parse \/ IntervalKirim
    \/ Open \/ OpenFails \/ Write \/ ClearFlag \/ Rest \/ Pause

CollectNext == CollectStep \/ Kill \/ UsbChanges \/ NextSecond

CollectSpec == CollectInit /\ [][CollectNext]_collectVars

(* The process is scheduled and the clock runs.                               *)
CollectFairSpec == CollectSpec /\ WF_collectVars(CollectStep) /\ WF_collectVars(NextSecond)

-----------------------------------------------------------------------------
(* The second 0 of a window is visited by many samples, yet one process life  *)
(* hands over at most one of them (flagkirim, 104-109).                       *)
OneHandoverAtZero == CollectTypeOK /\ atZero <= 1

(* A window is not missed because of a flag left over from an earlier one,    *)
(* however long the collector was stalled since: two samples after second 0   *)
(* are enough (the first one sets the flag again, 108-109).                   *)
WindowServed == decided = 2 => served

(* Once reads stop failing every unit is sampled again and again: no failure, *)
(* not even one in the middle of a cycle, loses a unit for good (82-98).      *)
EveryUnitSampled ==
    \A u \in 1 .. Units :
        <>[](client /\ usb) => []<>(cpc = "interval" /\ unit = u)

(* README.md:3, the project collects the sensors' data: with the adapter      *)
(* plugged in and no fault, some room gets a line in data/collect.            *)
EventuallyRecorded == [](usb => <>(rooms # {}))
=============================================================================
