------------------------------ MODULE Gateway ------------------------------
(* The three containers of docker-compose.yml on one device: EMScollect       *)
(* (Collect), EMSconnect (Connect) and EMSrestart (restart.py), joined by the *)
(* directory data/connect, the clock and the uplink.                          *)
EXTENDS ConnectProperties

CONSTANTS Units, Minute, Period, Window, BateraiBound, CollectFaults,
          MaxCollectFaults

ASSUME GatewayAssumption == TicksPerDay % Minute = 0

VARIABLES cpc, unit, client, flagkirim, kirim, rooms, usb, cfaults,
          atZero, decided, served,
          rpc,        \* restart.py: "wait" or, with its first ping done, "check"
          rebooted    \* history: a reboot in the outage that lasts

(* A tick of the directory's clock is a second of the collector's.            *)
Collector == INSTANCE Collect WITH second <- tick % Minute

ASSUME GatewayCollectAssumption ==
    /\ Units \in Nat \ {0}
    /\ Period \in Nat \ {0} /\ Minute \in Nat \ {0} /\ Minute % Period = 0
    /\ Window \in 0 .. Period - 1

collectorVars == <<cpc, unit, client, flagkirim, kirim, rooms, usb, cfaults,
                   atZero, decided, served>>
restartVars == <<rpc, rebooted>>
gatewayVars == <<vars, collectorVars, restartVars>>

GatewayInit == Init /\ Collector!CollectInit /\ rpc = "wait" /\ rebooted = FALSE

-----------------------------------------------------------------------------
(* One process moves and the others do not notice. *)

ConnectMoves == ConnectStep /\ UNCHANGED <<collectorVars, restartVars>>

CollectMoves ==
    /\ UNCHANGED <<vars, restartVars>>
    /\ \/ Collector!Boot \/ Collector!Read \/ Collector!Parse
       \/ Collector!IntervalKirim \/ Collector!OpenFails
       \/ Collector!ClearFlag \/ Collector!Rest \/ Collector!Pause

(* The collector's append to the day file the connector works on. *)

CollectorOpens ==
    /\ DatakirimOpen
    /\ UNCHANGED <<procVars, envVars, restartVars>>
    /\ Collector!Open

CollectorWrites ==
    /\ DatakirimWrite
    /\ UNCHANGED <<procVars, envVars, restartVars>>
    /\ Collector!Write

TimePasses ==
    /\ Tick
    /\ UNCHANGED <<procVars, envVars, restartVars>>
    /\ Collector!NextSecond

-----------------------------------------------------------------------------
(* restart.py. *)

(* Every 1800 s: the first ping() is only printed. *)
RestartPing ==
    /\ rpc = "wait"
    /\ rpc' = "check"
    /\ UNCHANGED <<vars, collectorVars, rebooted>>

(* The second ping() answered. *)
RestartPass ==
    /\ rpc = "check"
    /\ internet
    /\ rpc' = "wait"
    /\ UNCHANGED <<vars, collectorVars, rebooted>>

(* The second ping() failed: os.system('reboot') restarts all containers. *)
RestartReboots ==
    /\ rpc = "check"
    /\ rpc' = "wait"
    /\ Reboot
    /\ Collector!Kill
    /\ rebooted' = TRUE

-----------------------------------------------------------------------------
(* Faults of a single container, of the broker and of the network. *)

CollectorIsKilled == CollectorCrash /\ UNCHANGED restartVars /\ Collector!Kill

UplinkChanges ==
    /\ \/ BrokerDown \/ BrokerUp \/ InternetDown \/ InternetUp
       \/ ConnectionLost \/ QueueDeleted \/ Crash
    /\ rebooted' = (rebooted /\ ~internet')
    /\ UNCHANGED <<collectorVars, rpc>>

AdapterChanges == UNCHANGED <<vars, restartVars>> /\ Collector!UsbChanges

GatewayNext ==
    \/ ConnectMoves \/ CollectMoves
    \/ CollectorOpens \/ CollectorWrites \/ TimePasses
    \/ RestartPing \/ RestartPass \/ RestartReboots
    \/ CollectorIsKilled \/ UplinkChanges \/ AdapterChanges

GatewaySpec == GatewayInit /\ [][GatewayNext]_gatewayVars

-----------------------------------------------------------------------------
(* Each step of the gateway is by construction one of the connector's         *)
(* specification and one of the collector's, or a stutter, so that what is    *)
(* shown of either alone holds of the gateway.                                *)
ImplementsParts == Spec /\ Collector!CollectSpec

(* An outage costs what is in memory at its first reboot, not more, however   *)
(* often restart.py reboots the device before the uplink is back (16-22): a   *)
(* connector that starts in an outage takes no line out of a day file and     *)
(* deletes no file (connect.py 119, 126-129), and an append cut by a reboot   *)
(* destroys no line that was there.                                           *)
RebootsLoseOnce ==
    [][(rebooted /\ ~internet') => Held \ Held' \subseteq Elems(backend')]_gatewayVars
=============================================================================
