--------------------------------- MODULE Node ---------------------------------
(* The node's sketch MQTT-Publish.ino: a boot joins the WiFi, reaches the     *)
(* MQTT server, publishes one sample and goes to deep sleep, from which the   *)
(* timer or the button wakes it.  The portal (Portal.tla) and the MQTT client *)
(* (MqttClient.tla) appear by the results of their calls.                     *)
EXTENDS Naturals

VARIABLES
    npc,        \* where setup() or loop() is
    cause,      \* esp_sleep_get_wakeup_cause(): "ext0", "timer" or "none"
    station,    \* WiFi.status() == WL_CONNECTED
    uplink,     \* the server can be reached, if the station is connected
    session,    \* the client: "none", "up", or "cut" when it has not noticed
    callbacks,  \* setAPCallback() and setSaveConfigCallback() were called
    armed,      \* the sources that wake the chip: "button", "timer"
    ntp,        \* configTime() has been called
    times,      \* times and date: "blank", "now", or "old" after a sleep
    sample      \* history, of this boot: "none", "taken" by the socket, "refused"

nodeVars == <<npc, cause, station, uplink, session, callbacks, armed, ntp, times, sample>>
netVars  == <<station, uplink>>

Portals  == {"autoportal", "portal"}

(* Mutant: the buffers are kept over a boot.                                  *)
Boots_KeepsTimes(c) ==
    /\ npc' = "auto" /\ cause' = c
    /\ session' = "none" /\ callbacks' = FALSE /\ armed' = {}
    /\ ntp' = FALSE /\ sample' = "none"
    /\ times' = IF times = "now" THEN "old" ELSE times

(* The RAM of the last boot is lost.                                          *)
Boots(c) ==
    /\ npc' = "auto" /\ cause' = c
    /\ session' = "none" /\ callbacks' = FALSE /\ armed' = {}
    /\ ntp' = FALSE /\ times' = "blank" /\ sample' = "none"

NodeInit ==
    /\ npc = "auto" /\ cause = "none"
    /\ station = FALSE /\ uplink \in BOOLEAN
    /\ session = "none" /\ callbacks = FALSE /\ armed = {}
    /\ ntp = FALSE /\ times = "blank" /\ sample = "none"

At(place)   == npc = place
Goes(place) == npc' = place

-----------------------------------------------------------------------------
(* setup()                                                                    *)

(* autoConnect() with the network in flash.                                   *)
AutoConnects ==
    /\ At("auto") /\ Goes("callbacks")
    /\ station' = TRUE
    /\ UNCHANGED <<cause, uplink, session, callbacks, armed, ntp, times, sample>>

AutoConnectFails ==
    /\ At("auto") /\ ~station /\ Goes("autoportal")
    /\ UNCHANGED <<cause, netVars, session, callbacks, armed, ntp, times, sample>>

(* The portal ends when a network has been joined, which may be lost again    *)
(* before its result is taken; the result of autoConnect() is not looked at.  *)
AutoPortalEnds ==
    /\ At("autoportal") /\ Goes("callbacks")
    /\ station' \in BOOLEAN
    /\ UNCHANGED <<cause, uplink, session, callbacks, armed, ntp, times, sample>>

SetCallbacks ==
    /\ At("callbacks")
    /\ callbacks' = TRUE
    /\ npc' = IF cause = "ext0" THEN "portal" ELSE "arm"
    /\ UNCHANGED <<cause, netVars, session, armed, ntp, times, sample>>

(* wakeupSetAP(): startConfigPortal() returned TRUE.                          *)
PortalEnds ==
    /\ At("portal") /\ Goes("arm")
    /\ station' = TRUE
    /\ UNCHANGED <<cause, uplink, session, callbacks, armed, ntp, times, sample>>

(* It returned FALSE: ESP.restart().                                          *)
PortalFails ==
    /\ At("portal")
    /\ Boots("none")
    /\ station' = FALSE
    /\ UNCHANGED uplink

EnableButton ==
    /\ At("arm") /\ Goes("mqtt")
    /\ armed' = armed \cup {"button"}
    /\ UNCHANGED <<cause, netVars, session, callbacks, ntp, times, sample>>

(* mqttConnection(): an attempt that fails is repeated after two seconds, for *)
(* ever, and nothing looks after the WiFi.                                    *)
MqttFails ==
    /\ At("mqtt") /\ ~(station /\ uplink) /\ Goes("mqttwait")
    /\ UNCHANGED <<cause, netVars, session, callbacks, armed, ntp, times, sample>>

MqttWaits ==
    /\ At("mqttwait") /\ Goes("mqtt")
    /\ UNCHANGED <<cause, netVars, session, callbacks, armed, ntp, times, sample>>

MqttConnects ==
    /\ At("mqtt") /\ station /\ uplink /\ Goes("time")
    /\ session' = "up"
    /\ UNCHANGED <<cause, netVars, callbacks, armed, ntp, times, sample>>

(* Mutant: the timer is not set.                                              *)
ConfigTime_NoTimer ==
    /\ At("time") /\ Goes("loop")
    /\ ntp' = TRUE
    /\ UNCHANGED <<cause, netVars, session, callbacks, armed, times, sample>>

(* configTime(), and only now the timer.                                      *)
ConfigTime ==
    /\ At("time") /\ Goes("loop")
    /\ ntp' = TRUE
    /\ armed' = armed \cup {"timer"}
    /\ UNCHANGED <<cause, netVars, session, callbacks, times, sample>>

-----------------------------------------------------------------------------
(* loop()                                                                     *)

(* client.loop() may find the connection closed; its result is not used.      *)
ClientLoop ==
    /\ At("loop") /\ Goes("gettime")
    /\ session' \in IF session = "cut" THEN {"none", "cut"} ELSE {session}
    /\ UNCHANGED <<cause, netVars, callbacks, armed, ntp, times, sample>>

(* getTime(): without an answer within five seconds the buffers stay.         *)
GetTime ==
    /\ At("gettime") /\ Goes("publish")
    /\ times' \in IF ntp /\ station THEN {"now", times} ELSE {times}
    /\ UNCHANGED <<cause, netVars, session, callbacks, armed, ntp, sample>>

(* publish(): a lost connection that was not noticed takes the sample or not. *)
MqttPublish ==
    /\ At("publish") /\ Goes("sleep")
    /\ sample' \in CASE session = "up" -> {"taken"} [] session = "none" -> {"refused"}
                      [] OTHER -> {"taken", "refused"}
    /\ UNCHANGED <<cause, netVars, session, callbacks, armed, ntp, times>>

(* esp_deep_sleep_start(), whatever publish() said, and whether or not the    *)
(* socket has sent the sample.                                                *)
DeepSleep ==
    /\ At("sleep") /\ Goes("asleep")
    /\ station' = FALSE /\ session' = "none"
    /\ UNCHANGED <<cause, uplink, callbacks, armed, ntp, times, sample>>

TimerWakes ==
    /\ At("asleep") /\ "timer" \in armed
    /\ Boots("timer")
    /\ UNCHANGED netVars

ButtonWakes ==
    /\ At("asleep") /\ "button" \in armed
    /\ Boots("ext0")
    /\ UNCHANGED netVars

-----------------------------------------------------------------------------
(* The network.                                                               *)

Cut(s) == IF s = "up" THEN "cut" ELSE s

StationChanges ==
    /\ npc \notin {"asleep", "auto"} \cup Portals
    /\ station' = ~station
    /\ session' = IF station THEN Cut(session) ELSE session
    /\ UNCHANGED <<npc, cause, uplink, callbacks, armed, ntp, times, sample>>

UplinkChanges ==
    /\ uplink' = ~uplink
    /\ session' = IF uplink THEN Cut(session) ELSE session
    /\ UNCHANGED <<npc, cause, station, callbacks, armed, ntp, times, sample>>

SketchStep ==
    \/ AutoConnects \/ AutoConnectFails \/ SetCallbacks \/ EnableButton
    \/ MqttFails \/ MqttWaits \/ MqttConnects \/ ConfigTime \/ ClientLoop
    \/ GetTime \/ MqttPublish \/ DeepSleep
    \/ TimerWakes

NodeNext ==
    \/ SketchStep \/ AutoPortalEnds \/ PortalEnds \/ PortalFails \/ ButtonWakes
    \/ StationChanges \/ UplinkChanges

NodeSpec == NodeInit /\ [][NodeNext]_nodeVars

-----------------------------------------------------------------------------
(* A node that sleeps wakes again, by the timer and by the button, although   *)
(* each source is set at another place of setup() (303, 310); it has tried to  *)
(* publish one sample; and no sample is stamped with the time of an earlier   *)
(* boot when the time server does not answer (245-265).                       *)
SleepsInOrder ==
    /\ At("asleep") => armed = {"button", "timer"} /\ sample # "none"
    /\ At("publish") => times # "old" /\ sample = "none"

(* As long as someone finishes the portals and, in the end, neither the       *)
(* server nor the WiFi is away while the sketch waits for MQTT, it goes on    *)
(* publishing: that loop (99-114) ends, and so does each sleep (310, 334).    *)
KeepsReporting ==
    /\ <>[](uplink /\ (npc \in {"mqtt", "mqttwait"} => station))
    /\ ~<>[](npc \in Portals)
    => []<>At("publish")
=============================================================================
