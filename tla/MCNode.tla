------------------------------- MODULE MCNode -------------------------------
(* The sketch and the ping library, which share no state: one of them runs    *)
(* and the other rests where it starts.                                       *)
EXTENDS Node, Ping

VARIABLE active

nodePingVars == <<nodeVars, pingVars, active>>

NodePingInit == active \in {"node", "ping"} /\ NodeInit /\ PingInit /\ (active = "ping" => uplink)

NodePingNext ==
    /\ UNCHANGED active
    /\ \/ active = "node" /\ NodeNext /\ UNCHANGED pingVars
       \/ active = "ping" /\ PingNext /\ UNCHANGED nodeVars

(* Both run on; the timer and the timeout of a receive run out.               *)
NodePingSpec ==
    /\ NodePingInit /\ [][NodePingNext]_nodePingVars
    /\ WF_nodePingVars(active = "node" /\ SketchStep /\ UNCHANGED <<pingVars, active>>)
    /\ WF_nodePingVars(active = "ping" /\ PingStep /\ UNCHANGED <<nodeVars, active>>)

(* As long as the sketch is what runs, it goes on publishing.                 *)
SketchKeepsReporting == (active = "node") => KeepsReporting
=============================================================================
