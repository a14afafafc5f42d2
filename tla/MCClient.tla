------------------------------ MODULE MCClient ------------------------------
(* Instances of the MQTT client for TLC.                                      *)
EXTENDS MqttClient

(* The client only takes differences of times, and reads t and waited only    *)
(* where a call has set them: states that differ otherwise behave alike.      *)
Differences ==
    <<prompt, mpc, sockVars, pingOutstanding, kind, got, inbox, peerVars, histVars,
      Since(lastIn), Since(lastOut),
      IF mpc \in {"rest", "callback"} THEN Since(t) ELSE 0,
      IF mpc \in {"connrest", "rest"} THEN Since(waited) ELSE 0>>
=============================================================================
