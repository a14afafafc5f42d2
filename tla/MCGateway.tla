------------------------------ MODULE MCGateway ------------------------------
(* An instance of the composed gateway for TLC.                               *)
EXTENDS Gateway

GatewayFaults == {"internet", "reboot", "crash"}
SensorFaults  == {"kill", "disk", "usb"}
=============================================================================
