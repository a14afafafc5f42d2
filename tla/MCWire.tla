------------------------------- MODULE MCWire -------------------------------
(* What the node's libraries write and read: MQTT packets and requests, the   *)
(* portal's DNS, its arguments, replies and page, the sensor's registers.     *)
(* These components share no state, so one of them runs and the others rest   *)
(* where they start.                                                          *)
EXTENDS MqttPacket, MqttSession, Dns, HttpBody, HttpReply, WifiPage, Bme280

VARIABLE active

wireVars == <<packetVars, sessionVars, dnsVars, bodyVars, replyVars, pageVars, bmeVars, active>>

-----------------------------------------------------------------------------
(* Sizes around every boundary of the length arithmetic, at its real widths.  *)
SmallTopics == {1, 18, 121}
Near(n)     == {m \in n - 4 .. n + 1 : m >= 0}
Boundaries  == {0, 126 - 18, 126 - 121, 1024 - 25, 1024 - 23, 1024 - 128, 1024 - 126,
                16382, 16384 - 121, 65535, 65536 - 20, 65536 - 123}
SmallLoads  == UNION {Near(n) : n \in Boundaries}

(* node.local, www.node.local, nodwww.e.local, example                        *)
WireDomains == {Star, <<"nod", "e", Dot, "local">>}
WireNames   == {<<"nod", "e", Dot, "local">>, <<Www, Dot, "nod", "e", Dot, "local">>,
                <<"nod", Www, Dot, "e", Dot, "local">>, <<"example">>}

WireQueries  == SeqOf({"a", Amp, Eq, EscAmp, EscEq}, 4)
WireForms    == {<<"a">>, <<Amp>>, <<Eq>>, <<EscEq>>, <<"a", Eq>>, <<Amp, "a", Eq>>, <<"a", Eq, EscAmp, Eq>>}
WireFiles    == SeqOf({"x", CR, LF, Dash}, 4)
WireBoundary == <<Dash, "b">>

(* Handlers with the calls of the sketches: send(), chunks, a redirection,    *)
(* and serveStatic().                                                         *)
WireHandlers == <<
    [kind |-> "function", uri |-> "page", method |-> "ANY",
     calls |-> <<Call("sendHeader", "Content-Length", 3), Call("send", Unnamed, 3)>>],
    [kind |-> "function", uri |-> "list", method |-> "GET",
     calls |-> <<Call("setContentLength", Unnamed, Unknown), Call("send", Unnamed, 0), Call("sendContent", Unnamed, 2),
                 Call("sendContent", Unnamed, 1), Call("sendContent", Unnamed, 0)>>],
    [kind |-> "function", uri |-> "away", method |-> "ANY",
     calls |-> <<Call("sendHeader", "Location", 0), Call("send", Unnamed, 0)>>],
    [kind |-> "static", uri |-> {"a.js", "b.bin"}, method |-> "GET", calls |-> <<>>] >>
WireNotFound == <<Call("sendHeader", "Cache-Control", 0), Call("sendHeader", "Content-Length", 2), Call("send", Unnamed, 2)>>
WireRequests == [uri : {"page", "list", "away", "a.js", "b.bin"}, method : {"GET", "POST"}, version : {0, 1}]
WirePlain    == {"a.js", "b.bin"}
WireGz       == {"a.js.gz", "b.bin.gz"}
WirePaths    == WirePlain \cup WireGz \cup {"page", "list", "away"}
WireStored   == SUBSET (WirePlain \cup WireGz)
WireSize     == [p \in WirePaths |-> IF p \in WirePlain THEN 4 ELSE 2]
WireType     == [p \in WirePaths |-> IF p \in WireGz THEN "gzip" ELSE IF p = "b.bin" THEN "octet-stream" ELSE "known"]
WireGzOf     == [p \in WirePaths |-> IF p = "a.js" THEN "a.js.gz" ELSE IF p = "b.bin" THEN "b.bin.gz" ELSE p]

WireScans == UNION {[1 .. n -> [ssid : {"a", "b"}, rssi : {-96, -90, -40}]] : n \in 0 .. 3}
WireMins  == {-1, 8}

-----------------------------------------------------------------------------
Rests(component) == active # component

WireInit ==
    /\ active \in {"packet", "session", "dns", "body", "reply", "page", "bme"}
    /\ PacketInit  /\ (Rests("packet") => op = "publish" /\ tl = 1 /\ pl = 0)
    /\ SessionInit /\ (Rests("session") => hasCallback)
    /\ DnsInit     /\ (Rests("dns") => domain = Star /\ errorCode = 0)
    /\ BodyInit    /\ (Rests("body") => text = <<>> /\ body = "none")
    /\ ReplyInit   /\ (Rests("reply") => request = [uri |-> "page", method |-> "GET", version |-> 0] /\ stored = {})
    /\ PageInit    /\ (Rests("page") => minQuality = -1)
    /\ BmeInit     /\ (Rests("bme") => bus = [a \in Addresses |-> NoChip])

WireNext ==
    /\ UNCHANGED active
    /\ \/ active = "packet"  /\ PacketNext
            /\ UNCHANGED <<sessionVars, dnsVars, bodyVars, replyVars, pageVars, bmeVars>>
       \/ active = "session" /\ SessionNext
            /\ UNCHANGED <<packetVars, dnsVars, bodyVars, replyVars, pageVars, bmeVars>>
       \/ active = "dns"     /\ DnsNext
            /\ UNCHANGED <<packetVars, sessionVars, bodyVars, replyVars, pageVars, bmeVars>>
       \/ active = "body"    /\ BodyNext
            /\ UNCHANGED <<packetVars, sessionVars, dnsVars, replyVars, pageVars, bmeVars>>
       \/ active = "reply"   /\ ReplyNext
            /\ UNCHANGED <<packetVars, sessionVars, dnsVars, bodyVars, pageVars, bmeVars>>
       \/ active = "page"    /\ PageNext
            /\ UNCHANGED <<packetVars, sessionVars, dnsVars, bodyVars, replyVars, bmeVars>>
       \/ active = "bme"     /\ BmeNext
            /\ UNCHANGED <<packetVars, sessionVars, dnsVars, bodyVars, replyVars, pageVars>>

WireSpec == WireInit /\ [][WireNext]_wireVars
=============================================================================
