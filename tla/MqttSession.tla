----------------------------- MODULE MqttSession -----------------------------
(* PubSubClient's requests: which server CONNECT goes to and what it holds,   *)
(* the ids of SUBSCRIBE and UNSUBSCRIBE, and the PUBACK of a received message *)
(* around the user's callback, which may call the client and so reuse the     *)
(* one buffer.  Strings are their lengths; timing is left to MqttClient.tla.  *)
EXTENDS Integers, Sequences, FiniteSets, FiniteSetsExt

CONSTANTS
    IdMod,        \* 2^16, the values of nextMsgId
    BufferSize,   \* MQTT_MAX_PACKET_SIZE
    HeaderRoom,   \* MQTT_MAX_HEADER_SIZE
    VersionLen,   \* MQTT_HEADER_VERSION_LENGTH
    StringLens,   \* lengths of ids, topics, users, ...
    MessageIds,   \* ids the broker gives its QoS 1 messages
    Absent,       \* NULL
    MaxRequests   \* bound: SUBSCRIBEs and UNSUBSCRIBEs of one connection

ASSUME SessionAssumption ==
    /\ IdMod \in Nat /\ IdMod > 2
    /\ MessageIds \subseteq 1 .. IdMod - 1
    /\ StringLens \subseteq Nat /\ Absent \notin StringLens /\ Absent \notin {"ip", "domain"}
    /\ HeaderRoom = 5 /\ VersionLen \in Nat
    /\ BufferSize \in Nat /\ BufferSize >= HeaderRoom + VersionLen + 3

VARIABLES
    server,     \* domain and ip of setServer()
    hasCallback,
    linked,     \* the server the socket is connected to, or Absent
    lastAsked,  \* history: the argument of the last setServer()
    nextMsgId,
    requestIds, \* history: the ids of this connection's requests
    built,      \* history: the request built last: its fields and its last byte in the buffer
    bufferId,   \* the message id that lies in the buffer
    msgId,      \* loop()'s msgId while the callback runs, else 0
    unacked,    \* the broker: QoS 1 messages sent on this connection, not acknowledged
    unheard,    \* history: those that came without a callback
    stray       \* history: a PUBACK came for none of them

sessionVars == <<server, hasCallback, linked, lastAsked, nextMsgId, requestIds, built,
                 bufferId, msgId, unacked, unheard, stray>>

NoRequest == [kind |-> "none", fields |-> <<>>, end |-> 0]
Strings   == StringLens \cup {Absent}

SessionInit ==
    /\ server = [domain |-> Absent, ip |-> "0"]
    /\ hasCallback \in BOOLEAN
    /\ linked = Absent /\ lastAsked = Absent
    /\ nextMsgId = 0
    /\ requestIds = <<>> /\ built = NoRequest
    /\ bufferId = 0 /\ msgId = 0
    /\ unacked = {} /\ unheard = {} /\ stray = FALSE

InCallback == msgId # 0
KeepsAcks  == UNCHANGED <<msgId, unacked, unheard, stray>>

(* setServer(), also from the constructors: a name is preferred to an         *)
(* address, which therefore takes the name back.                              *)
SetServerIp ==
    /\ ~InCallback /\ linked = Absent
    /\ server' = [domain |-> Absent, ip |-> "ip"]
    /\ lastAsked' = "ip"
    /\ UNCHANGED <<hasCallback, linked, nextMsgId, requestIds, built, bufferId>> /\ KeepsAcks

SetServerDomain ==
    /\ ~InCallback /\ linked = Absent
    /\ server' = [server EXCEPT !.domain = "domain"]
    /\ lastAsked' = "domain"
    /\ UNCHANGED <<hasCallback, linked, nextMsgId, requestIds, built, bufferId>> /\ KeepsAcks

SetCallback ==
    /\ ~InCallback
    /\ hasCallback' = ~hasCallback
    /\ UNCHANGED <<server, linked, lastAsked, nextMsgId, requestIds, built, bufferId>> /\ KeepsAcks

-----------------------------------------------------------------------------
(* connect().                                                                 *)

(* The strings that follow the fixed part: the will with its message, and a   *)
(* password only behind a user.                                               *)
Payload(id, will, user, pass) ==
    <<id>> \o (IF will = Absent THEN <<>> ELSE <<will, will>>)
           \o (IF user = Absent THEN <<>> ELSE <<user>>)
           \o (IF user = Absent \/ pass = Absent THEN <<>> ELSE <<pass>>)

Flags(will, user, pass) ==
    [will |-> will # Absent, user |-> user # Absent, pass |-> user # Absent /\ pass # Absent]

EndOf(strings) ==
    LET end[i \in 0 .. Len(strings)] ==
            IF i = 0 THEN HeaderRoom + VersionLen + 3 ELSE end[i - 1] + 2 + strings[i]
    IN  end

(* CHECK_STRING_LENGTH before each string.                                    *)
Fits(strings) == \A i \in DOMAIN strings : EndOf(strings)[i] <= BufferSize

NewConnection ==
    /\ nextMsgId' = 1
    /\ requestIds' = <<>>
    /\ unacked' = {} /\ unheard' = {}

(* The packet is sent and the server accepts.                                 *)
Connect == \E id \in StringLens, will, user, pass \in Strings :
    /\ ~InCallback /\ linked = Absent /\ lastAsked # Absent
    /\ LET strings == Payload(id, will, user, pass) IN
         /\ Fits(strings)
         /\ built' = [kind |-> "connect", flags |-> Flags(will, user, pass),
                       fields |-> strings, end |-> EndOf(strings)[Len(strings)]]
    /\ linked' = IF server.domain # Absent THEN server.domain ELSE server.ip
    /\ NewConnection
    /\ bufferId' = 0
    /\ UNCHANGED <<server, hasCallback, lastAsked, msgId, stray>>

(* A string does not fit, or the server does not take the connection.         *)
ConnectRefused ==
    /\ ~InCallback /\ linked = Absent /\ lastAsked # Absent
    /\ NewConnection
    /\ bufferId' = 0 /\ built' = NoRequest
    /\ UNCHANGED <<server, hasCallback, linked, lastAsked, msgId, stray>>

-----------------------------------------------------------------------------
(* subscribe() and unsubscribe(), also from the callback.                     *)

(* Mutant: the id after the last one is 0.                                    *)
IdAfter_Wraps(n) == (n + 1) % IdMod

IdAfter(n) == IF (n + 1) % IdMod = 0 THEN 1 ELSE (n + 1) % IdMod

(* Two bytes of id, the topic, and the QoS for a SUBSCRIBE.                   *)
Request(kind, topic) ==
    /\ linked # Absent /\ BufferSize >= 9 + topic
    /\ Len(requestIds) < MaxRequests
    /\ nextMsgId' = IdAfter(nextMsgId)
    /\ requestIds' = Append(requestIds, nextMsgId')
    /\ built' = [kind |-> kind, fields |-> <<topic>>,
                  end |-> HeaderRoom + 2 + 2 + topic + (IF kind = "subscribe" THEN 1 ELSE 0)]
    /\ bufferId' = nextMsgId'
    /\ UNCHANGED <<server, hasCallback, linked, lastAsked>> /\ KeepsAcks

Subscribe   == \E topic \in StringLens, qos \in 0 .. 2 : qos <= 1 /\ Request("subscribe", topic)
Unsubscribe == \E topic \in StringLens : Request("unsubscribe", topic)

(* publish(), ping and disconnect() write over what is in the buffer.         *)
OtherPacket ==
    /\ linked # Absent
    /\ bufferId' = 0 /\ built' = NoRequest
    /\ UNCHANGED <<server, hasCallback, linked, lastAsked, nextMsgId, requestIds>> /\ KeepsAcks

-----------------------------------------------------------------------------
(* loop() reads a PUBLISH of QoS 1.                                           *)

ReceiveQos1 == \E id \in MessageIds \ unacked :
    /\ linked # Absent /\ ~InCallback /\ hasCallback
    /\ unacked' = unacked \cup {id}
    /\ bufferId' = id /\ msgId' = id
    /\ built' = NoRequest
    /\ UNCHANGED <<server, hasCallback, linked, lastAsked, nextMsgId, requestIds, unheard, stray>>

(* Without a callback the message is dropped and never acknowledged.          *)
ReceiveUnheard == \E id \in MessageIds \ unacked :
    /\ linked # Absent /\ ~InCallback /\ ~hasCallback
    /\ unacked' = unacked \cup {id} /\ unheard' = unheard \cup {id}
    /\ bufferId' = id
    /\ built' = NoRequest
    /\ UNCHANGED <<server, hasCallback, linked, lastAsked, nextMsgId, requestIds, msgId, stray>>

Puback(id) ==
    /\ unacked' = unacked \ {id}
    /\ stray' = (stray \/ (linked # Absent /\ id \notin unacked))

(* Mutant: the id is taken from the buffer after the callback.                *)
CallbackReturns_FromBuffer ==
    /\ InCallback
    /\ Puback(bufferId)
    /\ msgId' = 0 /\ bufferId' = 0 /\ built' = NoRequest
    /\ UNCHANGED <<server, hasCallback, linked, lastAsked, nextMsgId, requestIds, unheard>>

(* PUBACK with the id read before the callback.                               *)
CallbackReturns ==
    /\ InCallback
    /\ Puback(msgId)
    /\ msgId' = 0 /\ bufferId' = 0 /\ built' = NoRequest
    /\ UNCHANGED <<server, hasCallback, linked, lastAsked, nextMsgId, requestIds, unheard>>

(* disconnect(), or the connection is lost.                                   *)
Disconnected ==
    /\ linked # Absent
    /\ linked' = Absent
    /\ unacked' = {} /\ unheard' = {} /\ requestIds' = <<>>
    /\ built' = NoRequest /\ bufferId' = 0
    /\ UNCHANGED <<server, hasCallback, lastAsked, nextMsgId, msgId, stray>>

SessionNext ==
    \/ SetServerIp \/ SetServerDomain \/ SetCallback \/ Connect \/ ConnectRefused
    \/ Subscribe \/ Unsubscribe \/ OtherPacket
    \/ ReceiveQos1 \/ ReceiveUnheard \/ CallbackReturns \/ Disconnected

SessionSpec == SessionInit /\ [][SessionNext]_sessionVars

-----------------------------------------------------------------------------
(* Every message handed to the callback is acknowledged once, by its own id   *)
(* and on the connection it came by, whatever the callback does with the      *)
(* client short of reconnecting (loop 324-350).                               *)
AcksNameMessages ==
    /\ ~stray
    /\ linked # Absent /\ ~InCallback => unacked = unheard

(* A request goes to the server named last, ends inside the buffer, announces *)
(* the strings it holds, and has an id that is neither 0 nor that of one of   *)
(* the requests just before it (connect 120-187, subscribe 530-556,           *)
(* unsubscribe 558-575).  One topic length is excepted: the longest subscribe *)
(* accepts ends one byte behind the buffer.                                   *)
RequestsAsAsked ==
    /\ linked # Absent => linked = lastAsked
    /\ built.end <= BufferSize \/ (built.kind = "subscribe" /\ built.fields[1] + 9 = BufferSize)
    /\ built.kind = "connect" =>
         Len(built.fields) = 1 + (IF built.flags.will THEN 2 ELSE 0)
                                + Cardinality({f \in {"user", "pass"} : built.flags[f]})
    /\ \A i, j \in DOMAIN requestIds :
         /\ requestIds[i] # 0
         /\ (i < j /\ j - i < IdMod - 1) => requestIds[i] # requestIds[j]
=============================================================================
