----------------------------- MODULE MqttClient -----------------------------
(* PubSubClient, the node's MQTT client, against a broker and a clock: the    *)
(* connection, the keepalive of loop(), the packet reader with its timeout    *)
(* and the user's callback.  A packet on its way to the client is its type    *)
(* byte followed by "rest", its other bytes, which may come later and one by  *)
(* one: the reader waits for each of them anew.                               *)
EXTENDS Integers, Sequences

CONSTANTS
    KeepAlive,       \* MQTT_KEEPALIVE, in ticks of the clock
    SocketTimeout,   \* MQTT_SOCKET_TIMEOUT
    ClockMod,        \* 2^32, the values of millis()
    MaxGap,          \* assumption: ticks between two calls of loop(), and in a callback
    AnswerIn,        \* ticks in which a prompt broker answers
    RestIn,          \* ticks in which the rest of a packet of its follows the type byte
    RestBytes,       \* the most bytes after the type byte of a packet
    Backlog          \* bound: messages in flight to the client

ASSUME ClientAssumption ==
    /\ KeepAlive \in Nat \ {0} /\ SocketTimeout \in Nat \ {0}
    /\ MaxGap \in Nat \ {0} /\ Backlog \in Nat \ {0}
    /\ AnswerIn \in Nat /\ RestIn \in Nat /\ RestBytes \in Nat \ {0}
    /\ ClockMod \in Nat /\ ClockMod > KeepAlive + 3 * MaxGap + RestBytes * SocketTimeout
    /\ SocketTimeout <= KeepAlive

(* What makes a broker a prompt one: all of the rest of a packet comes before *)
(* the reader gives up, and the answer to a ping in time for the next one,    *)
(* after what was under way and the callbacks for it; until it has answered   *)
(* it begins no other message.                                                *)
ASSUME PromptAssumption ==
    /\ RestIn < SocketTimeout
    /\ RestIn + 2 * Backlog * MaxGap <= KeepAlive
    /\ AnswerIn + RestIn + MaxGap <= KeepAlive

VARIABLES
    prompt,   \* whether the broker, while it is alive, is a prompt one
    now,      \* millis()
    mpc,      \* where the sketch is: in its own code or in a call of the client
    sock,     \* the socket: "closed", "open" or "dead" (closed by the peer)
    state,    \* _state
    pingOutstanding, lastIn, lastOut,
    t,        \* loop()'s t
    waited,   \* readByte's previousMillis
    kind,     \* the type byte readPacket has read
    got,      \* bytes of the packet that it has waited for and read since
    inbox,    \* what the socket has for the client
    peer,     \* the broker: "none", "greeting" (CONNECT received), "serving", "hung"
    owed,     \* the packet of which the broker has sent only the type byte
    pings,    \* PINGREQs the broker has not answered
    gap,      \* history: ticks since loop() returned or the callback began
    late,     \* history: ticks the broker has been due to send something
    silence,  \* history: ticks since the broker heard from the client
    deaf      \* history: ticks since the broker hung

sockVars  == <<sock, state>>
timeVars  == <<pingOutstanding, lastIn, lastOut>>
callVars  == <<mpc, t, waited, kind, got>>
peerVars  == <<peer, owed, pings>>
histVars  == <<gap, late, silence, deaf>>
mqttVars  == <<prompt, now, sockVars, timeVars, callVars, inbox, peerVars, histVars>>

Clock   == 0 .. ClockMod - 1
Nothing == "nothing"
States  == {"disconnected", "connected", "lost", "failed", "timeout", "refused"}
Types   == {"connack", "refused", "publish0", "publish1", "pingresp"}

ClientTypeOK ==
    /\ prompt \in BOOLEAN
    /\ now \in Clock /\ lastIn \in Clock /\ lastOut \in Clock /\ t \in Clock /\ waited \in Clock
    /\ mpc \in {"user", "connack", "connrest", "rest", "callback"}
    /\ sock \in {"closed", "open", "dead"}
    /\ state \in States
    /\ pingOutstanding \in BOOLEAN
    /\ kind \in Types \cup {Nothing, "garbled"}
    /\ got \in 0 .. RestBytes - 1
    /\ inbox \in Seq(Types \cup {"rest"})
    /\ peer \in {"none", "greeting", "serving", "hung"}
    /\ owed \in Types \cup {Nothing}
    /\ pings \in 0 .. 2
    /\ gap \in Nat /\ late \in Nat /\ silence \in Nat /\ deaf \in Nat

ClientInit ==
    /\ prompt \in BOOLEAN
    /\ now = 0 /\ lastIn = 0 /\ lastOut = 0 /\ t = 0 /\ waited = 0
    /\ mpc = "user"
    /\ sock = "closed"
    /\ state = "disconnected"
    /\ pingOutstanding = FALSE
    /\ kind = Nothing /\ got = 0
    /\ inbox = <<>>
    /\ peer = "none" /\ owed = Nothing /\ pings = 0
    /\ gap = 0 /\ late = 0 /\ silence = 0 /\ deaf = 0

(* n - x, on unsigned integers; millis() - x                                  *)
Ago(n, x) == (n - x) % ClockMod
Since(x)  == Ago(now, x)

-----------------------------------------------------------------------------
(* The socket.                                                                *)

(* _client->stop(): the broker's session ends, what was under way is lost.    *)
Stop ==
    /\ sock' = "closed"
    /\ inbox' = <<>>
    /\ peer' = "none" /\ owed' = Nothing /\ pings' = 0
    /\ late' = 0 /\ silence' = 0 /\ deaf' = 0

(* connected(): a socket found closed after a session is CONNECTION_LOST.     *)
LostOr(s) == IF s = "connected" THEN "lost" ELSE s

FoundClosed ==
    /\ sock # "open"
    /\ state' = LostOr(state)
    /\ IF state = "connected" THEN Stop ELSE UNCHANGED <<sock, inbox, peerVars, late, silence, deaf>>

(* A call returns to the sketch: its local variables are gone.                *)
Return ==
    /\ mpc' = "user"
    /\ t' = 0 /\ waited' = 0 /\ kind' = Nothing /\ got' = 0

(* The broker hears from the client, if it still listens.                     *)
Heard == silence' = 0

-----------------------------------------------------------------------------
(* connect().                                                                 *)

(* The TCP connection fails, or a string does not fit the CONNECT packet, in  *)
(* which case _state keeps its value.                                         *)
ConnectFails ==
    /\ mpc = "user" /\ sock # "open"
    /\ state' \in {"failed", LostOr(state)}
    /\ Stop
    /\ UNCHANGED <<now, timeVars, callVars, gap>>

(* The CONNECT packet is written.                                             *)
ConnectSends ==
    /\ mpc = "user" /\ sock # "open"
    /\ state' = LostOr(state)
    /\ sock' = "open"
    /\ inbox' = <<>>
    /\ peer' = "greeting" /\ owed' = Nothing /\ pings' = 0
    /\ lastIn' = now /\ lastOut' = now
    /\ mpc' = "connack"
    /\ late' = 0 /\ silence' = 0 /\ deaf' = 0
    /\ UNCHANGED <<now, pingOutstanding, t, waited, kind, got, gap>>

(* The wait for the answer ends with its first byte or with the timeout.      *)
ConnackArrives ==
    /\ mpc = "connack" /\ inbox # <<>>
    /\ kind' = Head(inbox)
    /\ inbox' = Tail(inbox)
    /\ waited' = now
    /\ mpc' = "connrest"
    /\ UNCHANGED <<now, sockVars, timeVars, t, got, peerVars, histVars>>

ConnackTimeout ==
    /\ mpc = "connack" /\ inbox = <<>> /\ Since(lastIn) >= SocketTimeout
    /\ state' = "timeout"
    /\ Stop
    /\ Return /\ gap' = 0
    /\ UNCHANGED <<now, timeVars>>

(* The packet is taken for a CONNACK whose return code is 0.                  *)
Connected ==
    /\ mpc = "connrest" /\ inbox # <<>> /\ kind = "connack"
    /\ inbox' = Tail(inbox)
    /\ lastIn' = now
    /\ pingOutstanding' = FALSE
    /\ state' = "connected"
    /\ Return /\ gap' = 0
    /\ UNCHANGED <<now, sock, lastOut, peerVars, late, silence, deaf>>

(* Mutant: a refused connection is not closed.                                *)
Refused_StaysOpen ==
    /\ mpc = "connrest" /\ inbox # <<>> /\ kind = "refused"
    /\ state' = "refused"
    /\ inbox' = Tail(inbox)
    /\ Return /\ gap' = 0
    /\ UNCHANGED <<now, sock, timeVars, peerVars, late, silence, deaf>>

(* Any other return code becomes the state.                                   *)
Refused ==
    /\ mpc = "connrest" /\ inbox # <<>> /\ kind = "refused"
    /\ state' = "refused"
    /\ Stop
    /\ Return /\ gap' = 0
    /\ UNCHANGED <<now, timeVars>>

(* readPacket gives up on the CONNACK: _state keeps its value.                *)
ConnackCutOff ==
    /\ mpc = "connrest" /\ inbox = <<>> /\ Since(waited) >= SocketTimeout
    /\ Stop
    /\ Return /\ gap' = 0
    /\ UNCHANGED <<now, state, timeVars>>

-----------------------------------------------------------------------------
(* loop().                                                                    *)

(* The connection is gone.                                                    *)
LoopFindsClosed ==
    /\ mpc = "user"
    /\ FoundClosed
    /\ gap' = 0
    /\ UNCHANGED <<now, timeVars, callVars>>

(* Mutant: only the incoming side is watched.                                 *)
Expired_InOnly == Since(lastIn) > KeepAlive

(* Nothing came in, or nothing went out, for longer than KeepAlive.           *)
Expired == Since(lastIn) > KeepAlive \/ Since(lastOut) > KeepAlive

(* The last ping was not answered in time.                                    *)
LoopTimesOut ==
    /\ mpc = "user" /\ sock = "open"
    /\ Expired /\ pingOutstanding
    /\ state' = "timeout"
    /\ Stop
    /\ gap' = 0
    /\ UNCHANGED <<now, timeVars, callVars>>

(* Mutant: the ping is not remembered.                                        *)
SendPing_Forgotten ==
    IF Expired
    THEN /\ lastOut' = now /\ lastIn' = now /\ UNCHANGED pingOutstanding
         /\ pings' = IF peer = "serving" /\ pings < 2 THEN pings + 1 ELSE pings
         /\ Heard
    ELSE UNCHANGED <<timeVars, pings, silence>>

(* Mutant: the times are not set by the ping.                                 *)
SendPing_KeepsTimes ==
    IF Expired
    THEN /\ UNCHANGED <<lastIn, lastOut>> /\ pingOutstanding' = TRUE
         /\ pings' = IF peer = "serving" /\ pings < 2 THEN pings + 1 ELSE pings
         /\ Heard
    ELSE UNCHANGED <<timeVars, pings, silence>>

(* The keepalive of a loop() that goes on.                                    *)
SendPing ==
    IF Expired
    THEN /\ lastOut' = now /\ lastIn' = now /\ pingOutstanding' = TRUE
         /\ pings' = IF peer = "serving" /\ pings < 2 THEN pings + 1 ELSE pings
         /\ Heard
    ELSE UNCHANGED <<timeVars, pings, silence>>

(* One packet per call is read, if there is one.                              *)
LoopRuns ==
    /\ mpc = "user" /\ sock = "open"
    /\ ~(Expired /\ pingOutstanding)
    /\ SendPing
    /\ IF inbox = <<>>
       THEN UNCHANGED <<inbox, callVars>>
       ELSE /\ mpc' = "rest"
            /\ t' = now /\ waited' = now
            /\ kind' = IF Head(inbox) = "rest" THEN "garbled" ELSE Head(inbox)
            /\ inbox' = Tail(inbox)
            /\ UNCHANGED got
    /\ gap' = 0
    /\ UNCHANGED <<now, sockVars, peer, owed, late, deaf>>

(* readPacket has the packet: t is the time loop() was called.                *)
ReadPublish ==
    /\ mpc = "rest" /\ inbox # <<>> /\ kind \in {"publish0", "publish1"}
    /\ inbox' = Tail(inbox)
    /\ lastIn' = t
    /\ mpc' = "callback" /\ waited' = 0 /\ got' = 0 /\ gap' = 0
    /\ UNCHANGED <<now, sockVars, pingOutstanding, lastOut, t, kind, peerVars, late, silence, deaf>>

(* A PINGRESP.                                                                *)
ReadPingresp ==
    /\ mpc = "rest" /\ inbox # <<>> /\ kind = "pingresp"
    /\ inbox' = Tail(inbox)
    /\ lastIn' = t
    /\ pingOutstanding' = FALSE
    /\ Return /\ gap' = 0
    /\ UNCHANGED <<now, sockVars, lastOut, peerVars, late, silence, deaf>>

(* Mutant: the reader gives up one tick early.                                *)
ReadTimeout_Early ==
    /\ mpc = "rest" /\ inbox = <<>> /\ Since(waited) >= SocketTimeout - 1
    /\ IF sock = "open" THEN UNCHANGED <<sockVars, inbox, peerVars, late, silence, deaf>> ELSE FoundClosed
    /\ Return /\ gap' = 0
    /\ UNCHANGED <<now, timeVars>>

(* Mutant: the reader waits for as long as the socket is open.                *)
ReadTimeout_OnlyClosed ==
    /\ mpc = "rest" /\ sock # "open"
    /\ FoundClosed
    /\ Return /\ gap' = 0
    /\ UNCHANGED <<now, timeVars>>

(* The rest does not come: the packet is given up, the connection is not.     *)
ReadTimeout ==
    /\ mpc = "rest" /\ inbox = <<>> /\ Since(waited) >= SocketTimeout
    /\ IF sock = "open" THEN UNCHANGED <<sockVars, inbox, peerVars, late, silence, deaf>> ELSE FoundClosed
    /\ Return /\ gap' = 0
    /\ UNCHANGED <<now, timeVars>>

(* After such a loss of step the rest of a packet is read as a packet of its  *)
(* own: any type, any length, with whatever follows as its body, for each     *)
(* byte of which it waits.                                                    *)
ReadOn ==
    /\ mpc = "rest" /\ kind = "garbled" /\ inbox # <<>>
    /\ got < RestBytes - 1
    /\ inbox' = Tail(inbox)
    /\ got' = got + 1 /\ waited' = now
    /\ UNCHANGED <<now, sockVars, timeVars, mpc, t, kind, peerVars, histVars>>

ReadGarbled ==
    /\ mpc = "rest" /\ kind = "garbled" /\ sock = "open"
    /\ \/ /\ state' = "disconnected"        \* an invalid length field
          /\ Stop
          /\ Return
          /\ UNCHANGED timeVars
       \/ /\ \E n \in 0 .. Len(inbox) : inbox' = SubSeq(inbox, n + 1, Len(inbox))
          /\ \/ Return /\ UNCHANGED <<timeVars, silence>>                         \* too large
             \/ Return /\ lastIn' = t                                           \* of no use
                /\ UNCHANGED <<pingOutstanding, lastOut, silence>>
             \/ Return /\ lastIn' = t /\ pingOutstanding' = FALSE               \* a PINGRESP
                /\ UNCHANGED <<lastOut, silence>>
             \/ Return /\ lastIn' = t /\ Heard                                  \* a PINGREQ
                /\ UNCHANGED <<pingOutstanding, lastOut>>
             \/ mpc' = "callback" /\ waited' = 0 /\ got' = 0
                /\ lastIn' = t /\ kind' \in {"publish0", "publish1"}
                /\ UNCHANGED <<t, pingOutstanding, lastOut, silence>>
          /\ UNCHANGED <<sockVars, peerVars, late, deaf>>
    /\ gap' = 0
    /\ UNCHANGED now

-----------------------------------------------------------------------------
(* The callback and the sketch.                                               *)

(* The callback returns; a QoS 1 message is acknowledged.                     *)
CallbackReturns ==
    /\ mpc = "callback"
    /\ IF kind = "publish1"
       THEN lastOut' = t /\ silence' = IF sock = "open" THEN 0 ELSE silence
       ELSE UNCHANGED <<lastOut, silence>>
    /\ Return /\ gap' = 0
    /\ UNCHANGED <<now, sockVars, pingOutstanding, lastIn, inbox, peerVars, late, deaf>>

(* publish(), subscribe() and the like, from the sketch or from the callback. *)
PublishSends ==
    /\ mpc \in {"user", "callback"} /\ sock = "open"
    /\ lastOut' = now
    /\ Heard
    /\ UNCHANGED <<now, sockVars, pingOutstanding, lastIn, callVars, inbox, peerVars, gap, late, deaf>>

(* They look at the socket first.                                             *)
PublishFails ==
    /\ mpc \in {"user", "callback"}
    /\ FoundClosed
    /\ UNCHANGED <<now, timeVars, callVars, gap>>

(* disconnect() does not clear pingOutstanding; the next connect() does.      *)
Disconnect ==
    /\ mpc \in {"user", "callback"}
    /\ state' = "disconnected"
    /\ Stop
    /\ lastIn' = now /\ lastOut' = now
    /\ UNCHANGED <<now, pingOutstanding, callVars, gap>>

ClientStep == UNCHANGED prompt /\
    (\/ ConnackArrives \/ ConnackTimeout \/ Connected \/ Refused \/ ConnackCutOff
     \/ ReadPublish \/ ReadPingresp \/ ReadTimeout \/ ReadOn \/ ReadGarbled
     \/ CallbackReturns)

SketchStep == UNCHANGED prompt /\
    (\/ ConnectFails \/ ConnectSends \/ LoopFindsClosed \/ LoopTimesOut \/ LoopRuns
     \/ PublishSends \/ PublishFails \/ Disconnect)

-----------------------------------------------------------------------------
(* The broker and the network.                                                *)

Begins(type) ==
    /\ owed = Nothing
    /\ owed' = type
    /\ inbox' = Append(inbox, type)
    /\ late' = 0

BrokerGreets ==
    /\ peer = "greeting"
    /\ \E type \in {"connack", "refused"} : Begins(type)
    /\ UNCHANGED <<now, sockVars, timeVars, callVars, peer, pings, gap, silence, deaf>>

BrokerPublishes ==
    /\ peer = "serving" /\ (prompt => pings = 0)
    /\ Len(inbox) < 2 * Backlog
    /\ \E type \in {"publish0", "publish1"} : Begins(type)
    /\ UNCHANGED <<now, sockVars, timeVars, callVars, peer, pings, gap, silence, deaf>>

(* Bound: one that is not prompt answers when there is room.                  *)
BrokerAnswersPing ==
    /\ peer = "serving" /\ pings > 0
    /\ prompt \/ Len(inbox) < 2 * Backlog
    /\ Begins("pingresp")
    /\ pings' = pings - 1
    /\ UNCHANGED <<now, sockVars, timeVars, callVars, peer, gap, silence, deaf>>

(* A byte of the rest, not the last.  A reader that waits for it takes it and *)
(* waits anew; one that gave the packet up will take it for a type byte       *)
(* (bound: one such at a time).  Those that come before the packet is read    *)
(* make no difference.                                                        *)
BrokerSendsMore ==
    /\ owed # Nothing /\ peer # "hung" /\ inbox = <<>>
    /\ \/ /\ mpc \in {"connrest", "rest"} /\ got < RestBytes - 1
          /\ got' = got + 1 /\ waited' = now
          /\ UNCHANGED inbox
       \/ /\ mpc \in {"user", "callback"}
          /\ inbox' = <<"rest">>
          /\ UNCHANGED <<got, waited>>
    /\ UNCHANGED <<now, sockVars, timeVars, mpc, t, kind, peerVars, histVars>>

(* The last of them.                                                          *)
BrokerSendsRest ==
    /\ owed # Nothing /\ peer # "hung"
    /\ inbox' = Append(inbox, "rest")
    /\ owed' = Nothing
    /\ peer' = CASE owed = "connack" -> "serving"
                 [] owed = "refused" -> "hung"
                 [] OTHER            -> peer
    /\ late' = 0
    /\ UNCHANGED <<now, sockVars, timeVars, callVars, pings, gap, silence, deaf>>

BrokerHangs ==
    /\ peer \in {"greeting", "serving"}
    /\ peer' = "hung"
    /\ silence' = 0
    /\ UNCHANGED <<now, sockVars, timeVars, callVars, inbox, owed, pings, gap, late, deaf>>

PeerCloses ==
    /\ sock = "open"
    /\ sock' = "dead"
    /\ inbox' = <<>>
    /\ peer' = "none" /\ owed' = Nothing /\ pings' = 0
    /\ late' = 0 /\ silence' = 0 /\ deaf' = 0
    /\ UNCHANGED <<now, state, timeVars, callVars, gap>>

BrokerStep == UNCHANGED prompt /\
    (\/ BrokerGreets \/ BrokerPublishes \/ BrokerAnswersPing \/ BrokerSendsMore \/ BrokerSendsRest
     \/ BrokerHangs \/ PeerCloses)

(* Something the broker has to send: an answer, or the rest of a packet.      *)
Due == peer # "hung" /\ (peer = "greeting" \/ pings > 0 \/ owed # Nothing)

(* The client does not sleep: it may wait only in the sketch, in a callback   *)
(* or for a byte.                                                             *)
MayWait ==
    \/ mpc \in {"user", "callback"} /\ (sock = "open" => gap < MaxGap)
    \/ mpc = "connack" /\ inbox = <<>> /\ Since(lastIn) < SocketTimeout
    \/ mpc \in {"connrest", "rest"} /\ inbox = <<>> /\ Since(waited) < SocketTimeout

(* How long a live broker may keep the reader at one packet.                  *)
LongestRest == IF prompt THEN RestIn ELSE RestBytes * SocketTimeout

(* Bounds of the history counters: the longest times the properties allow.    *)
SilenceLimit == KeepAlive + 2 * MaxGap + LongestRest
DeafLimit    == 2 * (KeepAlive + MaxGap) + 2 * Backlog * MaxGap + SocketTimeout + MaxGap

Tick ==
    /\ MayWait
    /\ (prompt /\ Due) => late < (IF owed = Nothing THEN AnswerIn ELSE RestIn)
    /\ now' = (now + 1) % ClockMod
    /\ gap' = IF sock = "open" /\ gap < MaxGap THEN gap + 1 ELSE gap
    /\ late' = IF prompt /\ Due THEN late + 1 ELSE late
    /\ silence' = IF sock = "open" /\ peer # "hung" /\ silence <= SilenceLimit THEN silence + 1 ELSE silence
    /\ deaf' = IF prompt /\ peer = "hung" /\ deaf <= DeafLimit THEN deaf + 1 ELSE deaf
    /\ UNCHANGED <<prompt, sockVars, timeVars, callVars, inbox, peerVars>>

ClientNext == SketchStep \/ ClientStep \/ BrokerStep \/ Tick

ClientSpec == ClientInit /\ [][ClientNext]_mqttVars

(* A call runs, time passes, and what a prompt broker owes it sends.          *)
ClientFairSpec ==
    /\ ClientSpec
    /\ WF_mqttVars(ClientStep)
    /\ WF_mqttVars(Tick)
    /\ WF_mqttVars(prompt /\ Due /\ BrokerStep)

-----------------------------------------------------------------------------
(* connected() asks the socket only (601-616): outside connect() an open      *)
(* socket is one on which the broker has accepted the client.                 *)
SocketMeansSession ==
    /\ ClientTypeOK
    /\ (sock = "open" /\ mpc \in {"user", "rest", "callback"}) => state = "connected"

(* The broker hears from a client that calls loop() every MaxGap ticks at     *)
(* least once in KeepAlive ticks and one call of loop() with its callback     *)
(* (305-317), although lastOut may be set back to a time before that callback *)
(* (344).  A call of loop() lasts as long as the broker takes over a packet,  *)
(* which is up to one socket timeout for each byte of it (222-230).           *)
SilenceBounded ==
    (sock = "open" /\ peer = "serving") => silence <= SilenceLimit

(* A broker that hung is noticed within two keepalive periods, after the      *)
(* messages in flight and the cut off packet behind them were read (305-309). *)
HungIsNoticed ==
    (prompt /\ sock = "open" /\ mpc = "user") => deaf <= DeafLimit

(* A client that calls loop() often enough never gives up a broker that       *)
(* answers promptly, whatever that broker sent before it heard the ping and   *)
(* sends after the answer (305-309, 355-357).                                 *)
NoFalseAlarm ==
    [][(prompt /\ mpc = "user" /\ state = "connected" /\ state' = "timeout") => peer # "serving"]_mqttVars

(* Nor does it lose step with the packets of the broker (246-300).            *)
InStep == (prompt /\ mpc = "user" /\ inbox # <<>>) => Head(inbox) # "rest"

(* connect() and loop() return, whatever the broker does (223-230, 191-197):  *)
(* "to prevent it blocking indefinitely whilst waiting for inbound data".     *)
CallsReturn == (mpc # "user") ~> (mpc = "user")
=============================================================================
