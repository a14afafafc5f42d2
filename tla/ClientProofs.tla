---------------------------- MODULE ClientProofs ----------------------------
(* The timing of PubSubClient, for every keepalive, timeout, clock width and  *)
(* backlog: an open socket is a session, the reader keeps in step with a      *)
(* prompt broker, which is never given up, a hung one is noticed, and the     *)
(* broker never waits long for the client.                                    *)
EXTENDS MqttClient, SequenceTheorems, TLAPS

(* The clock's differences wrap as the clock does.                            *)
LEMMA AgoType == \A n, x \in Clock : Ago(n, x) \in Clock /\ Ago(n, n) = 0
BY ClientAssumption DEF Clock, Ago

LEMMA AgoTick ==
    ASSUME NEW n \in Clock, NEW x \in Clock
    PROVE  /\ (n + 1) % ClockMod \in Clock
           /\ Ago((n + 1) % ClockMod, x) = IF Ago(n, x) + 1 = ClockMod THEN 0 ELSE Ago(n, x) + 1
<1>1. ClockMod \in Nat \ {0}
    BY ClientAssumption
<1>2. (n + 1) % ClockMod = IF n + 1 = ClockMod THEN 0 ELSE n + 1
    BY <1>1 DEF Clock
<1>3. \A m \in Clock : Ago(m, x) = IF m >= x THEN m - x ELSE m - x + ClockMod
    BY <1>1 DEF Clock, Ago
<1> QED
    BY <1>1, <1>2, <1>3 DEF Clock

-----------------------------------------------------------------------------
(* Types.                                                                     *)

LEMMA ClientTypeInit == ClientInit => ClientTypeOK
<1> SUFFICES ASSUME ClientInit PROVE ClientTypeOK
    OBVIOUS
<1>1. 0 \in Clock
    BY ClientAssumption DEF Clock
<1>2. prompt \in BOOLEAN /\ pingOutstanding \in BOOLEAN
    BY DEF ClientInit
<1>6. inbox \in Seq(Types \cup {"rest"})
    BY DEF ClientInit
<1>3. now \in Clock /\ lastIn \in Clock /\ lastOut \in Clock /\ t \in Clock /\ waited \in Clock
    BY <1>1 DEF ClientInit
<1>4. gap \in Nat /\ late \in Nat /\ silence \in Nat /\ deaf \in Nat /\ pings \in 0 .. 2
    BY DEF ClientInit
<1>5. /\ mpc \in {"user", "connack", "connrest", "rest", "callback"}
      /\ sock \in {"closed", "open", "dead"} /\ state \in States
      /\ kind \in Types \cup {Nothing, "garbled"} /\ owed \in Types \cup {Nothing}
      /\ peer \in {"none", "greeting", "serving", "hung"}
    BY DEF ClientInit, States, Nothing
<1>7. got \in 0 .. RestBytes - 1
    BY ClientAssumption DEF ClientInit
<1> QED
    BY <1>2, <1>3, <1>4, <1>5, <1>6, <1>7 DEF ClientTypeOK

(* While the client waits for a CONNACK, a type byte comes first.             *)
Opening == mpc = "connack" => IF inbox = <<>> THEN owed = Nothing ELSE Head(inbox) # "rest"

LEMMA InboxFacts ==
    ASSUME NEW S, NEW q \in Seq(S)
    PROVE  /\ Len(q) \in Nat
           /\ q # <<>> => /\ Head(q) \in S /\ Head(q) = q[1] /\ Tail(q) \in Seq(S) 
                          /\ Len(q) > 0 /\ Len(Tail(q)) = Len(q) - 1
                          /\ \A i \in 1 .. Len(Tail(q)) : Tail(q)[i] = q[i + 1]
           /\ \A x \in S : /\ Append(q, x) \in Seq(S) /\ Len(Append(q, x)) = Len(q) + 1
                           /\ \A i \in 1 .. Len(q) : Append(q, x)[i] = q[i]
                           /\ Append(q, x)[Len(q) + 1] = x
                           /\ Append(q, x) # <<>>
                           /\ q # <<>> => Head(Append(q, x)) = Head(q)
                           /\ q = <<>> => Head(Append(q, x)) = x
OBVIOUS

LEMMA ClientTypeStep == ClientTypeOK /\ Opening /\ [ClientNext]_mqttVars => ClientTypeOK'
    /\ Opening'
<1> SUFFICES ASSUME ClientTypeOK, Opening, [ClientNext]_mqttVars PROVE ClientTypeOK' /\ Opening'
    OBVIOUS
<1>b. /\ 0 \in Clock /\ Nothing \in Types \cup {Nothing, "garbled"}
         /\ Nothing \in Types \cup {Nothing}
      /\ <<>> \in Seq(Types \cup {"rest"})
      /\ 0 \in 0 .. RestBytes - 1
      /\ got < RestBytes - 1 => got + 1 \in 0 .. RestBytes - 1
    BY ClientAssumption DEF Clock, ClientTypeOK
<1>a. /\ inbox # <<>> => Head(inbox) \in Types \cup {"rest"}
         /\ Tail(inbox) \in Seq(Types \cup {"rest"})
      /\ \A x \in Types \cup {"rest"} :
            /\ Append(inbox, x) \in Seq(Types \cup {"rest"}) /\ Append(inbox, x) # <<>>
            /\ inbox # <<>> => Head(Append(inbox, x)) = Head(inbox)
            /\ inbox = <<>> => Head(Append(inbox, x)) = x
    BY InboxFacts DEF ClientTypeOK
<1> USE <1>b DEF ClientTypeOK, States, Stop, Return, Heard, LostOr, SendPing,
        sockVars, timeVars, callVars, peerVars, histVars
<1>1. CASE UNCHANGED prompt /\ ConnackTimeout
    BY <1>1 DEF ConnackTimeout, Opening
<1>2. CASE UNCHANGED prompt /\ Refused
    BY <1>2 DEF Refused, Opening
<1>3. CASE UNCHANGED prompt /\ ConnackCutOff
    BY <1>3 DEF ConnackCutOff, Opening
<1>4. CASE UNCHANGED prompt /\ ConnectFails
    BY <1>4 DEF ConnectFails, Opening
<1>5. CASE UNCHANGED prompt /\ LoopTimesOut
    BY <1>5 DEF LoopTimesOut, Opening
<1>6. CASE UNCHANGED prompt /\ Disconnect
    BY <1>6 DEF Disconnect, Opening
<1>7. CASE UNCHANGED prompt /\ PeerCloses
    BY <1>7 DEF PeerCloses, Opening
<1>8. CASE UNCHANGED prompt /\ ConnectSends
    BY <1>8 DEF ConnectSends, Opening
<1>9. CASE UNCHANGED prompt /\ PublishSends
    BY <1>9 DEF PublishSends, Opening
<1>10. CASE UNCHANGED prompt /\ CallbackReturns
    BY <1>10 DEF CallbackReturns, Opening
<1>11. CASE UNCHANGED prompt /\ ReadGarbled
  <2>1. /\ \/ Stop /\ state' = "disconnected"
           \/ /\ \E n \in 0 .. Len(inbox) : inbox' = SubSeq(inbox, n + 1, Len(inbox))
              /\ UNCHANGED <<sockVars, peerVars, late, deaf>>
        /\ mpc' \in {"user", "callback"} /\ UNCHANGED <<prompt, now, lastOut>> /\ gap' = 0
        /\ kind' \in {Nothing, "publish0", "publish1"}
    BY <1>11 DEF ReadGarbled
  <2>2. inbox' \in Seq(Types \cup {"rest"})
    <3>1. ASSUME NEW n \in 0 .. Len(inbox)
          PROVE  SubSeq(inbox, n + 1, Len(inbox)) \in Seq(Types \cup {"rest"})
      <4>1. inbox \in Seq(Types \cup {"rest"}) /\ Len(inbox) \in Nat
        OBVIOUS
      <4>2. \A i \in n + 1 .. Len(inbox) : inbox[i] \in Types \cup {"rest"}
        BY <4>1
      <4> QED
        BY <4>1, <4>2, SubSeqProperties
    <3> QED
      BY <2>1, <3>1
  <2>3. kind' \in Types \cup {Nothing, "garbled"}
    BY <2>1 DEF Types
  <2>4. pingOutstanding' \in BOOLEAN
    BY <1>11 DEF ReadGarbled
  <2>5. lastIn' \in Clock /\ t' \in Clock /\ waited' \in Clock /\ got' \in 0 .. RestBytes - 1
    BY <1>11 DEF ReadGarbled
  <2>6. silence' \in Nat
    BY <1>11 DEF ReadGarbled
  <2>7. /\ sock' \in {"closed", "open", "dead"} /\ state' \in States /\ pings' \in 0 .. 2
        /\ peer' \in {"none", "greeting", "serving", "hung"} /\ owed' \in Types \cup {Nothing}
        /\ late' \in Nat /\ deaf' \in Nat
    BY <2>1
  <2> QED
    BY <2>1, <2>2, <2>3, <2>4, <2>5, <2>6, <2>7 DEF Opening
<1>12. CASE UNCHANGED prompt /\ Connected
    BY <1>12, <1>a DEF Connected, Opening
<1>13. CASE UNCHANGED prompt /\ ReadPublish
    BY <1>13, <1>a DEF ReadPublish, Opening
<1>14. CASE UNCHANGED prompt /\ ReadPingresp
    BY <1>14, <1>a DEF ReadPingresp, Opening
<1>15. CASE UNCHANGED prompt /\ BrokerHangs
    BY <1>15 DEF BrokerHangs, Opening
<1>16. CASE UNCHANGED prompt /\ ConnackArrives
  <2>1. kind' \in Types \cup {Nothing, "garbled"} /\ inbox' \in Seq(Types \cup {"rest"})
    BY <1>16, <1>a DEF ConnackArrives, Opening
  <2> QED
    BY <1>16, <2>1 DEF ConnackArrives, Opening
<1>17. CASE UNCHANGED prompt /\ LoopRuns
  <2>1. kind' \in Types \cup {Nothing, "garbled"} /\ inbox' \in Seq(Types \cup {"rest"})
        /\ mpc' \in {"user", "rest"}
        /\ t' \in Clock /\ waited' \in Clock /\ got' \in 0 .. RestBytes - 1
    BY <1>17, <1>a DEF LoopRuns
  <2>2. lastIn' \in Clock /\ lastOut' \in Clock /\ pings' \in 0 .. 2 /\ silence' \in Nat
    BY <1>17 DEF LoopRuns
  <2>3. pingOutstanding' \in BOOLEAN
    BY <1>17 DEF LoopRuns
  <2>4. UNCHANGED <<prompt, now, sockVars, peer, owed, late, deaf>> /\ gap' = 0
    BY <1>17 DEF LoopRuns
  <2>5. ClientTypeOK'
    BY <2>1, <2>2, <2>3, <2>4
  <2>6. Opening'
    BY <2>1 DEF Opening
  <2> QED
    BY <2>5, <2>6
<1>f. FoundClosed => sock' \in {"closed", "open", "dead"} /\ state' \in States
      /\ inbox' \in Seq(Types \cup {"rest"})
                     /\ peer' \in {"none", "greeting", "serving", "hung"}
                     /\ owed' \in Types \cup {Nothing} /\ pings' \in 0 .. 2
                     /\ late' \in Nat /\ silence' \in Nat /\ deaf' \in Nat
  <2>1. CASE FoundClosed /\ state = "connected"
    BY <2>1 DEF FoundClosed
  <2>2. CASE FoundClosed /\ state # "connected"
    BY <2>2 DEF FoundClosed
  <2> QED
    BY <2>1, <2>2
<1>18. CASE UNCHANGED prompt /\ ReadTimeout
    BY <1>18, <1>f DEF ReadTimeout, Opening
<1>19. CASE UNCHANGED prompt /\ LoopFindsClosed
    BY <1>19, <1>f DEF LoopFindsClosed, Opening
<1>20. CASE UNCHANGED prompt /\ PublishFails
    BY <1>20, <1>f DEF PublishFails, Opening
<1>21. CASE UNCHANGED prompt /\ (BrokerGreets \/ BrokerPublishes \/ BrokerAnswersPing)
  <2>1. PICK type \in Types : Begins(type)
    BY <1>21 DEF BrokerGreets, BrokerPublishes, BrokerAnswersPing, Types
  <2>2. /\ inbox' \in Seq(Types \cup {"rest"}) /\ owed' \in Types /\ late' = 0 /\ inbox' # <<>>
        /\ inbox # <<>> => Head(inbox') = Head(inbox)
        /\ inbox = <<>> => Head(inbox') = type
    BY <2>1, <1>a DEF Begins
  <2>3. pings' \in 0 .. 2
    BY <1>21 DEF BrokerGreets, BrokerPublishes, BrokerAnswersPing
  <2>4. UNCHANGED <<prompt, now, sockVars, timeVars, callVars, peer, gap, silence, deaf>>
    BY <1>21 DEF BrokerGreets, BrokerPublishes, BrokerAnswersPing
  <2>5. Opening'
    BY <2>2, <2>4 DEF Opening, Types
  <2> QED
    BY <2>2, <2>3, <2>4, <2>5
<1>22. CASE UNCHANGED prompt /\ BrokerSendsRest
  <2>1. /\ inbox' \in Seq(Types \cup {"rest"}) /\ inbox' # <<>>
        /\ inbox # <<>> => Head(inbox') = Head(inbox)
    BY <1>22, <1>a DEF BrokerSendsRest
  <2>2. peer' \in {"none", "greeting", "serving", "hung"}
    BY <1>22 DEF BrokerSendsRest
  <2>3. Opening'
    BY <1>22, <2>1 DEF BrokerSendsRest, Opening
  <2> QED
    BY <1>22, <2>1, <2>2, <2>3 DEF BrokerSendsRest
<1>23. CASE Tick
  <2>1. now' \in Clock
    BY <1>23, AgoTick DEF Tick
  <2>2. gap' \in Nat /\ late' \in Nat /\ silence' \in Nat /\ deaf' \in Nat
    BY <1>23 DEF Tick
  <2>3. Opening'
    BY <1>23 DEF Tick, Opening
  <2> QED
    BY <1>23, <2>1, <2>2, <2>3 DEF Tick
<1>24. CASE UNCHANGED mqttVars
    BY <1>24 DEF mqttVars, Opening
<1>25. CASE UNCHANGED prompt /\ ReadOn
    BY <1>25, <1>a DEF ReadOn, Opening
<1>26. CASE UNCHANGED prompt /\ BrokerSendsMore
  <2>1. <<"rest">> \in Seq(Types \cup {"rest"})
    OBVIOUS
  <2>2. inbox' \in Seq(Types \cup {"rest"})
    BY <1>26, <2>1 DEF BrokerSendsMore
  <2>3. /\ inbox' \in Seq(Types \cup {"rest"})
        /\ got' \in 0 .. RestBytes - 1 /\ waited' \in Clock
        /\ UNCHANGED <<prompt, now, sockVars, timeVars, mpc, t, kind, peerVars, histVars>>
    BY <1>26, <2>2 DEF BrokerSendsMore
  <2>4. Opening'
    BY <1>26 DEF BrokerSendsMore, Opening
  <2> QED
    BY <2>3, <2>4
<1> QED
    BY <1>1, <1>2, <1>3, <1>4, <1>5, <1>6, <1>7, <1>8, <1>9, <1>10, <1>11, <1>12, <1>13, <1>14,
       <1>15, <1>16, <1>17, <1>18, <1>19, <1>20, <1>21, <1>22, <1>23, <1>24, <1>25, <1>26 DEF ClientNext,
       ClientStep, SketchStep, BrokerStep

-----------------------------------------------------------------------------
(* The socket.                                                                *)

(* A socket that is not open has no broker behind it.                         *)
ClosedInv ==
    /\ sock # "open" => inbox = <<>> /\ peer = "none" /\ owed = Nothing /\ pings = 0
    /\ sock = "open" => peer # "none"

(* What connected() takes an open socket for (601-616).                       *)
SessionInv == sock = "open" /\ mpc \in {"user", "rest", "callback"} => state = "connected"

(* A step that leaves the socket not open, or finds it so.                    *)
Shut ==
    /\ prompt' = prompt
    /\ sock' # "open" /\ inbox' = <<>> /\ peer' = "none" /\ owed' = Nothing /\ pings' = 0
    /\ gap' \in {0, gap}
    /\ deaf' = 0 \/ (deaf' = deaf /\ sock # "open")
    /\ \/ mpc' = "user" /\ kind' = Nothing /\ got' = 0
       \/ mpc' = mpc /\ kind' = kind /\ got' = got /\ (mpc = "rest" /\ pingOutstanding => pingOutstanding')

(* A step on an open socket that leaves it open.                              *)
Live ==
    /\ prompt' = prompt /\ sock = "open" /\ sock' = "open"
    /\ \/ ConnackArrives \/ Connected
       \/ LoopRuns \/ ReadPublish \/ ReadPingresp \/ ReadTimeout \/ ReadOn \/ ReadGarbled
       \/ CallbackReturns \/ PublishSends
       \/ BrokerGreets \/ BrokerPublishes \/ BrokerAnswersPing \/ BrokerSendsMore
       \/ BrokerSendsRest \/ BrokerHangs \/ Tick

LEMMA StepKinds ==
    ASSUME ClientTypeOK, ClosedInv, [ClientNext]_mqttVars
    PROVE  Shut \/ (ConnectSends /\ prompt' = prompt) \/ Live \/ UNCHANGED mqttVars
<1> USE DEF Stop, Return, Heard, LostOr, sockVars, timeVars, callVars, peerVars, histVars
<1>1. ConnackTimeout /\ UNCHANGED prompt => Shut
    BY DEF ConnackTimeout, Shut, ClosedInv
<1>2. Refused /\ UNCHANGED prompt => Shut
    BY DEF Refused, Shut, ClosedInv
<1>3. ConnackCutOff /\ UNCHANGED prompt => Shut
    BY DEF ConnackCutOff, Shut, ClosedInv
<1>4. ConnectFails /\ UNCHANGED prompt => Shut
    BY DEF ConnectFails, Shut, ClosedInv
<1>5. LoopTimesOut /\ UNCHANGED prompt => Shut
    BY DEF LoopTimesOut, Shut, ClosedInv
<1>6. Disconnect /\ UNCHANGED prompt => Shut
    BY DEF Disconnect, Shut, ClosedInv
<1>7. PeerCloses /\ UNCHANGED prompt => Shut
    BY DEF PeerCloses, Shut, ClosedInv
<1>8. FoundClosed /\ gap' \in {0, gap} /\ (UNCHANGED callVars \/ Return)
      /\ UNCHANGED <<prompt, pingOutstanding>> => Shut
    BY DEF FoundClosed, Shut, ClosedInv
<1>9. LoopFindsClosed /\ UNCHANGED prompt => Shut
    BY <1>8 DEF LoopFindsClosed
<1>10. PublishFails /\ UNCHANGED prompt => Shut
    BY <1>8 DEF PublishFails
<1>11. ReadTimeout /\ UNCHANGED prompt => Shut \/ Live
    BY <1>8 DEF ReadTimeout, Shut, Live, ClosedInv
<1>12. ReadGarbled /\ UNCHANGED prompt => Shut \/ Live
    BY DEF ReadGarbled, Shut, Live, ClosedInv
<1>13. CallbackReturns /\ UNCHANGED prompt => Shut \/ Live
    BY DEF CallbackReturns, Shut, Live, ClosedInv
<1>14. ConnackArrives /\ UNCHANGED prompt => Live
    BY DEF ConnackArrives, Live, ClosedInv
<1>15. Connected /\ UNCHANGED prompt => Live
    BY DEF Connected, Live, ClosedInv
<1>16. LoopRuns /\ UNCHANGED prompt => Live
    BY DEF LoopRuns, Live, ClosedInv
<1>17. ReadPublish /\ UNCHANGED prompt => Live
    BY DEF ReadPublish, Live, ClosedInv
<1>18. ReadPingresp /\ UNCHANGED prompt => Live
    BY DEF ReadPingresp, Live, ClosedInv
<1>19. PublishSends /\ UNCHANGED prompt => Live
    BY DEF PublishSends, Live, ClosedInv
<1>20. BrokerGreets /\ UNCHANGED prompt => Live
    BY DEF BrokerGreets, Live, ClosedInv, Begins
<1>21. BrokerPublishes /\ UNCHANGED prompt => Live
    BY DEF BrokerPublishes, Live, ClosedInv, Begins
<1>22. BrokerAnswersPing /\ UNCHANGED prompt => Live
    BY DEF BrokerAnswersPing, Live, ClosedInv, Begins
<1>23. BrokerSendsRest /\ UNCHANGED prompt => Live
    BY DEF BrokerSendsRest, Live, ClosedInv
<1>24. BrokerHangs /\ UNCHANGED prompt => Live
    BY DEF BrokerHangs, Live, ClosedInv
<1>25. Tick => Shut \/ Live
    BY DEF Tick, Shut, Live, ClosedInv
<1>26. ReadOn /\ UNCHANGED prompt => Live
    BY DEF ReadOn, Live, ClosedInv
<1>27. BrokerSendsMore /\ UNCHANGED prompt => Live
    BY DEF BrokerSendsMore, Live, ClosedInv
<1> QED
    BY <1>1, <1>2, <1>3, <1>4, <1>5, <1>6, <1>7, <1>9, <1>10, <1>11, <1>12, <1>13, <1>14, <1>15,
       <1>16, <1>17, <1>18, <1>19, <1>20, <1>21, <1>22, <1>23, <1>24, <1>25, <1>26, <1>27
    DEF ClientNext, ClientStep, SketchStep, BrokerStep

LEMMA ClosedStep ==
    ASSUME ClientTypeOK, ClosedInv, [ClientNext]_mqttVars
    PROVE  ClosedInv'
<1>1. CASE Shut
    BY <1>1 DEF Shut, ClosedInv
<1>2. CASE ConnectSends
    BY <1>2 DEF ConnectSends, ClosedInv
<1>3. CASE Live
  <2>1. peer' \in {peer, "serving", "hung"}
    BY <1>3 DEF Live, ConnackArrives, Connected, LoopRuns, ReadPublish, ReadPingresp, ReadTimeout,
       ReadOn, ReadGarbled, CallbackReturns, PublishSends, BrokerGreets, BrokerPublishes,
       BrokerAnswersPing, BrokerSendsMore, BrokerSendsRest, BrokerHangs, Tick, FoundClosed, peerVars, Stop
  <2> QED
    BY <1>3, <2>1 DEF Live, ClosedInv
<1>4. CASE UNCHANGED mqttVars
    BY <1>4 DEF mqttVars, sockVars, peerVars, ClosedInv
<1> QED
    BY <1>1, <1>2, <1>3, <1>4, StepKinds

LEMMA SessionStep ==
    ASSUME ClientTypeOK, ClosedInv, SessionInv, [ClientNext]_mqttVars
    PROVE  SessionInv'
<1> USE DEF SessionInv
<1>1. CASE Shut
    BY <1>1 DEF Shut
<1>2. CASE ConnectSends
    BY <1>2 DEF ConnectSends
<1>3. CASE Live
  <2>1. \/ state' = "connected"
        \/ mpc' \in {"connack", "connrest"}
        \/ state' = state /\ mpc' = mpc
        \/ state' = state /\ mpc \in {"user", "rest", "callback"}
    BY <1>3 DEF Live, ConnackArrives, Connected, LoopRuns, ReadPublish, ReadPingresp, ReadTimeout,
       ReadOn, ReadGarbled, CallbackReturns, PublishSends, BrokerGreets, BrokerPublishes,
       BrokerAnswersPing, BrokerSendsMore, BrokerSendsRest, BrokerHangs, Tick, FoundClosed, Stop, sockVars, callVars
  <2> QED
    BY <1>3, <2>1 DEF Live
<1>4. CASE UNCHANGED mqttVars
    BY <1>4 DEF mqttVars, sockVars, callVars
<1> QED
    BY <1>1, <1>2, <1>3, <1>4, StepKinds

-----------------------------------------------------------------------------
(* The stream of a prompt broker: type bytes and rests alternate, and the     *)
(* reader knows which comes next.                                             *)

(* 1 when the client has read a type byte and waits for the rest.             *)
Offset == IF mpc \in {"connrest", "rest"} THEN 1 ELSE 0

(* The bytes the broker has sent, or owes.                                    *)
Coming == Len(inbox) + (IF owed = Nothing THEN 0 ELSE 1)

StreamInv ==
    /\ kind # "garbled"
    /\ \A i \in 1 .. Len(inbox) : (inbox[i] = "rest") <=> ((i + Offset) % 2 = 0)
    /\ (sock = "open" /\ peer # "hung") => ((Coming + Offset) % 2 = 0)
    /\ peer = "greeting" => /\ mpc \in {"connack", "connrest"} /\ Len(inbox) + Offset <= 1
                            /\ owed \in {Nothing, "connack", "refused"}
    /\ (peer = "serving" /\ mpc \in {"connack", "connrest"}) => Len(inbox) + Offset >= 2

(* What is due has not been due for longer than a prompt broker takes.        *)
LateInv ==
    (sock = "open" /\ peer # "hung") =>
        /\ owed # Nothing => late <= RestIn
        /\ owed = Nothing => late <= AnswerIn
        /\ (owed = Nothing /\ peer = "serving" /\ pings = 0) => late = 0
        /\ (mpc \in {"connrest", "rest"} /\ inbox = <<>>) => Since(waited) <= late
        /\ (mpc = "rest" /\ inbox = <<>>) => Since(t) <= late
        /\ (mpc = "connrest" /\ inbox = <<>>) => Since(lastIn) <= SocketTimeout + late

(* A reader that waits for a rest is owed one.                                *)
LEMMA RestIsOwed ==
    ASSUME ClientTypeOK, StreamInv, sock = "open", peer # "hung",
           mpc \in {"connrest", "rest"}, inbox = <<>>
    PROVE  owed # Nothing
<1>1. Offset = 1 /\ Len(inbox) = 0 /\ (Coming + Offset) % 2 = 0
    BY DEF Offset, StreamInv
<1> QED
    BY <1>1 DEF Coming

(* A prompt broker sends the rest of a packet before the reader gives up.     *)
LEMMA NoTimeout ==
    ASSUME ClientTypeOK, StreamInv, LateInv, sock = "open", ReadTimeout
    PROVE  peer = "hung"
<1> SUFFICES ASSUME peer # "hung" PROVE FALSE
    OBVIOUS
<1>1. mpc = "rest" /\ inbox = <<>> /\ Since(waited) >= SocketTimeout
    BY DEF ReadTimeout
<1>2. owed # Nothing
    BY <1>1, RestIsOwed
<1>3. late <= RestIn /\ Since(waited) <= late
    BY <1>1, <1>2 DEF LateInv
<1> QED
    BY <1>1, <1>3, PromptAssumption, ClientAssumption, AgoType DEF ClientTypeOK, Since, Clock

(* Reading a byte.                                                            *)
LEMMA TakeFirst ==
    ASSUME ClientTypeOK, inbox # <<>>, inbox' = Tail(inbox)
    PROVE  /\ Len(inbox) \in Nat /\ Len(inbox) > 0 /\ Len(inbox') = Len(inbox) - 1
           /\ Head(inbox) = inbox[1] /\ Head(inbox) \in Types \cup {"rest"}
           /\ \A i \in 1 .. Len(inbox') : inbox'[i] = inbox[i + 1]
<1>1. inbox \in Seq(Types \cup {"rest"})
    BY DEF ClientTypeOK
<1> QED
    BY <1>1, InboxFacts

(* The broker sends a byte.                                                   *)
LEMMA AddLast ==
    ASSUME ClientTypeOK, NEW x \in Types \cup {"rest"}, inbox' = Append(inbox, x)
    PROVE  /\ Len(inbox) \in Nat /\ Len(inbox') = Len(inbox) + 1 /\ inbox' # <<>>
           /\ inbox'[Len(inbox) + 1] = x
           /\ \A i \in 1 .. Len(inbox) : inbox'[i] = inbox[i]
<1>1. inbox \in Seq(Types \cup {"rest"})
    BY DEF ClientTypeOK
<1> QED
    BY <1>1, InboxFacts

LEMMA StreamStep ==
    ASSUME ClientTypeOK, Opening, ClosedInv, StreamInv, LateInv, [ClientNext]_mqttVars
    PROVE  StreamInv'
<1> USE DEF sockVars, timeVars, callVars, peerVars, histVars, Return
<1>0. Len(inbox) \in Nat /\ (inbox = <<>> <=> Len(inbox) = 0)
    BY DEF ClientTypeOK
<1>1. CASE Shut
    BY <1>1 DEF Shut, StreamInv, Coming, Offset, Nothing
<1>2. CASE ConnectSends
    BY <1>2 DEF ConnectSends, StreamInv, Coming, Offset, ClosedInv
<1>3. ASSUME sock = "open", sock' = "open", inbox # <<>>, inbox' = Tail(inbox),
             Offset' = 1 - Offset,
             UNCHANGED <<peer, owed>>, kind' # "garbled",
             mpc' = "connrest" <=> mpc = "connack", mpc' # "connack"
      PROVE  StreamInv'
  <2>1. /\ Len(inbox') = Len(inbox) - 1 /\ Len(inbox') \in Nat
        /\ \A i \in 1 .. Len(inbox') : i \in Nat /\ i + 1 \in 1 .. Len(inbox)
           /\ inbox'[i] = inbox[i + 1]
    BY <1>3, TakeFirst
  <2>2. Offset \in {0, 1} /\ Offset' \in {0, 1} /\ (mpc = "connack" => Offset = 0)
    BY DEF Offset
  <2>3. \A i \in 1 .. Len(inbox') : (inbox'[i] = "rest") <=> ((i + Offset') % 2 = 0)
    BY <1>3, <2>1, <2>2 DEF StreamInv
  <2>4. Coming \in Nat /\ Coming' = Coming - 1
    BY <1>3, <1>0, <2>1 DEF Coming
  <2>5. (sock' = "open" /\ peer' # "hung") => ((Coming' + Offset') % 2 = 0)
    BY <1>3, <2>2, <2>4 DEF StreamInv
  <2>6. (peer' = "serving" /\ mpc' \in {"connack", "connrest"}) => Len(inbox') + Offset' >= 2
    BY <1>3, <2>1, <2>2, <1>0 DEF StreamInv
  <2>7. peer' = "greeting" => /\ mpc' \in {"connack", "connrest"} /\ Len(inbox') + Offset' <= 1
                              /\ owed' \in {Nothing, "connack", "refused"}
    BY <1>3, <2>1, <2>2 DEF StreamInv, Offset
  <2> QED
    BY <1>3, <2>3, <2>5, <2>6, <2>7 DEF StreamInv
<1>4. ASSUME sock = "open", sock' = "open", Offset' = Offset, UNCHANGED <<inbox, owed>>,
             kind' # "garbled",
             peer' = peer \/ peer' = "hung", mpc' = mpc
             \/ {mpc, mpc'} \subseteq {"user", "callback"}
      PROVE  StreamInv'
  <2>1. Coming' = Coming
    BY <1>4 DEF Coming
  <2> QED
    BY <1>4, <2>1 DEF StreamInv
<1>5. ASSUME ReadTimeout, Live
      PROVE  StreamInv'
  <2>1. peer = "hung" /\ peer' = "hung" /\ inbox = <<>> /\ inbox' = <<>> /\ kind' = Nothing
    BY <1>5, NoTimeout DEF ReadTimeout, Live, FoundClosed
  <2> QED
    BY <2>1 DEF StreamInv, Nothing
<1>6. ASSUME NEW type \in Types, Begins(type), peer \in {"greeting", "serving"}, peer' = peer,
             mpc' = mpc, kind' = kind,
             sock = "open", sock' = "open", peer = "greeting" => type \in {"connack", "refused"}
      PROVE  StreamInv'
  <2>1. /\ Len(inbox') = Len(inbox) + 1 /\ owed = Nothing /\ owed' = type
           /\ inbox'[Len(inbox) + 1] = type
        /\ \A i \in 1 .. Len(inbox) : inbox'[i] = inbox[i]
    BY <1>6, AddLast DEF Begins
  <2>2. Offset' = Offset /\ Offset \in {0, 1}
    BY <1>6 DEF Offset
  <2>3. type # Nothing /\ type # "rest"
    BY DEF Types, Nothing
  <2>4. Coming = Len(inbox) /\ Coming' = Len(inbox) + 2
    BY <2>1, <2>3 DEF Coming
  <2>5. (Len(inbox) + Offset) % 2 = 0
    BY <1>6, <2>4 DEF StreamInv
  <2>6. (Len(inbox) + 1 + Offset) % 2 # 0 /\ (Len(inbox) + 2 + Offset) % 2 = 0
    BY <2>5, <2>2, <1>0
  <2>7. \A i \in 1 .. Len(inbox') : (inbox'[i] = "rest") <=> ((i + Offset') % 2 = 0)
    <3>1. TAKE i \in 1 .. Len(inbox')
    <3>2. CASE i = Len(inbox) + 1
      BY <3>2, <2>1, <2>2, <2>3, <2>6
    <3>3. CASE i \in 1 .. Len(inbox)
      BY <3>3, <2>1, <2>2 DEF StreamInv
    <3> QED
      BY <3>2, <3>3, <2>1, <1>0
  <2>8. peer' = "greeting" => /\ mpc' \in {"connack", "connrest"} /\ Len(inbox') + Offset' <= 1
                              /\ owed' \in {Nothing, "connack", "refused"}
    BY <1>6, <2>1, <2>2, <2>5, <1>0 DEF StreamInv
  <2>9. (peer' = "serving" /\ mpc' \in {"connack", "connrest"}) => Len(inbox') + Offset' >= 2
    BY <1>6, <2>1, <2>2, <1>0 DEF StreamInv
  <2> QED
    BY <1>6, <2>2, <2>4, <2>6, <2>7, <2>8, <2>9, <1>0 DEF StreamInv
<1>7. ASSUME BrokerSendsRest, Live
      PROVE  StreamInv'
  <2>1. /\ Len(inbox') = Len(inbox) + 1 /\ owed # Nothing /\ owed' = Nothing
           /\ inbox'[Len(inbox) + 1] = "rest"
        /\ \A i \in 1 .. Len(inbox) : inbox'[i] = inbox[i]
    BY <1>7, AddLast DEF BrokerSendsRest
  <2>2. Offset' = Offset /\ Offset \in {0, 1}
    BY <1>7 DEF Offset, BrokerSendsRest
  <2>3. Coming = Len(inbox) + 1 /\ Coming' = Len(inbox) + 1
    BY <2>1 DEF Coming
  <2>4. (Len(inbox) + 1 + Offset) % 2 = 0
    BY <1>7, <2>3 DEF StreamInv, Live, BrokerSendsRest
  <2>5. \A i \in 1 .. Len(inbox') : (inbox'[i] = "rest") <=> ((i + Offset') % 2 = 0)
    <3>1. TAKE i \in 1 .. Len(inbox')
    <3>2. CASE i = Len(inbox) + 1
      BY <3>2, <2>1, <2>2, <2>4
    <3>3. CASE i \in 1 .. Len(inbox)
      BY <3>3, <2>1, <2>2 DEF StreamInv
    <3> QED
      BY <3>2, <3>3, <2>1, <1>0
  <2>6. Len(inbox') + Offset' >= 2
    BY <2>1, <2>2, <2>4, <1>0
  <2>7. peer' # "greeting"
    BY <1>7, <2>1 DEF StreamInv, BrokerSendsRest
  <2> QED
    BY <1>7, <2>2, <2>3, <2>4, <2>5, <2>6, <2>7 DEF StreamInv, BrokerSendsRest
<1>8. CASE Live
  <2> USE <1>8 DEF Live
  <2>0. inbox # <<>> => Head(inbox) # "garbled" /\ (Offset = 0 => Head(inbox) # "rest")
    <3>1. inbox # <<>> => Head(inbox) = inbox[1] /\ Head(inbox) \in Types \cup {"rest"}
          /\ 1 \in 1 .. Len(inbox)
      BY InboxFacts, <1>0 DEF ClientTypeOK
    <3> QED
      BY <3>1 DEF StreamInv, Types
  <2>1. CASE ConnackArrives
    BY <2>1, <2>0, <1>3 DEF ConnackArrives, Offset
  <2>2. CASE LoopRuns /\ inbox # <<>>
    BY <2>2, <2>0, <1>3 DEF LoopRuns, Offset
  <2>3. CASE Connected \/ ReadPublish \/ ReadPingresp
    BY <2>3, <1>3 DEF Connected, ReadPublish, ReadPingresp, Offset, StreamInv, Nothing
  <2>4. CASE LoopRuns /\ inbox = <<>>
    BY <2>4, <1>4 DEF LoopRuns, Offset, StreamInv
  <2>5. CASE CallbackReturns
    BY <2>5, <1>4 DEF CallbackReturns, Offset, StreamInv, Nothing
  <2>6. CASE PublishSends \/ BrokerHangs \/ Tick
    BY <2>6, <1>4 DEF PublishSends, BrokerHangs, Tick, Offset, StreamInv
  <2>7. CASE BrokerGreets
    BY <2>7, <1>6 DEF BrokerGreets, Types
  <2>8. CASE BrokerPublishes
    BY <2>8, <1>6 DEF BrokerPublishes, Types
  <2>9. CASE BrokerAnswersPing
    BY <2>9, <1>6 DEF BrokerAnswersPing, Types
  <2>10. CASE ReadGarbled \/ ReadOn
    BY <2>10 DEF ReadGarbled, ReadOn, StreamInv
  <2>11. CASE BrokerSendsMore
    <3>1. Offset = 1
      BY <2>11, <1>0 DEF BrokerSendsMore, StreamInv, Coming, Offset
    <3>2. UNCHANGED <<inbox, owed, peer, mpc, kind>>
      BY <2>11, <3>1 DEF BrokerSendsMore, Offset
    <3> QED
      BY <3>2, <1>4 DEF Offset, StreamInv
  <2> QED
    BY <2>1, <2>2, <2>3, <2>4, <2>5, <2>6, <2>7, <2>8, <2>9, <2>10, <2>11, <1>5, <1>7
<1>9. CASE UNCHANGED mqttVars
    BY <1>9 DEF mqttVars, StreamInv, Coming, Offset
<1> QED
    BY <1>1, <1>2, <1>8, <1>9, StepKinds

-----------------------------------------------------------------------------
(* Time.                                                                      *)

LEMMA ClockFacts ==
    ASSUME ClientTypeOK
    PROVE  /\ Since(now) = 0
           /\ \A x \in Clock : Since(x) \in Nat
           /\ Since(lastIn) \in Nat /\ Since(lastOut) \in Nat /\ Since(t) \in Nat
              /\ Since(waited) \in Nat
<1>1. now \in Clock /\ lastIn \in Clock /\ lastOut \in Clock /\ t \in Clock /\ waited \in Clock
    BY DEF ClientTypeOK
<1>2. \A x \in Clock : Since(x) \in Clock
    BY <1>1, AgoType DEF Since
<1>3. \A x \in Clock : Since(x) \in Nat
    BY <1>2, ClientAssumption DEF Clock
<1>4. Since(now) = 0
    BY <1>1, AgoType DEF Since
<1> QED
    BY <1>1, <1>3, <1>4

LEMMA SinceTick ==
    ASSUME ClientTypeOK, Tick, NEW x \in Clock
    PROVE  Ago(now', x) = IF Since(x) + 1 = ClockMod THEN 0 ELSE Since(x) + 1
<1>1. now \in Clock /\ now' = (now + 1) % ClockMod
    BY DEF ClientTypeOK, Tick
<1> QED
    BY <1>1, AgoTick DEF Since

LEMMA LateStep ==
    ASSUME ClientTypeOK, ClientTypeOK', Opening, ClosedInv, StreamInv, StreamInv', LateInv, prompt,
           (sock = "open" /\ mpc = "connack") => Since(lastIn) <= SocketTimeout, [ClientNext]_mqttVars
    PROVE  LateInv'
<1> USE DEF sockVars, timeVars, callVars, peerVars, histVars, Return
<1>0. /\ Len(inbox) \in Nat /\ (inbox = <<>> <=> Len(inbox) = 0) /\ late \in Nat
      /\ RestIn \in Nat /\ AnswerIn \in Nat /\ SocketTimeout \in Nat
    BY ClientAssumption DEF ClientTypeOK
<1>1. CASE Shut
    BY <1>1 DEF Shut, LateInv
<1>2. CASE ConnectSends
    BY <1>2, <1>0, ClockFacts DEF ConnectSends, LateInv, Since
<1>3. CASE Live
  <2> USE <1>3 DEF Live
  <2>1. CASE ConnackArrives
    BY <2>1, <1>0, ClockFacts DEF ConnackArrives, LateInv, Since
  <2>2. CASE LoopRuns
    <3>1. /\ UNCHANGED <<now, peer, owed, late>> /\ mpc = "user"
          /\ mpc' = "user" \/ (mpc' = "rest" /\ waited' = now /\ t' = now)
          /\ pings' = 0 => pings = 0
      BY <2>2 DEF LoopRuns, SendPing, ClientTypeOK
    <3>2. mpc' = "rest" => Since(waited)' = 0 /\ Since(t)' = 0
      BY <3>1, ClockFacts DEF Since
    <3> QED
      BY <3>1, <3>2, <1>0 DEF LateInv
  <2>3. CASE Connected \/ ReadPublish \/ ReadPingresp
    BY <2>3 DEF Connected, ReadPublish, ReadPingresp, LateInv
  <2>4. CASE ReadTimeout
    BY <2>4, NoTimeout DEF ReadTimeout, LateInv, FoundClosed
  <2>5. CASE CallbackReturns \/ PublishSends \/ BrokerHangs
    BY <2>5 DEF CallbackReturns, PublishSends, BrokerHangs, LateInv, Since
  <2>6. CASE BrokerGreets \/ BrokerPublishes \/ BrokerAnswersPing
    <3>1. PICK type \in Types : Begins(type)
      BY <2>6 DEF BrokerGreets, BrokerPublishes, BrokerAnswersPing, Types
    <3>2. owed' # Nothing /\ inbox' # <<>> /\ late' = 0
      BY <3>1, AddLast DEF Begins, Types, Nothing
    <3> QED
      BY <3>2, <1>0 DEF LateInv
  <2>7. CASE BrokerSendsRest
    <3>1. inbox' # <<>>
      BY <2>7, AddLast DEF BrokerSendsRest
    <3> QED
      BY <2>7, <3>1, <1>0 DEF LateInv, BrokerSendsRest
  <2>8. CASE ReadGarbled \/ ReadOn
    BY <2>8 DEF ReadGarbled, ReadOn, StreamInv
  <2>10. CASE BrokerSendsMore
    <3>1. UNCHANGED <<now, peer, owed, pings, late, mpc, t, lastIn>>
      BY <2>10 DEF BrokerSendsMore
    <3>2. CASE mpc \in {"user", "callback"}
      BY <3>1, <3>2 DEF LateInv
    <3>3. CASE mpc \in {"connrest", "rest"}
      <4>1. UNCHANGED <<Since(t), Since(lastIn)>>
        BY <3>1 DEF Since
      <4>2. Since(waited)' = 0 /\ inbox = <<>>
        BY <2>10, <3>1, <3>3, ClockFacts DEF BrokerSendsMore, Since
      <4> QED
        BY <3>1, <3>3, <4>1, <4>2, <1>0 DEF LateInv
    <3> QED
      BY <2>10, <3>2, <3>3 DEF BrokerSendsMore
  <2>9. CASE Tick
    <3> SUFFICES ASSUME peer # "hung"
                 PROVE  LateInv'
      BY <2>9 DEF Tick, LateInv
    <3>1. (mpc \in {"connrest", "rest"} /\ inbox = <<>>) => owed # Nothing
      BY RestIsOwed
    <3>2. Due \/ (~Due /\ owed = Nothing /\ peer = "serving" /\ pings = 0)
      BY DEF Due, ClientTypeOK, ClosedInv
    <3>3. Due => late' = late + 1 /\ late < (IF owed = Nothing THEN AnswerIn ELSE RestIn)
      BY <2>9 DEF Tick
    <3>4. ~Due => late' = late
      BY <2>9 DEF Tick
    <3>5. \A x \in Clock : Ago(now', x) <= Since(x) + 1 /\ Ago(now', x) \in Nat /\ Since(x) \in Nat
      BY <2>9, SinceTick, ClockFacts, ClientAssumption
    <3>6. /\ Since(waited)' <= Since(waited) + 1 /\ Since(waited)' \in Nat /\ Since(waited) \in Nat
          /\ Since(t)' <= Since(t) + 1 /\ Since(t)' \in Nat /\ Since(t) \in Nat
          /\ Since(lastIn)' <= Since(lastIn) + 1 /\ Since(lastIn)' \in Nat /\ Since(lastIn) \in Nat
      BY <2>9, <3>5 DEF Since, Tick, ClientTypeOK
    <3>7. UNCHANGED <<mpc, inbox, owed, peer, pings>>
      BY <2>9 DEF Tick
    <3>8. CASE Due
      BY <3>8, <3>1, <3>3, <3>6, <3>7, <1>0 DEF LateInv, Due
    <3>9. CASE ~Due
      BY <3>9, <3>1, <3>2, <3>4, <3>6, <3>7, <1>0 DEF LateInv
    <3> QED
      BY <3>8, <3>9
  <2> QED
    BY <2>1, <2>2, <2>3, <2>4, <2>5, <2>6, <2>7, <2>8, <2>9, <2>10
<1>4. CASE UNCHANGED mqttVars
    BY <1>4 DEF mqttVars, LateInv, Since
<1> QED
    BY <1>1, <1>2, <1>3, <1>4, StepKinds

-----------------------------------------------------------------------------
(* One ping at a time, and room for its answer.                               *)

InSession == mpc \in {"user", "rest", "callback"}

(* The PINGRESP is being read.                                                *)
Reading == mpc = "rest" /\ kind = "pingresp"

(* A PINGREQ without an answer, or an answer on its way, is the one that      *)
(* pingOutstanding stands for, and there is one of them at most.              *)
ReplyInv ==
    /\ pings <= 1
    /\ ~InSession => pings = 0 /\ \A i \in 1 .. Len(inbox) : inbox[i] # "pingresp"
    /\ Reading => pingOutstanding
    /\ pings > 0 => pingOutstanding /\ ~Reading
    /\ \A i \in 1 .. Len(inbox) : (inbox[i] = "pingresp") =>
           /\ pingOutstanding /\ pings = 0 /\ ~Reading
           /\ \A j \in 1 .. Len(inbox) : inbox[j] = "pingresp" => j = i

LEMMA ReplyStep ==
    ASSUME ClientTypeOK, Opening, ClosedInv, StreamInv, LateInv, ReplyInv, [ClientNext]_mqttVars
    PROVE  ReplyInv'
<1> USE DEF sockVars, timeVars, callVars, peerVars, histVars, Return
<1>0. Len(inbox) \in Nat /\ (inbox = <<>> <=> Len(inbox) = 0) /\ pings \in 0 .. 2
    BY DEF ClientTypeOK
<1>1. CASE Shut
    BY <1>1 DEF Shut, ReplyInv, Reading, InSession, Nothing
<1>2. CASE ConnectSends
    BY <1>2 DEF ConnectSends, ReplyInv, Reading, InSession
<1>3. CASE Live
  <2> USE <1>3 DEF Live
  <2>0. ASSUME inbox # <<>>, inbox' = Tail(inbox)
        PROVE  /\ Head(inbox) = inbox[1] /\ 1 \in 1 .. Len(inbox)
               /\ \A i \in 1 .. Len(inbox') : i \in Nat /\ i + 1 \in 1 .. Len(inbox)
                  /\ inbox'[i] = inbox[i + 1]
    BY <2>0, <1>0, TakeFirst
  <2>1. CASE ConnackArrives
    BY <2>1, <2>0 DEF ConnackArrives, ReplyInv, Reading, InSession
  <2>2. CASE Connected
    BY <2>2, <2>0 DEF Connected, ReplyInv, Reading, InSession
  <2>3. CASE ReadPublish
    BY <2>3, <2>0 DEF ReadPublish, ReplyInv, Reading, InSession
  <2>4. CASE ReadPingresp
    BY <2>4, <2>0, <1>0 DEF ReadPingresp, ReplyInv, Reading, InSession
  <2>5. CASE LoopRuns
    <3>1. CASE inbox = <<>>
      BY <2>5, <3>1, <1>0 DEF LoopRuns, SendPing, ReplyInv, Reading, InSession
    <3>2. CASE inbox # <<>> /\ Expired
      BY <2>5, <3>2, <2>0, <1>0 DEF LoopRuns, SendPing, ReplyInv, Reading, InSession
    <3>3. CASE inbox # <<>> /\ ~Expired
      <4>1. /\ mpc = "user" /\ mpc' = "rest" /\ UNCHANGED <<pingOutstanding, pings>>
               /\ inbox' = Tail(inbox)
            /\ kind' = "pingresp" => inbox[1] = "pingresp"
        BY <2>5, <3>3, <2>0 DEF LoopRuns, SendPing
      <4>2. CASE inbox[1] = "pingresp"
        BY <3>3, <4>1, <4>2, <2>0, <1>0 DEF ReplyInv, Reading, InSession
      <4>3. CASE inbox[1] # "pingresp"
        BY <3>3, <4>1, <4>3, <2>0, <1>0 DEF ReplyInv, Reading, InSession
      <4> QED
        BY <4>2, <4>3
    <3> QED
      BY <3>1, <3>2, <3>3
  <2>6. CASE ReadTimeout
    BY <2>6 DEF ReadTimeout, FoundClosed, ReplyInv, Reading, InSession
  <2>7. CASE CallbackReturns \/ PublishSends \/ BrokerHangs \/ Tick
    BY <2>7 DEF CallbackReturns, PublishSends, BrokerHangs, Tick, ReplyInv, Reading, InSession,
       Nothing
  <2>8. CASE BrokerGreets \/ BrokerPublishes
    <3>1. PICK type \in Types : Begins(type) /\ type # "pingresp"
      BY <2>8 DEF BrokerGreets, BrokerPublishes, Types
    <3> QED
      BY <2>8, <3>1, <1>0, AddLast DEF BrokerGreets, BrokerPublishes, Begins, ReplyInv, Reading,
         InSession
  <2>9. CASE BrokerAnswersPing
    BY <2>9, <1>0, AddLast DEF BrokerAnswersPing, Begins, ReplyInv, Reading, InSession, Types
  <2>10. CASE BrokerSendsRest
    BY <2>10, <1>0, AddLast DEF BrokerSendsRest, ReplyInv, Reading, InSession
  <2>11. CASE ReadGarbled \/ ReadOn
    BY <2>11 DEF ReadGarbled, ReadOn, StreamInv
  <2>12. CASE BrokerSendsMore
    <3>1. \A i \in 1 .. Len(inbox') : inbox'[i] # "pingresp"
      BY <2>12, <1>0 DEF BrokerSendsMore
    <3> QED
      BY <2>12, <3>1 DEF BrokerSendsMore, ReplyInv, Reading, InSession
  <2> QED
    BY <2>1, <2>2, <2>3, <2>4, <2>5, <2>6, <2>7, <2>8, <2>9, <2>10, <2>11, <2>12
<1>4. CASE UNCHANGED mqttVars
    BY <1>4 DEF mqttVars, ReplyInv, Reading, InSession
<1> QED
    BY <1>1, <1>2, <1>3, <1>4, StepKinds

(* The broker keeps room for the answer to a ping.                            *)
RoomInv ==
    /\ Coming <= 2 * Backlog + Offset
    /\ (pings > 0 /\ peer # "hung") => Coming + 2 <= 2 * Backlog + Offset

LEMMA RoomStep ==
    ASSUME ClientTypeOK, ClientTypeOK', Opening, ClosedInv, StreamInv, LateInv, ReplyInv, RoomInv,
           prompt, [ClientNext]_mqttVars
    PROVE  RoomInv'
<1> USE DEF sockVars, timeVars, callVars, peerVars, histVars, Return
<1>0. /\ Len(inbox) \in Nat /\ (inbox = <<>> <=> Len(inbox) = 0) /\ pings \in 0 .. 2
      /\ Backlog \in Nat \ {0} /\ 2 * Backlog \in Nat /\ 2 * Backlog >= 2
      /\ Offset = 0 \/ Offset = 1
      /\ Offset' = 0 \/ Offset' = 1
    BY ClientAssumption DEF ClientTypeOK, Offset
<1>1. CASE Shut
    BY <1>1, <1>0 DEF Shut, RoomInv, Coming
<1>2. CASE ConnectSends
    BY <1>2, <1>0 DEF ConnectSends, RoomInv, Coming
<1>3. CASE Live
  <2> USE <1>3 DEF Live
  <2>1. ASSUME inbox # <<>>, inbox' = Tail(inbox), UNCHANGED <<peer, owed, pings>>
        PROVE  RoomInv'
    <3>1. Len(inbox') = Len(inbox) - 1
      BY <2>1, TakeFirst
    <3>2. Coming' = Coming - 1 /\ Coming \in Nat
      BY <2>1, <3>1, <1>0 DEF Coming
    <3> QED
      BY <2>1, <3>2, <1>0 DEF RoomInv
  <2>2. CASE ConnackArrives \/ Connected \/ ReadPublish \/ ReadPingresp
    BY <2>2, <2>1 DEF ConnackArrives, Connected, ReadPublish, ReadPingresp
  <2>3. CASE LoopRuns
    <3>1. CASE inbox # <<>>
      <4>1. Offset = 0 /\ Offset' = 1 /\ UNCHANGED <<peer, owed>> /\ inbox' = Tail(inbox)
        BY <2>3, <3>1 DEF LoopRuns, Offset
      <4>2. Coming' = Coming - 1 /\ Coming \in Nat
        BY <3>1, <4>1, <1>0, TakeFirst DEF Coming
      <4> QED
        BY <4>1, <4>2, <1>0 DEF RoomInv
    <3>2. CASE inbox = <<>>
      <4>1. Offset = 0 /\ Offset' = 0 /\ UNCHANGED <<peer, owed, inbox>>
        BY <2>3, <3>2 DEF LoopRuns, Offset
      <4>2. Coming' = Coming /\ Coming \in {0, 1}
        BY <3>2, <4>1, <1>0 DEF Coming
      <4>3. peer # "hung" => Coming = 0
        BY <4>1, <4>2 DEF StreamInv
      <4> QED
        BY <4>1, <4>2, <4>3, <1>0 DEF RoomInv
    <3> QED
      BY <3>1, <3>2
  <2>4. CASE ReadTimeout
    <3>1. peer' = "hung" /\ inbox' = <<>>
      BY <2>4, NoTimeout DEF ReadTimeout, FoundClosed
    <3> QED
      BY <3>1, <1>0 DEF RoomInv, Coming
  <2>5. CASE CallbackReturns \/ PublishSends \/ BrokerHangs \/ Tick
    <3>1. UNCHANGED <<inbox, owed, pings>> /\ Offset' = Offset /\ (peer' # "hung" => peer # "hung")
      BY <2>5 DEF CallbackReturns, PublishSends, BrokerHangs, Tick, Offset
    <3>2. Coming' = Coming
      BY <3>1 DEF Coming
    <3> QED
      BY <3>1, <3>2 DEF RoomInv
  <2>6. CASE BrokerGreets \/ BrokerPublishes
    <3>1. PICK type \in Types : Begins(type)
      BY <2>6 DEF BrokerGreets, BrokerPublishes, Types
    <3>2. /\ owed = Nothing /\ owed' # Nothing /\ Len(inbox') = Len(inbox) + 1
          /\ UNCHANGED <<peer, pings>> /\ Offset' = Offset
      BY <2>6, <3>1, AddLast DEF BrokerGreets, BrokerPublishes, Begins, Types, Nothing, Offset
    <3>3. Coming = Len(inbox) /\ Coming' = Len(inbox) + 2
      BY <3>2, <1>0 DEF Coming
    <3>4. (Len(inbox) + Offset) % 2 = 0 /\ pings = 0
      BY <2>6, <3>3, <1>0 DEF StreamInv, BrokerGreets, BrokerPublishes, ReplyInv, InSession
    <3>5. Len(inbox) < 2 * Backlog \/ Len(inbox) + Offset <= 1
      BY <2>6 DEF StreamInv, BrokerGreets, BrokerPublishes
    <3>6. Len(inbox) + Offset <= 2 * Backlog + Offset + Offset - 2
      BY <3>4, <3>5, <1>0
    <3> QED
      BY <3>2, <3>3, <3>4, <3>6, <1>0 DEF RoomInv
  <2>7. CASE BrokerAnswersPing
    <3>1. /\ owed = Nothing /\ owed' # Nothing /\ Len(inbox') = Len(inbox) + 1
          /\ peer = "serving" /\ pings = 1 /\ pings' = 0 /\ Offset' = Offset
      BY <2>7, <1>0, AddLast DEF BrokerAnswersPing, Begins, Types, Nothing, Offset, ReplyInv
    <3>2. Coming = Len(inbox) /\ Coming' = Len(inbox) + 2
      BY <3>1, <1>0 DEF Coming
    <3> QED
      BY <3>1, <3>2, <1>0 DEF RoomInv
  <2>8. CASE BrokerSendsRest
    <3>1. /\ owed # Nothing /\ owed' = Nothing /\ Len(inbox') = Len(inbox) + 1
          /\ peer # "hung" /\ pings' = pings /\ Offset' = Offset
      BY <2>8, AddLast DEF BrokerSendsRest, Offset
    <3>2. Coming = Len(inbox) + 1 /\ Coming' = Len(inbox) + 1
      BY <3>1, <1>0 DEF Coming
    <3> QED
      BY <3>1, <3>2, <1>0 DEF RoomInv
  <2>9. CASE ReadGarbled \/ ReadOn
    BY <2>9 DEF ReadGarbled, ReadOn, StreamInv
  <2>10. CASE BrokerSendsMore
    <3>1. Offset = 1
      BY <2>10, <1>0 DEF BrokerSendsMore, StreamInv, Coming, Offset
    <3>2. UNCHANGED <<inbox, owed, peer, pings, mpc>>
      BY <2>10, <3>1 DEF BrokerSendsMore, Offset
    <3>3. Coming' = Coming /\ Offset' = Offset
      BY <3>2 DEF Coming, Offset
    <3> QED
      BY <3>2, <3>3 DEF RoomInv
  <2> QED
    BY <2>2, <2>3, <2>4, <2>5, <2>6, <2>7, <2>8, <2>9, <2>10
<1>4. CASE UNCHANGED mqttVars
    BY <1>4 DEF mqttVars, RoomInv, Coming, Offset
<1> QED
    BY <1>1, <1>2, <1>3, <1>4, StepKinds

-----------------------------------------------------------------------------
(* How long ago the client heard, and was heard.                              *)

(* The longest wait for a byte, for all of a packet, and for n bytes of it.    *)
Patience == IF prompt /\ peer # "hung" THEN RestIn ELSE SocketTimeout
Slowest  == RestBytes * SocketTimeout
Longest  == IF prompt /\ peer # "hung" THEN RestIn ELSE Slowest
Spent(n) == SocketTimeout * n

AgeInv ==
    /\ gap <= MaxGap
    /\ mpc \in {"user", "callback", "connack"} => got = 0
    /\ sock = "open" =>
        /\ silence <= Since(lastOut)
        /\ mpc = "user"     => /\ Since(lastIn) <= KeepAlive + Longest + MaxGap + gap
                               /\ Since(lastOut) <= KeepAlive + Longest + MaxGap + gap
        /\ mpc = "rest"     => /\ Since(waited) <= Patience
                               /\ Since(t) <= Longest
                               /\ Since(t) <= Spent(got) + Since(waited)
                               /\ Since(lastIn) <= KeepAlive + Since(t)
                               /\ Since(lastOut) <= KeepAlive + Since(t)
        /\ mpc = "callback" => /\ Since(t) <= Longest + gap
                               /\ Since(lastIn) <= Longest + gap
                               /\ Since(lastOut) <= KeepAlive + Longest + gap
        /\ mpc = "connack"  => lastIn = lastOut /\ Since(lastIn) <= SocketTimeout
        /\ mpc = "connrest" => /\ lastIn = lastOut
                               /\ Since(waited) <= Patience
                               /\ Since(lastIn) <= SocketTimeout + Longest
                               /\ Since(lastIn) <= SocketTimeout + Spent(got) + Since(waited)

LEMMA Waits ==
    /\ Patience = RestIn \/ Patience = SocketTimeout
    /\ RestIn <= Patience /\ Patience <= SocketTimeout
    /\ Patience \in Nat
BY ClientAssumption, PromptAssumption DEF Patience

(* The timeouts of one packet add up to less than the clock can tell.         *)
LEMMA SpentFacts ==
    /\ Slowest \in Nat /\ SocketTimeout <= Slowest
    /\ KeepAlive + Slowest + 3 * MaxGap < ClockMod
    /\ Spent(0) = 0
    /\ \A n \in 0 .. RestBytes - 1 :
           /\ Spent(n) \in Nat /\ Spent(n + 1) = Spent(n) + SocketTimeout
           /\ Spent(n) + SocketTimeout <= Slowest
<1>1. SocketTimeout \in Nat /\ RestBytes \in Nat \ {0}
    BY ClientAssumption
<1>2. Slowest \in Nat /\ SocketTimeout <= Slowest
    BY <1>1 DEF Slowest
<1>3. KeepAlive + Slowest + 3 * MaxGap < ClockMod
    BY ClientAssumption, <1>2 DEF Slowest
<1>4. Spent(0) = 0
    BY <1>1 DEF Spent
<1>5. ASSUME NEW n \in 0 .. RestBytes - 1
      PROVE  /\ Spent(n) \in Nat /\ Spent(n + 1) = Spent(n) + SocketTimeout
             /\ Spent(n) + SocketTimeout <= Slowest
  <2>1. n \in Nat /\ n + 1 \in Nat /\ n + 1 <= RestBytes
    BY <1>1
  <2>2. Spent(n) \in Nat /\ Spent(n + 1) = Spent(n) + SocketTimeout
    BY <1>1, <2>1 DEF Spent
  <2>3. SocketTimeout * (n + 1) <= SocketTimeout * RestBytes
    BY <1>1, <2>1
  <2>4. SocketTimeout * RestBytes = Slowest
    BY <1>1 DEF Slowest
  <2>5. Spent(n + 1) = SocketTimeout * (n + 1)
    BY DEF Spent
  <2> QED
    BY <2>2, <2>3, <2>4, <2>5
<1> QED
    BY <1>2, <1>3, <1>4, <1>5

LEMMA LongestWaits ==
    /\ Longest = RestIn \/ Longest = Slowest
    /\ RestIn <= Longest /\ Longest <= Slowest /\ Patience <= Longest
    /\ Longest \in Nat
BY ClientAssumption, PromptAssumption, SpentFacts DEF Patience, Longest

(* A broker that hung stays so.                                               *)
LEMMA WaitsGrow ==
    ASSUME ClientTypeOK, Live
    PROVE  /\ peer = "hung" => peer' = "hung"
           /\ Patience <= Patience' /\ Longest <= Longest'
<1>1. peer = "hung" => peer' = "hung"
    BY DEF Live, ConnackArrives, Connected, LoopRuns, ReadPublish, ReadPingresp, ReadTimeout,
       ReadOn, ReadGarbled, CallbackReturns, PublishSends, BrokerGreets, BrokerPublishes,
       BrokerAnswersPing, BrokerSendsMore, BrokerSendsRest, BrokerHangs, Tick, FoundClosed, Stop, peerVars
<1>2. CASE prompt /\ peer' # "hung"
  <2>1. Patience' = RestIn /\ Patience = RestIn /\ Longest' = RestIn /\ Longest = RestIn
    BY <1>1, <1>2 DEF Patience, Longest, Live
  <2> QED
    BY <1>1, <2>1, ClientAssumption
<1>3. CASE ~(prompt /\ peer' # "hung")
  <2>1. Patience' = SocketTimeout /\ Longest' = Slowest
    BY <1>3 DEF Patience, Longest, Live, Slowest
  <2> QED
    BY <1>1, <2>1, Waits, LongestWaits
<1> QED
    BY <1>2, <1>3

(* Time passes for the ages that are compared, and none of them wraps.        *)
LEMMA AgesTick ==
    ASSUME ClientTypeOK, Tick, NEW x \in Clock, Since(x) <= KeepAlive + Slowest + 2 * MaxGap
    PROVE  Ago(now', x) = Since(x) + 1
<1>1. Since(x) \in Nat
    BY ClockFacts
<1>2. KeepAlive \in Nat /\ MaxGap \in Nat \ {0} /\ ClockMod \in Nat
    BY ClientAssumption
<1>3. Since(x) + 1 # ClockMod
    BY <1>1, <1>2, SpentFacts
<1> QED
    BY <1>3, SinceTick

LEMMA OneTickMore ==
    /\ \A k, a, b \in Nat : a <= k + b => a + 1 <= k + (b + 1)
    /\ \A a, b \in Nat : a <= b => a + 1 <= b + 1 /\ a <= b + 1
    OBVIOUS

LEMMA AgeStep ==
    ASSUME ClientTypeOK, ClientTypeOK', Opening, ClosedInv, AgeInv, prompt => StreamInv /\ LateInv,
           [ClientNext]_mqttVars
    PROVE  AgeInv'
<1> USE DEF sockVars, timeVars, callVars, peerVars, histVars, Return
<1>0. /\ KeepAlive \in Nat /\ SocketTimeout \in Nat /\ MaxGap \in Nat /\ SocketTimeout <= KeepAlive
      /\ gap \in Nat /\ silence \in Nat /\ RestIn \in Nat /\ RestIn <= SocketTimeout
      /\ Spent(got) \in Nat /\ Spent(got) + SocketTimeout <= Slowest /\ Spent(0) = 0
      /\ got < RestBytes - 1 => Spent(got + 1) = Spent(got) + SocketTimeout
    BY ClientAssumption, PromptAssumption, SpentFacts DEF ClientTypeOK
<1>1. CASE Shut
    BY <1>1, <1>0 DEF Shut, AgeInv
<1>2. CASE ConnectSends
    BY <1>2, <1>0, ClockFacts DEF ConnectSends, AgeInv, Since
<1>3. CASE Live
  <2> USE <1>3 DEF Live
  <2>a. /\ Patience' = RestIn \/ Patience' = SocketTimeout
        /\ Longest' = RestIn \/ Longest' = Slowest
    BY DEF Patience, Longest, Slowest
  <2>b. PICK p \in Nat : Patience' = p /\ p <= SocketTimeout
    BY <1>0, <2>a
  <2>c. PICK q \in Nat : Longest' = q /\ q <= Slowest
    BY <1>0, <2>a, SpentFacts
  <2>0. /\ p \in Nat /\ Patience \in Nat /\ Patience' = p /\ Patience <= p /\ p <= SocketTimeout
        /\ q \in Nat /\ Longest \in Nat /\ Longest' = q /\ Longest <= q /\ q <= Slowest
        /\ Slowest \in Nat /\ Patience <= Longest
    BY <2>b, <2>c, Waits, LongestWaits, SpentFacts, WaitsGrow
  <2>1. CASE ConnackArrives
    BY <2>1, <1>0, <2>0, ClockFacts DEF ConnackArrives, AgeInv, Since
  <2>2. CASE Connected
    <3>1. /\ mpc = "connrest" /\ mpc' = "user" /\ gap' = 0 /\ lastIn' = now
          /\ UNCHANGED <<now, lastOut, silence>>
      BY <2>2 DEF Connected
    <3>2. Since(lastIn)' = 0 /\ Since(lastOut)' = Since(lastOut)
      BY <3>1, ClockFacts DEF Since
    <3>3. silence <= Since(lastOut) /\ Since(lastOut) <= KeepAlive + Longest /\ got' = 0
      BY <2>2, <3>1, <1>0, <2>0, ClockFacts DEF AgeInv, Connected
    <3> QED
      BY <3>1, <3>2, <3>3, <1>0, <2>0, ClockFacts DEF AgeInv
  <2>3. CASE LoopRuns
    BY <2>3, <1>0, <2>0, ClockFacts DEF LoopRuns, SendPing, Heard, Expired, AgeInv, Since
  <2>4. CASE ReadPublish
    BY <2>4, <1>0, <2>0, ClockFacts DEF ReadPublish, AgeInv, Since
  <2>5. CASE ReadPingresp
    BY <2>5, <1>0, <2>0, ClockFacts DEF ReadPingresp, AgeInv, Since
  <2>6. CASE ReadTimeout
    BY <2>6, <1>0, <2>0, ClockFacts DEF ReadTimeout, FoundClosed, AgeInv, Since
  <2>7. CASE ReadGarbled
    <3>1. /\ mpc = "rest" /\ gap' = 0 /\ got' = 0 /\ UNCHANGED <<now, lastOut>>
          /\ lastIn' \in {lastIn, t} /\ silence' \in {silence, 0}
          /\ mpc' = "user" \/ (mpc' = "callback" /\ lastIn' = t /\ t' = t)
      BY <2>7 DEF ReadGarbled, Stop, Heard
    <3>2. /\ Since(lastOut)' = Since(lastOut)
          /\ Since(lastIn)' \in {Since(lastIn), Since(t)}
          /\ mpc' = "callback" => Since(lastIn)' = Since(t) /\ Since(t)' = Since(t)
      BY <3>1 DEF Since
    <3>3. /\ Since(t) <= Longest /\ Since(lastIn) <= KeepAlive + Since(t)
          /\ Since(lastOut) <= KeepAlive + Since(t) /\ silence <= Since(lastOut)
      BY <3>1 DEF AgeInv
    <3>4. CASE mpc' = "user"
      BY <3>1, <3>2, <3>3, <3>4, <1>0, <2>0, ClockFacts DEF AgeInv
    <3>5. CASE mpc' = "callback"
      BY <3>1, <3>2, <3>3, <3>5, <1>0, <2>0, ClockFacts DEF AgeInv
    <3> QED
      BY <3>1, <3>4, <3>5
  <2>8. CASE CallbackReturns
    BY <2>8, <1>0, <2>0, ClockFacts DEF CallbackReturns, AgeInv, Since
  <2>9. CASE PublishSends
    <3>1. /\ mpc \in {"user", "callback"} /\ lastOut' = now /\ silence' = 0
          /\ UNCHANGED <<now, mpc, gap, lastIn, t, waited, got>>
      BY <2>9 DEF PublishSends, Heard
    <3>2. Since(lastIn)' = Since(lastIn) /\ Since(lastOut)' = 0 /\ Since(t)' = Since(t)
      BY <3>1, ClockFacts DEF Since
    <3>3. CASE mpc = "user"
      BY <3>1, <3>2, <3>3, <1>0, <2>0, ClockFacts DEF AgeInv
    <3>4. CASE mpc = "callback"
      BY <3>1, <3>2, <3>4, <1>0, <2>0, ClockFacts DEF AgeInv
    <3> QED
      BY <3>1, <3>3, <3>4
  <2>10. CASE BrokerGreets \/ BrokerPublishes \/ BrokerAnswersPing \/ BrokerSendsRest \/ BrokerHangs
    <3>1. UNCHANGED <<now, mpc, gap, lastIn, lastOut, t, waited, got>> /\ silence' \in {silence, 0}
      BY <2>10 DEF BrokerGreets, BrokerPublishes, BrokerAnswersPing, BrokerSendsRest, BrokerHangs
    <3>2. UNCHANGED <<Since(lastIn), Since(lastOut), Since(t), Since(waited)>>
      BY <3>1 DEF Since
    <3> QED
      BY <3>1, <3>2, <1>0, <2>0, ClockFacts DEF AgeInv
  <2>11. CASE Tick
    <3>1. /\ UNCHANGED <<mpc, lastIn, lastOut, t, waited, got>>
          /\ silence' \in {silence, silence + 1} /\ gap' \in {gap, gap + 1}
          /\ mpc \in {"user", "callback"} => gap < MaxGap /\ gap' = gap + 1
          /\ mpc = "connack" => Since(lastIn) < SocketTimeout
          /\ mpc \in {"connrest", "rest"} => Since(waited) < SocketTimeout /\ inbox = <<>>
          /\ gap' <= MaxGap
      BY <2>11, <1>0 DEF Tick, MayWait, AgeInv
    <3>2. /\ Since(lastIn) <= KeepAlive + Slowest + 2 * MaxGap
          /\ Since(lastOut) <= KeepAlive + Slowest + 2 * MaxGap
          /\ mpc \in {"rest", "callback"} => Since(t) <= KeepAlive + Slowest + 2 * MaxGap
          /\ mpc \in {"rest", "connrest"} => Since(waited) <= KeepAlive + Slowest + 2 * MaxGap
      <4>1. CASE mpc = "user"
        BY <4>1, <1>0, <2>0, ClockFacts DEF AgeInv
      <4>2. CASE mpc = "rest"
        BY <4>2, <1>0, <2>0, ClockFacts DEF AgeInv
      <4>3. CASE mpc = "callback"
        BY <4>3, <1>0, <2>0, ClockFacts DEF AgeInv
      <4>4. CASE mpc = "connack"
        BY <4>4, <1>0, <2>0, ClockFacts DEF AgeInv
      <4>5. CASE mpc = "connrest"
        BY <4>5, <1>0, <2>0, ClockFacts DEF AgeInv
      <4> QED
        BY <4>1, <4>2, <4>3, <4>4, <4>5 DEF ClientTypeOK
    <3>3. /\ Since(lastIn)' = Since(lastIn) + 1 /\ Since(lastOut)' = Since(lastOut) + 1
          /\ mpc \in {"rest", "callback"} => Since(t)' = Since(t) + 1
          /\ mpc \in {"rest", "connrest"} => Since(waited)' = Since(waited) + 1
      BY <2>11, <3>1, <3>2, AgesTick DEF ClientTypeOK, Since
    <3>4. /\ mpc \in {"rest", "connrest"} => Since(waited) < Patience
          /\ mpc = "rest" => Since(t) < Longest
          /\ mpc = "connrest" => Since(lastIn) < SocketTimeout + Longest
      <4>1. CASE prompt /\ peer # "hung" /\ mpc \in {"rest", "connrest"}
        <5>1. owed # Nothing
          BY <4>1, <3>1, RestIsOwed
        <5>2. Since(waited) <= late /\ late < RestIn
          BY <4>1, <5>1, <2>11, <3>1 DEF LateInv, Tick, Due
        <5>3. mpc = "rest" => Since(t) <= late
          BY <4>1, <3>1 DEF LateInv
        <5>4. mpc = "connrest" => Since(lastIn) <= SocketTimeout + late
          BY <4>1, <3>1 DEF LateInv
        <5>5. Patience = RestIn /\ Longest = RestIn /\ late \in Nat
          BY <4>1 DEF Patience, Longest, ClientTypeOK
        <5> QED
          BY <4>1, <5>2, <5>3, <5>4, <5>5, <1>0, ClockFacts
      <4>2. CASE ~(prompt /\ peer # "hung") /\ mpc \in {"rest", "connrest"}
        <5>1. Patience = SocketTimeout /\ Longest = Slowest
          BY <4>2 DEF Patience, Longest
        <5>2. Since(waited) < SocketTimeout
          BY <4>2, <3>1
        <5> QED
          BY <4>2, <5>1, <5>2, <1>0, <2>0, ClockFacts DEF AgeInv
      <4> QED
        BY <4>1, <4>2
    <3>5. Patience' = Patience /\ Longest' = Longest
      BY <2>11 DEF Patience, Longest, Slowest, Tick
    <3>6. CASE mpc = "user"
      BY <3>1, <3>3, <3>5, <3>6, <1>0, <2>0, ClockFacts DEF AgeInv
    <3>7. CASE mpc = "rest"
      <4>1. /\ Since(t) <= Spent(got) + Since(waited)
            /\ Since(lastIn) <= KeepAlive + Since(t) /\ Since(lastOut) <= KeepAlive + Since(t)
            /\ silence <= Since(lastOut)
        BY <3>7 DEF AgeInv
      <4>2. Since(waited)' <= Patience' /\ Since(t)' <= Longest'
        BY <3>3, <3>4, <3>5, <3>7, <2>0, ClockFacts
      <4>3. Since(t)' <= Spent(got)' + Since(waited)'
        BY <3>1, <3>3, <3>7, <4>1, <1>0, ClockFacts DEF Spent
      <4>4. /\ Since(lastIn)' <= KeepAlive + Since(t)' /\ Since(lastOut)' <= KeepAlive + Since(t)'
            /\ silence' <= Since(lastOut)'
        <5>1. /\ Since(lastIn)' = Since(lastIn) + 1 /\ Since(lastOut)' = Since(lastOut) + 1
              /\ Since(t)' = Since(t) + 1 /\ silence' \in {silence, silence + 1}
          BY <3>1, <3>3, <3>7
        <5>2. KeepAlive \in Nat /\ Since(lastIn) \in Nat /\ Since(lastOut) \in Nat /\ Since(t) \in Nat
          BY <1>0, ClockFacts
        <5>3. silence \in Nat
          BY DEF ClientTypeOK
        <5>4. Since(lastIn) + 1 <= KeepAlive + (Since(t) + 1)
          BY <4>1, <5>2, OneTickMore
        <5>5. Since(lastOut) + 1 <= KeepAlive + (Since(t) + 1)
          BY <4>1, <5>2, OneTickMore
        <5>6. silence + 1 <= Since(lastOut) + 1 /\ silence <= Since(lastOut) + 1
          BY <4>1, <5>2, <5>3, OneTickMore
        <5> QED
          BY <5>1, <5>4, <5>5, <5>6
      <4> QED
        BY <3>1, <3>7, <4>2, <4>3, <4>4 DEF AgeInv
    <3>8. CASE mpc = "callback"
      BY <3>1, <3>3, <3>5, <3>8, <1>0, <2>0, ClockFacts DEF AgeInv
    <3>9. CASE mpc = "connack"
      BY <3>1, <3>3, <3>5, <3>9, <1>0, <2>0, ClockFacts DEF AgeInv
    <3>10. CASE mpc = "connrest"
      BY <3>1, <3>3, <3>4, <3>5, <3>10, <1>0, <2>0, ClockFacts DEF AgeInv
    <3> QED
      BY <3>6, <3>7, <3>8, <3>9, <3>10 DEF ClientTypeOK
  <2>12. CASE ReadOn
    <3>1. /\ mpc = "rest" /\ got < RestBytes - 1 /\ got' = got + 1 /\ waited' = now
          /\ UNCHANGED <<now, mpc, gap, lastIn, lastOut, t, silence>>
      BY <2>12 DEF ReadOn
    <3>2. UNCHANGED <<Since(lastIn), Since(lastOut), Since(t)>> /\ Since(waited)' = 0
      BY <3>1, ClockFacts DEF Since
    <3> QED
      BY <3>1, <3>2, <1>0, <2>0, ClockFacts DEF AgeInv
  <2>13. CASE BrokerSendsMore
    <3>1. UNCHANGED <<now, mpc, gap, lastIn, lastOut, t, silence>>
      BY <2>13 DEF BrokerSendsMore
    <3>2. UNCHANGED <<Since(lastIn), Since(lastOut), Since(t)>>
      BY <3>1 DEF Since
    <3>3. CASE mpc \in {"connrest", "rest"}
      <4>1. got < RestBytes - 1 /\ got' = got + 1 /\ Since(waited)' = 0
        BY <2>13, <3>1, <3>3, ClockFacts DEF BrokerSendsMore, Since
      <4>2. CASE mpc = "rest"
        BY <3>1, <3>2, <4>1, <4>2, <1>0, <2>0, ClockFacts DEF AgeInv
      <4>3. CASE mpc = "connrest"
        BY <3>1, <3>2, <4>1, <4>3, <1>0, <2>0, ClockFacts DEF AgeInv
      <4> QED
        BY <3>3, <4>2, <4>3
    <3>4. CASE mpc \in {"user", "callback"}
      <4>1. got' = got
        BY <2>13, <3>4 DEF BrokerSendsMore
      <4> QED
        BY <3>1, <3>2, <3>4, <4>1, <1>0, <2>0, ClockFacts DEF AgeInv
    <3> QED
      BY <2>13, <3>3, <3>4 DEF BrokerSendsMore
  <2> QED
    BY <2>1, <2>2, <2>3, <2>4, <2>5, <2>6, <2>7, <2>8, <2>9, <2>10, <2>11, <2>12, <2>13
<1>4. CASE UNCHANGED mqttVars
    BY <1>4 DEF mqttVars, AgeInv, Since, Patience, Longest
<1> QED
    BY <1>1, <1>2, <1>3, <1>4, StepKinds

-----------------------------------------------------------------------------
(* The answer to a ping is in time.                                           *)

(* The ticks that n turns of the client take.                                 *)
Turns(n) == MaxGap * n

LEMMA TurnsFacts ==
    /\ Turns(0) = 0 /\ Turns(1) = MaxGap
    /\ \A n \in Nat : Turns(n) \in Nat /\ Turns(n + 1) = Turns(n) + MaxGap
    /\ \A n \in Nat : n > 0 => Turns(n - 1) \in Nat /\ Turns(n) = Turns(n - 1) + MaxGap
    /\ \A m, n \in Nat : m <= n => Turns(m) <= Turns(n)
    /\ Turns(2 * Backlog) = 2 * Backlog * MaxGap
<1>1. MaxGap \in Nat /\ Backlog \in Nat
    BY ClientAssumption
<1>2. \A n \in Nat : Turns(n) \in Nat /\ Turns(n + 1) = Turns(n) + MaxGap
    BY <1>1 DEF Turns
<1>3. \A m, n \in Nat : m <= n => Turns(m) <= Turns(n)
    BY <1>1 DEF Turns
<1>4. Turns(2 * Backlog) = 2 * Backlog * MaxGap /\ Turns(0) = 0 /\ Turns(1) = MaxGap
    BY <1>1 DEF Turns
<1>5. \A n \in Nat : n > 0 => Turns(n - 1) \in Nat /\ Turns(n) = Turns(n - 1) + MaxGap
    BY <1>1 DEF Turns
<1> QED
    BY <1>2, <1>3, <1>4, <1>5

(* loop() stays content for n more ticks, and once the packet being read is   *)
(* counted too.                                                               *)
Fresh(n) ==
    /\ Since(lastIn) + n <= KeepAlive
    /\ Since(lastOut) + n <= KeepAlive
    /\ mpc # "user" => Since(t) + n <= KeepAlive

Wait       == IF owed = Nothing THEN 0 ELSE RestIn - late
BrokerLeft == IF owed = Nothing THEN AnswerIn - late ELSE RestIn - late + AnswerIn

(* The ticks until the client has read what it would read before an answer    *)
(* sent now, and until it reads the k-th byte.                                *)
ClientLeft ==
    CASE mpc = "user" -> Turns(Coming) + MaxGap - gap + Wait
      [] mpc = "rest" -> Turns(Coming + 1) + Wait
      [] OTHER        -> Turns(Coming) + 2 * MaxGap - gap + Wait
ReplyLeft(k) ==
    CASE mpc = "user" -> Turns(k) - gap
      [] mpc = "rest" -> Turns(k)
      [] OTHER        -> Turns(k) + MaxGap - gap

Asked      == sock = "open" /\ peer = "serving" /\ pingOutstanding /\ InSession /\ ~Reading
Unanswered ==
    /\ pings > 0 /\ Fresh(BrokerLeft + MaxGap)
    /\ mpc # "user" \/ inbox # <<>> => Fresh(ClientLeft)
Answered   == \E k \in 1 .. Len(inbox) : inbox[k] = "pingresp" /\ Fresh(ReplyLeft(k))
PingInv    == Asked => Unanswered \/ Answered

(* No age grows in a step without the clock.                                  *)
LEMMA FreshKeeps ==
    ASSUME ClientTypeOK, UNCHANGED now, NEW n \in Int, NEW m \in Int, Fresh(n), m <= n,
           lastIn' \in {lastIn, now} \/ (mpc # "user" /\ lastIn' = t),
           lastOut' \in {lastOut, now} \/ (mpc # "user" /\ lastOut' = t),
           mpc' # "user" => t' = now \/ (mpc # "user" /\ t' = t)
    PROVE  Fresh(m)'
<1>0. KeepAlive \in Nat
    BY ClientAssumption
<1>1. Since(lastIn)' + m <= KeepAlive
    BY <1>0, ClockFacts DEF Fresh, Since
<1>2. Since(lastOut)' + m <= KeepAlive
    BY <1>0, ClockFacts DEF Fresh, Since
<1>3. mpc' # "user" => Since(t)' + m <= KeepAlive
    BY <1>0, ClockFacts DEF Fresh, Since
<1> QED
    BY <1>1, <1>2, <1>3 DEF Fresh

LEMMA FreshTick ==
    ASSUME ClientTypeOK, Tick, NEW n \in Int, NEW m \in Int, Fresh(n), m + 1 <= n, m >= 0
    PROVE  Fresh(m)'
<1>0. KeepAlive \in Nat /\ KeepAlive + Slowest + 2 * MaxGap \in Nat
      /\ KeepAlive <= KeepAlive + Slowest + 2 * MaxGap
    BY ClientAssumption, SpentFacts
<1>1. UNCHANGED <<lastIn, lastOut, t, mpc>>
    BY DEF Tick, timeVars, callVars
<1>2. Since(lastIn)' = Since(lastIn) + 1 /\ Since(lastOut)' = Since(lastOut) + 1
    BY <1>0, <1>1, ClockFacts, AgesTick DEF Fresh, Since, ClientTypeOK
<1>3. mpc # "user" => Since(t)' = Since(t) + 1
    BY <1>0, <1>1, ClockFacts, AgesTick DEF Fresh, Since, ClientTypeOK
<1> QED
    BY <1>0, <1>1, <1>2, <1>3, ClockFacts DEF Fresh

LEMMA PingStep ==
    ASSUME ClientTypeOK, ClientTypeOK', Opening, ClosedInv, StreamInv, LateInv, ReplyInv, RoomInv,
           AgeInv, PingInv,
           prompt, [ClientNext]_mqttVars
    PROVE  PingInv'
<1> USE DEF sockVars, timeVars, callVars, peerVars, histVars, Return
<1>0. /\ KeepAlive \in Nat /\ MaxGap \in Nat /\ MaxGap > 0 /\ AnswerIn \in Nat /\ RestIn \in Nat
         /\ Backlog \in Nat
      /\ gap \in Nat /\ gap <= MaxGap /\ late \in Nat /\ Len(inbox) \in Nat
         /\ (inbox = <<>> <=> Len(inbox) = 0)
      /\ AnswerIn + RestIn + MaxGap <= KeepAlive
    BY ClientAssumption, PromptAssumption DEF ClientTypeOK, AgeInv
<1>t. RestIn + Turns(2 * Backlog) <= KeepAlive
    BY PromptAssumption, TurnsFacts
<1>1. CASE Shut
    BY <1>1 DEF Shut, PingInv, Asked
<1>2. CASE ConnectSends
    BY <1>2 DEF ConnectSends, PingInv, Asked
<1>3. CASE Live
  <2> SUFFICES ASSUME Asked'
               PROVE  Unanswered' \/ Answered'
    BY DEF PingInv
  <2> USE <1>3 DEF Live
  <2>1. /\ ~ConnackArrives /\ ~Connected /\ ~ReadPingresp /\ ~ReadTimeout /\ ~ReadGarbled
           /\ ~BrokerHangs /\ ~BrokerGreets /\ ~ReadOn
    <3>1. ~ConnackArrives /\ ~Connected /\ ~ReadPingresp
      BY DEF Asked, ConnackArrives, Connected, ReadPingresp, InSession
    <3>2. ~ReadTimeout
      BY NoTimeout DEF Asked, ReadTimeout, FoundClosed
    <3>3. ~ReadGarbled /\ ~BrokerHangs /\ ~BrokerGreets /\ ~ReadOn
      BY DEF Asked, ReadGarbled, ReadOn, BrokerHangs, BrokerGreets, StreamInv
    <3> QED
      BY <3>1, <3>2, <3>3
  <2>2. /\ Coming \in Nat /\ Coming + 1 \in Nat
        /\ Turns(Coming) \in Nat /\ Turns(Coming + 1) = Turns(Coming) + MaxGap
        /\ Wait \in Nat /\ Wait <= RestIn /\ BrokerLeft \in Nat /\ BrokerLeft + MaxGap <= KeepAlive
    <3>1. peer # "hung" => Wait \in Nat /\ Wait <= RestIn /\ BrokerLeft \in Nat
          /\ BrokerLeft + MaxGap <= KeepAlive
      BY <1>0 DEF LateInv, Wait, BrokerLeft
    <3>2. peer # "hung"
      BY WaitsGrow DEF Asked
    <3>3. Coming \in Nat /\ Coming + 1 \in Nat
      BY <1>0 DEF Coming
    <3>4. Turns(Coming) \in Nat /\ Turns(Coming + 1) = Turns(Coming) + MaxGap
      BY <3>3, TurnsFacts
    <3> QED
      BY <3>1, <3>2, <3>3, <3>4
  <2>3. CASE LoopRuns /\ Expired
    <3>1. /\ mpc = "user" /\ ~pingOutstanding /\ lastIn' = now /\ lastOut' = now /\ pingOutstanding'
          /\ peer = "serving" /\ UNCHANGED <<now, owed, late>> /\ Offset = 0
      BY <2>3 DEF LoopRuns, SendPing, Asked, Offset
    <3>2. pings = 0 /\ pings' > 0
      BY <2>3, <3>1 DEF LoopRuns, SendPing, ReplyInv, ClientTypeOK
    <3>3. mpc' # "user" => mpc' = "rest" /\ t' = now /\ inbox # <<>> /\ inbox' = Tail(inbox)
      BY <2>3, <3>1 DEF LoopRuns
    <3>4. inbox' # <<>> => mpc' # "user"
      BY <2>3, <3>1 DEF LoopRuns
    <3>5. ASSUME NEW n \in Int, n <= KeepAlive
          PROVE  Fresh(n)'
      BY <3>1, <3>3, <3>5, ClockFacts, <1>0 DEF Fresh, Since
    <3>6. BrokerLeft' = BrokerLeft
      BY <3>1 DEF BrokerLeft
    <3>7. Fresh(BrokerLeft + MaxGap)'
      BY <3>5, <3>6, <2>2, <1>0
    <3>8. ASSUME mpc' # "user"
          PROVE  Fresh(ClientLeft)'
      <4>1. Coming' = Coming - 1 /\ Coming' + 1 = Coming /\ Wait' = Wait
        BY <3>1, <3>3, <3>8, <1>0, TakeFirst DEF Coming, Wait
      <4>2. ClientLeft' = Turns(Coming) + Wait
        BY <4>1, <3>3, <3>8 DEF ClientLeft
      <4>3. Coming <= 2 * Backlog /\ 2 * Backlog \in Nat
        BY <3>1, <1>0, <2>2 DEF RoomInv
      <4>4. Turns(Coming) <= Turns(2 * Backlog) /\ Turns(2 * Backlog) \in Nat
        BY <4>3, <2>2, TurnsFacts
      <4>5. Turns(Coming) + Wait <= KeepAlive
        BY <4>4, <1>0, <1>t, <2>2
      <4> QED
        BY <4>2, <4>5, <3>5, <2>2
    <3> QED
      BY <3>2, <3>4, <3>7, <3>8 DEF Unanswered
  <2>4. CASE LoopRuns /\ ~Expired
    <3>1. mpc = "user" /\ gap' = 0
          /\ UNCHANGED <<now, lastIn, lastOut, owed, late, pings, peer, pingOutstanding>>
      BY <2>4 DEF LoopRuns, SendPing
    <3>e. inbox = <<>> => mpc' = "user" /\ inbox' = <<>>
      BY <2>4 DEF LoopRuns
    <3>n. inbox # <<>> => mpc' = "rest" /\ t' = now /\ inbox' = Tail(inbox)
      BY <2>4 DEF LoopRuns
    <3>k. inbox # <<>> /\ inbox[1] = "pingresp" => kind' = "pingresp"
      <4>1. inbox # <<>> => Head(inbox) = inbox[1]
        BY InboxFacts DEF ClientTypeOK
      <4> QED
        BY <2>4, <4>1 DEF LoopRuns
    <3>2. Asked
      BY <3>1 DEF Asked, InSession, Reading
    <3>3. ASSUME NEW n \in Int, NEW m \in Int, Fresh(n), m <= n
          PROVE  Fresh(m)'
      <4>1. mpc' # "user" => t' = now
        BY <3>e, <3>n
      <4>2. lastIn' = lastIn /\ lastOut' = lastOut /\ UNCHANGED now
        BY <3>1
      <4> QED
        BY <4>1, <4>2, <3>3, FreshKeeps
    <3>4. BrokerLeft' = BrokerLeft
      BY <3>1 DEF BrokerLeft
    <3>5. CASE Unanswered
      <4>1. Fresh(BrokerLeft + MaxGap)'
        BY <3>3, <3>4, <3>5, <2>2, <1>0 DEF Unanswered
      <4>2. ASSUME inbox # <<>>
            PROVE  Fresh(ClientLeft)'
        <5>0. mpc' = "rest" /\ inbox' = Tail(inbox) /\ UNCHANGED <<owed, late>>
          BY <3>1, <3>n, <4>2
        <5>1. Coming' = Coming - 1 /\ Coming' + 1 = Coming /\ Wait' = Wait
          BY <5>0, <4>2, <1>0, TakeFirst DEF Coming, Wait
        <5>2. ClientLeft' = Turns(Coming) + Wait
          BY <5>0, <5>1 DEF ClientLeft
        <5>3. ClientLeft = Turns(Coming) + MaxGap - gap + Wait
          BY <3>1 DEF ClientLeft
        <5>4. ClientLeft \in Int /\ Turns(Coming) + Wait \in Int
              /\ Turns(Coming) + Wait <= ClientLeft
          BY <5>3, <2>2, <1>0
        <5> QED
          BY <5>2, <5>4, <3>3, <3>5, <4>2 DEF Unanswered
      <4> QED
        BY <4>1, <4>2, <3>1, <3>e, <3>5 DEF Unanswered
    <3>6. CASE Answered
      <4>1. PICK k \in 1 .. Len(inbox) : inbox[k] = "pingresp" /\ Fresh(ReplyLeft(k))
        BY <3>6 DEF Answered
      <4>a. inbox # <<>>
        BY <4>1, <1>0
      <4>0. inbox # <<>> /\ mpc' = "rest" /\ inbox' = Tail(inbox) /\ k # 1
        BY <4>1, <4>a, <3>n, <3>k DEF Asked, Reading
      <4>2. /\ Len(inbox') = Len(inbox) - 1
            /\ k - 1 \in 1 .. Len(inbox') /\ inbox'[k - 1] = inbox[k]
        BY <4>0, <1>0, TakeFirst
      <4>3. ReplyLeft(k) = Turns(k) - gap
        BY <3>1 DEF ReplyLeft
      <4>4. ReplyLeft(k - 1)' = Turns(k - 1)
        BY <4>0 DEF ReplyLeft
      <4>5. Turns(k - 1) \in Int /\ Turns(k) \in Int /\ Turns(k - 1) + MaxGap = Turns(k)
        BY <4>2, TurnsFacts
      <4>6. Fresh(ReplyLeft(k - 1))'
        BY <4>1, <4>3, <4>4, <4>5, <3>3, <1>0
      <4> QED
        BY <4>1, <4>2, <4>6 DEF Answered
    <3> QED
      BY <3>2, <3>5, <3>6 DEF PingInv
  <2>5. CASE ReadPublish
    <3>1. /\ mpc = "rest" /\ mpc' = "callback" /\ inbox # <<>> /\ inbox' = Tail(inbox) /\ gap' = 0
             /\ lastIn' = t
          /\ UNCHANGED <<now, lastOut, t, owed, late, pings, peer, pingOutstanding, kind>>
      BY <2>5 DEF ReadPublish
    <3>2. Asked
      BY <2>5, <3>1 DEF Asked, InSession, Reading, ReadPublish
    <3>3. ASSUME NEW n \in Int, Fresh(n)
          PROVE  Fresh(n)'
      BY <3>1, <3>3, FreshKeeps
    <3>4. BrokerLeft' = BrokerLeft
      BY <3>1 DEF BrokerLeft
    <3>5. CASE Unanswered
      <4>1. Fresh(BrokerLeft + MaxGap)'
        BY <3>3, <3>4, <3>5, <2>2, <1>0 DEF Unanswered
      <4>2. Coming' = Coming - 1 /\ Wait' = Wait /\ Coming - 1 \in Nat
        BY <3>1, <1>0, TakeFirst DEF Coming, Wait
      <4>3. ClientLeft' = Turns(Coming - 1) + 2 * MaxGap - 0 + Wait
        BY <4>2, <3>1 DEF ClientLeft
      <4>4. ClientLeft = Turns(Coming + 1) + Wait
        BY <3>1 DEF ClientLeft
      <4>5. Turns(Coming - 1) \in Nat /\ Turns(Coming - 1) + MaxGap = Turns(Coming)
        BY <4>2, <2>2, TurnsFacts
      <4>6. ClientLeft' = ClientLeft /\ ClientLeft \in Int
        BY <4>3, <4>4, <4>5, <2>2, <1>0
      <4>7. Fresh(ClientLeft)'
        BY <4>6, <3>1, <3>3, <3>5 DEF Unanswered
      <4> QED
        BY <4>1, <4>7, <3>1, <3>5 DEF Unanswered
    <3>6. CASE Answered
      <4>1. PICK k \in 1 .. Len(inbox) : inbox[k] = "pingresp" /\ Fresh(ReplyLeft(k))
        BY <3>6 DEF Answered
      <4>2. k # 1
        <5>1. Offset = 1 /\ 1 \in 1 .. Len(inbox)
          BY <3>1, <1>0 DEF Offset
        <5>2. inbox[1] = "rest"
          BY <5>1 DEF StreamInv
        <5> QED
          BY <4>1, <5>2
      <4>3. /\ Len(inbox') = Len(inbox) - 1
            /\ k - 1 \in 1 .. Len(inbox') /\ inbox'[k - 1] = inbox[k]
        BY <4>1, <4>2, <3>1, <1>0, TakeFirst
      <4>4. ReplyLeft(k) = Turns(k)
        BY <3>1 DEF ReplyLeft
      <4>5. ReplyLeft(k - 1)' = Turns(k - 1) + MaxGap - 0
        BY <3>1 DEF ReplyLeft
      <4>6. Turns(k - 1) \in Int /\ Turns(k) \in Int /\ Turns(k - 1) + MaxGap = Turns(k)
        BY <4>3, TurnsFacts
      <4>7. Fresh(ReplyLeft(k - 1))'
        <5>1. ReplyLeft(k - 1)' = Turns(k)
          BY <4>5, <4>6, <1>0
        <5> QED
          BY <5>1, <4>1, <4>4, <4>6, <3>3
      <4> QED
        BY <4>1, <4>3, <4>7 DEF Answered
    <3> QED
      BY <3>2, <3>5, <3>6 DEF PingInv
  <2>6. CASE CallbackReturns \/ PublishSends
    <3>1. /\ UNCHANGED <<now, inbox, lastIn, owed, late, pings, peer, pingOutstanding>>
          /\ mpc # "rest" /\ mpc' # "rest"
          /\ lastOut' \in {lastOut, now} \/ (mpc # "user" /\ lastOut' = t)
          /\ \/ mpc = "callback" /\ mpc' = "user" /\ gap' = 0
             \/ mpc' = mpc /\ gap' = gap /\ t' = t
      BY <2>6 DEF CallbackReturns, PublishSends
    <3>2. Asked
      BY <3>1, <2>6 DEF Asked, InSession, Reading, CallbackReturns, PublishSends
    <3>3. ASSUME NEW n \in Int, NEW m \in Int, Fresh(n), m <= n
          PROVE  Fresh(m)'
      BY <3>1, <3>3, FreshKeeps
    <3>4. BrokerLeft' = BrokerLeft /\ Wait' = Wait /\ Coming' = Coming
      BY <3>1 DEF BrokerLeft, Wait, Coming
    <3>5. CASE Unanswered
      <4>1. Fresh(BrokerLeft + MaxGap)'
        BY <3>3, <3>4, <3>5, <2>2, <1>0 DEF Unanswered
      <4>2. ClientLeft \in Int /\ \E m \in Int : ClientLeft' = m /\ m <= ClientLeft
        <5>1. CASE mpc = "callback" /\ mpc' = "user" /\ gap' = 0
          <6>1. ClientLeft' = Turns(Coming) + MaxGap - 0 + Wait
            BY <5>1, <3>4 DEF ClientLeft
          <6>2. ClientLeft = Turns(Coming) + 2 * MaxGap - gap + Wait
            BY <5>1 DEF ClientLeft
          <6> QED
            BY <6>1, <6>2, <2>2, <1>0
        <5>2. CASE mpc' = mpc /\ gap' = gap
          <6>1. ClientLeft' = ClientLeft
            BY <5>2, <3>4 DEF ClientLeft
          <6>2. \/ ClientLeft = Turns(Coming) + MaxGap - gap + Wait
                \/ ClientLeft = Turns(Coming) + 2 * MaxGap - gap + Wait
            BY <3>1 DEF ClientLeft
          <6>3. ClientLeft \in Int
            BY <6>2, <2>2, <1>0
          <6> QED
            BY <6>1, <6>3
        <5> QED
          BY <5>1, <5>2, <3>1
      <4>3. mpc' # "user" \/ inbox' # <<>> => Fresh(ClientLeft)'
        BY <4>2, <3>1, <3>3, <3>5 DEF Unanswered
      <4> QED
        BY <4>1, <4>3, <3>1, <3>5 DEF Unanswered
    <3>6. CASE Answered
      <4>1. PICK k \in 1 .. Len(inbox) : inbox[k] = "pingresp" /\ Fresh(ReplyLeft(k))
        BY <3>6 DEF Answered
      <4>2. Turns(k) \in Int
        BY <4>1, TurnsFacts
      <4>3. ReplyLeft(k) \in Int /\ \E m \in Int : ReplyLeft(k)' = m /\ m <= ReplyLeft(k)
        <5>1. CASE mpc = "callback" /\ mpc' = "user" /\ gap' = 0
          BY <5>1, <4>2, <1>0 DEF ReplyLeft
        <5>2. CASE mpc' = mpc /\ gap' = gap
          BY <5>2, <4>2, <1>0 DEF ReplyLeft
        <5> QED
          BY <5>1, <5>2, <3>1
      <4> QED
        BY <4>1, <4>3, <3>1, <3>3 DEF Answered
    <3> QED
      BY <3>2, <3>5, <3>6 DEF PingInv
  <2>8. CASE BrokerPublishes
    <3>1. /\ UNCHANGED <<now, mpc, gap, lastIn, lastOut, t, pings, peer, kind, pingOutstanding>>
             /\ pings = 0
          /\ \E type \in Types : inbox' = Append(inbox, type)
      BY <2>8 DEF BrokerPublishes, Begins, Types
    <3>2. Asked
      BY <3>1 DEF Asked, InSession, Reading
    <3>3. ASSUME NEW n \in Int, Fresh(n)
          PROVE  Fresh(n)'
      BY <3>1, <3>3, FreshKeeps
    <3>4. PICK k \in 1 .. Len(inbox) : inbox[k] = "pingresp" /\ Fresh(ReplyLeft(k))
      BY <3>1, <3>2 DEF PingInv, Unanswered, Answered
    <3>5. k \in 1 .. Len(inbox') /\ inbox'[k] = inbox[k]
      BY <3>1, AddLast, <1>0
    <3>6. ReplyLeft(k)' = ReplyLeft(k)
      BY <3>1 DEF ReplyLeft
    <3>7. ReplyLeft(k) \in Int
      <4>1. Turns(k) \in Nat
        BY TurnsFacts
      <4>2. ReplyLeft(k) = Turns(k) - gap \/ ReplyLeft(k) = Turns(k)
            \/ ReplyLeft(k) = Turns(k) + MaxGap - gap
        BY DEF ReplyLeft
      <4> QED
        BY <4>1, <4>2, <1>0
    <3> QED
      BY <3>3, <3>4, <3>5, <3>6, <3>7 DEF Answered
  <2>9. CASE BrokerAnswersPing
    <3>1. /\ UNCHANGED <<now, mpc, gap, lastIn, lastOut, t, peer, kind, pingOutstanding>>
          /\ pings > 0 /\ owed = Nothing /\ inbox' = Append(inbox, "pingresp")
      BY <2>9 DEF BrokerAnswersPing, Begins
    <3>2. Asked
      BY <3>1 DEF Asked, InSession, Reading
    <3>3. ASSUME NEW n \in Int, NEW m \in Int, Fresh(n), m <= n
          PROVE  Fresh(m)'
      BY <3>1, <3>3, FreshKeeps
    <3>4. Unanswered
      <4>1. ~Answered
        BY <3>1 DEF Answered, ReplyInv
      <4> QED
        BY <3>2, <4>1 DEF PingInv
    <3>5. PICK k \in 1 .. Len(inbox') : k = Len(inbox) + 1 /\ inbox'[k] = "pingresp"
      BY <3>1, <1>0, AddLast DEF Types
    <3>6. Wait = 0 /\ Coming = Len(inbox) /\ Turns(k) = Turns(Coming) + MaxGap
      BY <3>1, <3>5, <2>2, <1>0 DEF Wait, Coming
    <3>7. CASE mpc = "user" /\ inbox = <<>>
      <4>1. ReplyLeft(k)' = MaxGap - gap
        <5>1. Turns(k) = MaxGap
          BY <3>5, <3>7, <1>0, TurnsFacts
        <5> QED
          BY <5>1, <3>1, <3>7 DEF ReplyLeft
      <4>2. Fresh(BrokerLeft + MaxGap)
        BY <3>4 DEF Unanswered
      <4> QED
        BY <3>3, <3>5, <4>1, <4>2, <2>2, <1>0 DEF Answered
    <3>8. CASE ~(mpc = "user" /\ inbox = <<>>)
      <4>1. Fresh(ClientLeft)
        BY <3>4, <3>8 DEF Unanswered
      <4>2. CASE mpc = "user"
        <5>1. ReplyLeft(k)' = Turns(k) - gap /\ ClientLeft = Turns(Coming) + MaxGap - gap + Wait
          BY <4>2, <3>1 DEF ReplyLeft, ClientLeft
        <5> QED
          BY <5>1, <4>1, <3>3, <3>5, <3>6, <2>2, <1>0 DEF Answered
      <4>3. CASE mpc = "rest"
        <5>1. ReplyLeft(k)' = Turns(k) /\ ClientLeft = Turns(Coming + 1) + Wait
          BY <4>3, <3>1 DEF ReplyLeft, ClientLeft
        <5> QED
          BY <5>1, <4>1, <3>3, <3>5, <3>6, <2>2, <1>0 DEF Answered
      <4>4. CASE mpc \notin {"user", "rest"}
        <5>1. /\ ReplyLeft(k)' = Turns(k) + MaxGap - gap
              /\ ClientLeft = Turns(Coming) + 2 * MaxGap - gap + Wait
          BY <4>4, <3>1 DEF ReplyLeft, ClientLeft
        <5> QED
          BY <5>1, <4>1, <3>3, <3>5, <3>6, <2>2, <1>0 DEF Answered
      <4> QED
        BY <4>2, <4>3, <4>4
    <3> QED
      BY <3>7, <3>8
  <2>10. CASE BrokerSendsRest
    <3>1. /\ UNCHANGED <<now, mpc, gap, lastIn, lastOut, t, pings, kind, pingOutstanding>>
          /\ owed # Nothing /\ owed' = Nothing /\ late' = 0 /\ inbox' = Append(inbox, "rest")
      BY <2>10 DEF BrokerSendsRest
    <3>2. Asked
      <4>1. peer # "greeting"
        BY <3>1 DEF Asked, InSession, StreamInv
      <4>2. peer' = peer
        BY <2>10, <4>1 DEF BrokerSendsRest, Asked, ClosedInv, ClientTypeOK
      <4> QED
        BY <3>1, <4>2 DEF Asked, InSession, Reading
    <3>3. ASSUME NEW n \in Int, NEW m \in Int, Fresh(n), m <= n
          PROVE  Fresh(m)'
      BY <3>1, <3>3, FreshKeeps
    <3>4. Len(inbox') = Len(inbox) + 1 /\ \A i \in 1 .. Len(inbox) : inbox'[i] = inbox[i]
      BY <3>1, AddLast
    <3>5. CASE Unanswered
      <4>1. BrokerLeft' = AnswerIn - 0 /\ BrokerLeft = RestIn - late + AnswerIn /\ late <= RestIn
        BY <3>1, <3>2 DEF BrokerLeft, LateInv, Asked
      <4>2. BrokerLeft' = AnswerIn /\ AnswerIn <= BrokerLeft
        BY <4>1, <1>0
      <4>3. Fresh(BrokerLeft + MaxGap)'
        BY <3>3, <4>2, <3>5, <2>2, <1>0 DEF Unanswered
      <4>4. Coming' = Coming /\ Wait' = 0
        BY <3>1, <3>4, <1>0 DEF Coming, Wait
      <4>5. mpc = "user" => inbox # <<>>
        <5>1. ASSUME mpc = "user", inbox = <<>>
              PROVE  FALSE
          <6>1. Coming = 1 /\ Offset = 0
            BY <5>1, <3>1, <1>0 DEF Coming, Offset
          <6> QED
            BY <6>1, <3>2 DEF StreamInv, Asked
        <5> QED
          BY <5>1
      <4>6. Fresh(ClientLeft)
        BY <3>5, <4>5 DEF Unanswered
      <4>7. CASE mpc = "user"
        <5>1. /\ ClientLeft' = Turns(Coming) + MaxGap - gap + 0
              /\ ClientLeft = Turns(Coming) + MaxGap - gap + Wait
          BY <4>7, <4>4, <3>1 DEF ClientLeft
        <5> QED
          BY <5>1, <4>3, <4>6, <3>1, <3>3, <3>5, <2>2, <1>0 DEF Unanswered
      <4>8. CASE mpc = "rest"
        <5>1. ClientLeft' = Turns(Coming + 1) + 0 /\ ClientLeft = Turns(Coming + 1) + Wait
          BY <4>8, <4>4, <3>1 DEF ClientLeft
        <5> QED
          BY <5>1, <4>3, <4>6, <3>1, <3>3, <3>5, <2>2, <1>0 DEF Unanswered
      <4>9. CASE mpc \notin {"user", "rest"}
        <5>1. /\ ClientLeft' = Turns(Coming) + 2 * MaxGap - gap + 0
              /\ ClientLeft = Turns(Coming) + 2 * MaxGap - gap + Wait
          BY <4>9, <4>4, <3>1 DEF ClientLeft
        <5> QED
          BY <5>1, <4>3, <4>6, <3>1, <3>3, <3>5, <2>2, <1>0 DEF Unanswered
      <4> QED
        BY <4>7, <4>8, <4>9
    <3>6. CASE Answered
      <4>1. PICK k \in 1 .. Len(inbox) : inbox[k] = "pingresp" /\ Fresh(ReplyLeft(k))
        BY <3>6 DEF Answered
      <4>2. k \in 1 .. Len(inbox') /\ inbox'[k] = inbox[k]
        BY <3>4, <1>0
      <4>3. ReplyLeft(k)' = ReplyLeft(k)
        BY <3>1 DEF ReplyLeft
      <4>4. ReplyLeft(k) \in Int
        <5>1. Turns(k) \in Nat
          BY TurnsFacts
        <5>2. ReplyLeft(k) = Turns(k) - gap \/ ReplyLeft(k) = Turns(k)
              \/ ReplyLeft(k) = Turns(k) + MaxGap - gap
          BY DEF ReplyLeft
        <5> QED
          BY <5>1, <5>2, <1>0
      <4> QED
        BY <3>3, <4>1, <4>2, <4>3, <4>4 DEF Answered
    <3> QED
      BY <3>2, <3>5, <3>6 DEF PingInv
  <2>11. CASE Tick
    <3>1. /\ UNCHANGED <<mpc, owed, pings, peer, kind, pingOutstanding, inbox>>
          /\ mpc \in {"user", "callback"} => gap < MaxGap /\ gap' = gap + 1
          /\ mpc = "rest" => inbox = <<>>
      BY <2>11 DEF Tick, MayWait
    <3>2. Asked
      BY <3>1 DEF Asked, InSession, Reading
    <3>3. ASSUME NEW n \in Int, NEW m \in Int, Fresh(n), m + 1 <= n, m >= 0
          PROVE  Fresh(m)'
      BY <2>11, <3>3, FreshTick
    <3>4. Coming' = Coming
      BY <3>1 DEF Coming
    <3>5. CASE Unanswered
      <4>1. late' = late + 1 /\ late < (IF owed = Nothing THEN AnswerIn ELSE RestIn)
        BY <2>11, <3>2, <3>5 DEF Tick, Due, Unanswered, Asked
      <4>2. BrokerLeft' = BrokerLeft - 1 /\ BrokerLeft > 0
        BY <4>1, <3>1, <1>0 DEF BrokerLeft
      <4>3. Fresh(BrokerLeft + MaxGap)'
        BY <3>3, <3>5, <4>2, <2>2, <1>0 DEF Unanswered
      <4>4. /\ owed = Nothing => Wait' = Wait
            /\ owed # Nothing => Wait' = Wait - 1 /\ Wait > 0
        BY <4>1, <3>1, <1>0 DEF Wait
      <4>5. ASSUME mpc # "user" \/ inbox # <<>>
            PROVE  Fresh(ClientLeft)'
        <5>1. Fresh(ClientLeft)
          BY <3>5, <4>5 DEF Unanswered
        <5>2. CASE mpc = "user"
          <6>1. /\ ClientLeft' = Turns(Coming) + MaxGap - (gap + 1) + Wait'
                /\ ClientLeft = Turns(Coming) + MaxGap - gap + Wait
            BY <5>2, <3>1, <3>4 DEF ClientLeft
          <6> QED
            BY <6>1, <5>1, <4>4, <5>2, <3>1, <3>3, <2>2, <1>0
        <5>3. CASE mpc = "rest"
          <6>1. ClientLeft' = Turns(Coming + 1) + Wait' /\ ClientLeft = Turns(Coming + 1) + Wait
            BY <5>3, <3>1, <3>4 DEF ClientLeft
          <6>2. owed # Nothing
            BY <5>3, <3>1, <3>2, RestIsOwed DEF Asked
          <6> QED
            BY <6>1, <6>2, <5>1, <4>4, <3>3, <2>2, <1>0
        <5>4. CASE mpc = "callback"
          <6>1. /\ ClientLeft' = Turns(Coming) + 2 * MaxGap - (gap + 1) + Wait'
                /\ ClientLeft = Turns(Coming) + 2 * MaxGap - gap + Wait
            BY <5>4, <3>1, <3>4 DEF ClientLeft
          <6> QED
            BY <6>1, <5>1, <4>4, <5>4, <3>1, <3>3, <2>2, <1>0
        <5> QED
          BY <5>2, <5>3, <5>4, <3>2 DEF Asked, InSession
      <4> QED
        BY <4>3, <4>5, <3>1, <3>5 DEF Unanswered
    <3>6. CASE Answered
      <4>1. PICK k \in 1 .. Len(inbox) : inbox[k] = "pingresp" /\ Fresh(ReplyLeft(k))
        BY <3>6 DEF Answered
      <4>2. mpc \in {"user", "callback"}
        BY <4>1, <3>1, <3>2, <1>0 DEF Asked, InSession
      <4>3. Turns(k) \in Nat /\ MaxGap <= Turns(k)
        BY <4>1, TurnsFacts, <1>0
      <4>4. CASE mpc = "user"
        <5>1. ReplyLeft(k)' = Turns(k) - (gap + 1) /\ ReplyLeft(k) = Turns(k) - gap
          BY <4>4, <3>1 DEF ReplyLeft
        <5> QED
          BY <5>1, <4>1, <4>3, <4>4, <3>1, <3>3, <1>0 DEF Answered
      <4>5. CASE mpc = "callback"
        <5>1. ReplyLeft(k)' = Turns(k) + MaxGap - (gap + 1)
              /\ ReplyLeft(k) = Turns(k) + MaxGap - gap
          BY <4>5, <3>1 DEF ReplyLeft
        <5> QED
          BY <5>1, <4>1, <4>3, <4>5, <3>1, <3>3, <1>0 DEF Answered
      <4> QED
        BY <4>2, <4>4, <4>5
    <3> QED
      BY <3>2, <3>5, <3>6 DEF PingInv
  <2>12. CASE BrokerSendsMore
    <3>1. Offset = 1
      BY <2>12, <1>0 DEF BrokerSendsMore, StreamInv, Coming, Offset
    <3>2. UNCHANGED <<prompt, now, mpc, sockVars, inbox, owed, pings, peer, gap, late, lastIn, lastOut, t,
                      kind, pingOutstanding>>
      BY <2>12, <3>1 DEF BrokerSendsMore, Offset
    <3>3. Asked
      BY <3>2 DEF Asked, InSession, Reading
    <3>4. Unanswered' = Unanswered /\ Answered' = Answered
      BY <3>2 DEF Unanswered, Answered, Fresh, ReplyLeft, ClientLeft, Wait, BrokerLeft, Coming, Since
    <3> QED
      BY <3>3, <3>4 DEF PingInv
  <2> QED
    BY <2>1, <2>3, <2>4, <2>5, <2>6, <2>8, <2>9, <2>10, <2>11, <2>12
<1>4. CASE UNCHANGED mqttVars
    BY <1>4 DEF mqttVars, PingInv, Asked, Unanswered, Answered, Fresh, ReplyLeft, ClientLeft, Wait,
       BrokerLeft, Coming, Since, InSession, Reading
<1> QED
    BY <1>1, <1>2, <1>3, <1>4, StepKinds

-----------------------------------------------------------------------------
(* A broker that hung is noticed.                                             *)

Period  == KeepAlive + MaxGap

(* The ticks until loop() acts on the silence of a broker without a packet in *)
(* flight, and until the client has read what is in flight and given up what  *)
(* was cut off.                                                               *)
ActLeft == IF Since(lastIn) <= KeepAlive THEN KeepAlive + MaxGap - Since(lastIn) ELSE MaxGap - gap
Unread  ==
    CASE mpc = "user"     -> Turns(Len(inbox)) + SocketTimeout - gap
      [] mpc = "callback" -> Turns(Len(inbox)) + MaxGap + SocketTimeout - gap
      [] OTHER            -> IF inbox = <<>> THEN SocketTimeout - Since(waited)
                                             ELSE Turns(Len(inbox)) + SocketTimeout

Idle == mpc = "user" /\ inbox = <<>>

InTime ==
    IF Idle THEN deaf + ActLeft + (IF pingOutstanding THEN 0 ELSE Period) <= DeafLimit
            ELSE deaf + Unread + 2 * Period <= DeafLimit

HangInv ==
    /\ peer # "hung" => deaf = 0
    /\ (peer = "hung" /\ ~InSession /\ inbox # <<>>) => deaf = 0
    /\ (peer = "hung" /\ InSession /\ sock = "open") => InTime

LEMMA ActLeftFacts ==
    ASSUME ClientTypeOK, AgeInv
    PROVE  ActLeft \in Nat /\ ActLeft <= Period
<1>1. /\ KeepAlive \in Nat /\ MaxGap \in Nat /\ gap \in Nat /\ gap <= MaxGap
         /\ Since(lastIn) \in Nat
    BY ClientAssumption, ClockFacts DEF ClientTypeOK, AgeInv
<1> QED
    BY <1>1 DEF ActLeft, Period

LEMMA DeafLimitFacts ==
    /\ DeafLimit = 2 * Period + Turns(2 * Backlog + 1) + SocketTimeout
    /\ Period \in Nat
    /\ Turns(2 * Backlog + 1) \in Nat /\ Turns(2 * Backlog + 1) = Turns(2 * Backlog) + MaxGap
<1>1. KeepAlive \in Nat /\ MaxGap \in Nat /\ SocketTimeout \in Nat /\ 2 * Backlog \in Nat
    BY ClientAssumption
<1>2. Turns(2 * Backlog + 1) = Turns(2 * Backlog) + MaxGap /\ Turns(2 * Backlog) \in Nat
    BY <1>1, TurnsFacts
<1>3. 2 * Backlog * MaxGap = Turns(2 * Backlog)
    BY TurnsFacts
<1> QED
    BY <1>1, <1>2, <1>3 DEF DeafLimit, Period

(* A broker that hangs now is noticed in time.                                *)
LEMMA HangsInTime == ClientTypeOK /\ AgeInv /\ RoomInv /\ InSession /\ deaf = 0 => InTime
<1> SUFFICES ASSUME ClientTypeOK, AgeInv, RoomInv, InSession, deaf = 0 PROVE InTime
    OBVIOUS
<1>0. /\ KeepAlive \in Nat /\ MaxGap \in Nat /\ SocketTimeout \in Nat /\ gap \in Nat
         /\ Len(inbox) \in Nat
      /\ 2 * Backlog \in Nat /\ 2 * Backlog + 1 \in Nat
    BY ClientAssumption DEF ClientTypeOK
<1>1. CASE Idle
    BY <1>0, <1>1, ActLeftFacts, DeafLimitFacts DEF InTime
<1>2. CASE ~Idle /\ mpc \in {"user", "callback"}
  <2>1. Len(inbox) <= 2 * Backlog
    BY <1>0, <1>2 DEF RoomInv, Coming, Offset
  <2>2. Turns(Len(inbox)) <= Turns(2 * Backlog) /\ Turns(Len(inbox)) \in Nat
        /\ Turns(2 * Backlog) \in Nat
    BY <2>1, <1>0, TurnsFacts
  <2>3. \/ Unread = Turns(Len(inbox)) + SocketTimeout - gap
        \/ Unread = Turns(Len(inbox)) + MaxGap + SocketTimeout - gap
    BY <1>2 DEF Unread
  <2>4. Unread \in Int /\ Unread <= Turns(2 * Backlog) + MaxGap + SocketTimeout
    BY <2>2, <2>3, <1>0
  <2>5. DeafLimit = 2 * Period + (Turns(2 * Backlog) + MaxGap) + SocketTimeout /\ Period \in Nat
    BY DeafLimitFacts
  <2>6. Unread + 2 * Period <= DeafLimit /\ Unread + 2 * Period \in Int
    BY <2>2, <2>4, <2>5, <1>0
  <2> QED
    BY <2>4, <2>5, <2>6, <1>2 DEF InTime
<1>3. CASE mpc = "rest"
  <2>1. Len(inbox) <= 2 * Backlog + 1
    BY <1>0, <1>3 DEF RoomInv, Coming, Offset
  <2>2. Turns(Len(inbox)) <= Turns(2 * Backlog + 1) /\ Turns(Len(inbox)) \in Nat
    BY <2>1, <1>0, TurnsFacts
  <2>3. Unread = SocketTimeout - Since(waited) \/ Unread = Turns(Len(inbox)) + SocketTimeout
    BY <1>3 DEF Unread
  <2>4. ~Idle /\ Since(waited) \in Nat
    BY <1>3, ClockFacts DEF Idle
  <2> QED
    BY <2>2, <2>3, <2>4, <1>0, DeafLimitFacts DEF InTime
<1> QED
    BY <1>1, <1>2, <1>3 DEF InSession

LEMMA HangsInTimeNext == (ClientTypeOK /\ AgeInv /\ RoomInv /\ InSession /\ deaf = 0 => InTime)'
BY HangsInTime, PTL

LEMMA LessToRead ==
    \A d, n, m, o, g, p, l \in Nat :
        g <= m /\ d + (n + m + o - g) + 2 * p <= l => d + (n + o) + 2 * p <= l
    OBVIOUS

LEMMA OneTurnLess ==
    \A d, n, m, o, p, l \in Nat : d + ((n + m) + o) + 2 * p <= l => d + (n + o) + 2 * p <= l
    OBVIOUS

LEMMA HangStep ==
    ASSUME ClientTypeOK, ClientTypeOK', ClosedInv, StreamInv, RoomInv', AgeInv, AgeInv', HangInv,
           prompt, [ClientNext]_mqttVars
    PROVE  HangInv'
<1> USE DEF sockVars, timeVars, callVars, peerVars, histVars, Return
<1>0. /\ KeepAlive \in Nat /\ MaxGap \in Nat /\ SocketTimeout \in Nat /\ SocketTimeout <= KeepAlive
      /\ gap \in Nat /\ gap <= MaxGap /\ deaf \in Nat /\ Len(inbox) \in Nat
         /\ (inbox = <<>> <=> Len(inbox) = 0)
    BY ClientAssumption DEF ClientTypeOK, AgeInv
<1>1. CASE Shut
    BY <1>1 DEF Shut, HangInv, ClosedInv
<1>2. CASE ConnectSends
    BY <1>2 DEF ConnectSends, HangInv
<1>3. CASE Live /\ deaf' = 0
    BY <1>3, HangsInTimeNext DEF HangInv
<1>4. CASE Live /\ deaf' # 0
  <2> USE <1>4 DEF Live
  <2>1. /\ peer = "hung" /\ peer' = "hung"
        /\ \/ ConnackArrives /\ deaf # 0
           \/ LoopRuns \/ ReadPublish \/ ReadPingresp \/ ReadTimeout \/ CallbackReturns
              \/ PublishSends \/ Tick
    <3>1. ~Connected
      BY DEF Connected, HangInv, InSession
    <3>2. ~ReadGarbled /\ ~ReadOn
      BY DEF ReadGarbled, ReadOn, StreamInv
    <3>3. peer = "hung" /\ ~BrokerSendsMore
      BY <3>1, <3>2 DEF ConnackArrives, LoopRuns, ReadPublish, ReadPingresp, ReadTimeout,
         CallbackReturns, PublishSends, BrokerGreets, BrokerPublishes, BrokerAnswersPing,
         BrokerSendsMore, BrokerSendsRest, BrokerHangs, Tick, HangInv
    <3> QED
      BY <3>1, <3>2, <3>3, WaitsGrow DEF ConnackArrives, BrokerGreets, BrokerPublishes,
         BrokerAnswersPing, BrokerSendsRest, BrokerHangs
  <2>2. CASE ConnackArrives /\ deaf # 0
    BY <2>1, <2>2 DEF ConnackArrives, HangInv, InSession
  <2>3. InSession => InTime
    BY <2>1 DEF HangInv
  <2>a. /\ Turns(Len(inbox)) \in Nat
        /\ inbox # <<>> => Turns(Len(inbox) - 1) \in Nat
           /\ Turns(Len(inbox)) = Turns(Len(inbox) - 1) + MaxGap
        /\ Period = KeepAlive + MaxGap /\ DeafLimit \in Nat
        /\ Since(lastIn) \in Nat /\ Since(waited) \in Nat /\ Since(t) \in Nat /\ ActLeft \in Nat
    <3>1. DeafLimit \in Nat
      BY <1>0, DeafLimitFacts
    <3>2. Since(lastIn) \in Nat /\ Since(waited) \in Nat /\ Since(t) \in Nat /\ ActLeft \in Nat
      BY ClockFacts, ActLeftFacts
    <3> QED
      BY <1>0, <3>1, <3>2, TurnsFacts DEF Period
  <2>z. InTime' /\ mpc' \in {"user", "rest", "callback"} => HangInv'
    BY <2>1 DEF HangInv, InSession
  <2>b. mpc = "rest" => Since(waited) <= SocketTimeout
    BY <1>0, <2>a, Waits DEF AgeInv
  <2>4. CASE LoopRuns
    <3>1. /\ mpc = "user" /\ gap' = 0 /\ deaf' = deaf /\ now' = now
      BY <2>4 DEF LoopRuns
    <3>2. InTime
      BY <2>3, <3>1 DEF InSession
    <3>3. CASE inbox = <<>> /\ Expired
      <4>1. inbox' = <<>> /\ mpc' = "user" /\ pingOutstanding' = TRUE /\ lastIn' = now
            /\ ~pingOutstanding
        BY <2>4, <3>1, <3>3 DEF LoopRuns, SendPing
      <4>2. Since(lastIn)' = 0
        BY <3>1, <4>1, ClockFacts DEF Since
      <4>3. ActLeft' = KeepAlive + MaxGap
        BY <4>2, <1>0 DEF ActLeft
      <4>4. deaf + ActLeft + Period <= DeafLimit
        BY <3>1, <3>2, <3>3, <4>1 DEF InTime, Idle
      <4>5. deaf + (KeepAlive + MaxGap) + 0 <= DeafLimit
        BY <4>4, <2>a, <1>0
      <4>6. Idle'
        BY <4>1 DEF Idle
      <4>7. InTime'
        BY <3>1, <4>1, <4>3, <4>5, <4>6 DEF InTime
      <4> QED
        BY <4>1, <4>7, <2>z
    <3>4. CASE inbox = <<>> /\ ~Expired
      <4>1. inbox' = <<>> /\ mpc' = "user" /\ UNCHANGED <<pingOutstanding, lastIn>>
        BY <2>4, <3>1, <3>4 DEF LoopRuns, SendPing
      <4>2. Since(lastIn) <= KeepAlive /\ Since(lastIn)' = Since(lastIn)
        BY <3>1, <3>4, <4>1, <1>0, <2>a DEF Since, Expired
      <4>3. ActLeft' = ActLeft
        BY <4>2 DEF ActLeft
      <4>4. Idle /\ Idle'
        BY <3>1, <3>4, <4>1 DEF Idle
      <4> QED
        BY <3>1, <3>2, <4>1, <4>3, <4>4, <2>1 DEF InTime, HangInv
    <3>5. CASE inbox # <<>>
      <4>1. inbox' = Tail(inbox) /\ mpc' = "rest" /\ waited' = now
        BY <2>4, <3>5 DEF LoopRuns
      <4>2. Len(inbox') = Len(inbox) - 1
        BY <3>5, <4>1, TakeFirst
      <4>3. Since(waited)' = 0
        BY <3>1, <4>1, ClockFacts DEF Since
      <4>4. Unread = Turns(Len(inbox)) + SocketTimeout - gap
        BY <3>1 DEF Unread
      <4>5. Unread' = SocketTimeout \/ Unread' = Turns(Len(inbox) - 1) + SocketTimeout
        BY <4>1, <4>2, <4>3, <1>0 DEF Unread
      <4>6. deaf + Unread + 2 * Period <= DeafLimit /\ ~Idle'
        BY <3>2, <3>5, <4>1 DEF InTime, Idle
      <4>9. deaf + (Turns(Len(inbox)) + SocketTimeout - gap) + 2 * Period <= DeafLimit
        BY <4>4, <4>6
      <4>10. /\ Turns(Len(inbox) - 1) \in Nat /\ Turns(Len(inbox)) = Turns(Len(inbox) - 1) + MaxGap
             /\ Period \in Nat /\ DeafLimit \in Nat
        BY <3>5, <2>a, <1>0
      <4>7. /\ deaf + SocketTimeout + 2 * Period <= DeafLimit
            /\ deaf + (Turns(Len(inbox) - 1) + SocketTimeout) + 2 * Period <= DeafLimit
        BY <4>9, <4>10, <1>0
      <4>8. InTime'
        BY <3>1, <4>5, <4>6, <4>7 DEF InTime
      <4> QED
        BY <4>1, <4>8, <2>z
    <3> QED
      BY <3>3, <3>4, <3>5
  <2>5. CASE ReadPublish
    <3>1. /\ mpc = "rest" /\ inbox # <<>> /\ mpc' = "callback" /\ gap' = 0 /\ deaf' = deaf
             /\ inbox' = Tail(inbox)
      BY <2>5 DEF ReadPublish
    <3>2. Len(inbox') = Len(inbox) - 1
      BY <3>1, TakeFirst
    <3>3. Unread = Turns(Len(inbox)) + SocketTimeout
      BY <3>1 DEF Unread
    <3>4. Unread' = Turns(Len(inbox) - 1) + MaxGap + SocketTimeout
      BY <3>1, <3>2, <1>0, <2>a DEF Unread
    <3>5. deaf + Unread + 2 * Period <= DeafLimit /\ ~Idle'
      BY <2>3, <3>1 DEF InTime, Idle, InSession
    <3>6. deaf + (Turns(Len(inbox) - 1) + MaxGap + SocketTimeout) + 2 * Period <= DeafLimit
      BY <3>1, <3>3, <3>5, <2>a, <1>0
    <3>7. InTime'
      BY <3>1, <3>4, <3>5, <3>6 DEF InTime
    <3> QED
      BY <3>1, <3>7, <2>z
  <2>c. ASSUME mpc \in {"rest", "callback"}, mpc' = "user", gap' = 0, deaf' = deaf, now' = now,
               lastIn' = lastIn \/ (lastIn' = t /\ mpc = "rest"),
               inbox' = inbox \/ (Len(inbox') = Len(inbox) - 1 /\ inbox # <<>>),
               inbox' = <<>> \/ inbox # <<>>
        PROVE  InTime'
    <3>1. deaf + Unread + 2 * Period <= DeafLimit
      BY <2>3, <2>c DEF InSession, InTime, Idle
    <3>2. CASE inbox' = <<>>
      <4>1. Idle'
        BY <2>c, <3>2 DEF Idle
      <4>2. ActLeft' = KeepAlive + MaxGap - Since(lastIn)' \/ ActLeft' = MaxGap
        <5>1. ActLeft' = IF Since(lastIn)' <= KeepAlive THEN KeepAlive + MaxGap - Since(lastIn)'
              ELSE MaxGap - 0
          BY <2>c DEF ActLeft
        <5> QED
          BY <5>1, <1>0
      <4>3. Since(lastIn)' = Since(lastIn) \/ Since(lastIn)' = Since(t)
        BY <2>c DEF Since
      <4>4. \/ ActLeft' = KeepAlive + MaxGap - Since(lastIn)
            \/ ActLeft' = KeepAlive + MaxGap - Since(t)
            \/ ActLeft' = MaxGap
        BY <4>2, <4>3
      <4>5. Unread \in Nat
        <5>1. CASE mpc = "rest"
          <6>1. Unread = IF inbox = <<>> THEN SocketTimeout - Since(waited)
                ELSE Turns(Len(inbox)) + SocketTimeout
            BY <5>1 DEF Unread
          <6> QED
            BY <5>1, <6>1, <2>a, <2>b, <1>0
        <5>2. CASE mpc = "callback"
          <6>1. Unread = Turns(Len(inbox)) + MaxGap + SocketTimeout - gap
            BY <5>2 DEF Unread
          <6> QED
            BY <6>1, <2>a, <1>0
        <5> QED
          BY <5>1, <5>2, <2>c
      <4>6. /\ deaf + (KeepAlive + MaxGap - Since(lastIn)) + Period <= DeafLimit
            /\ deaf + (KeepAlive + MaxGap - Since(lastIn)) + 0 <= DeafLimit
            /\ deaf + (KeepAlive + MaxGap - Since(t)) + Period <= DeafLimit
            /\ deaf + (KeepAlive + MaxGap - Since(t)) + 0 <= DeafLimit
            /\ deaf + MaxGap + Period <= DeafLimit
            /\ deaf + MaxGap + 0 <= DeafLimit
        BY <3>1, <4>5, <2>a, <1>0
      <4>7. deaf + ActLeft' + (IF pingOutstanding' THEN 0 ELSE Period) <= DeafLimit
        BY <4>4, <4>6
      <4> QED
        BY <2>c, <4>1, <4>7 DEF InTime
    <3>3. CASE inbox' # <<>>
      <4>1. Unread' = Turns(Len(inbox')) + SocketTimeout - 0 /\ ~Idle'
        BY <2>c, <3>3 DEF Unread, Idle
      <4>2. Unread = Turns(Len(inbox)) + SocketTimeout
            \/ Unread = Turns(Len(inbox)) + MaxGap + SocketTimeout - gap
        BY <2>c, <3>3 DEF Unread
      <4>3. Len(inbox') = Len(inbox) \/ (Len(inbox') = Len(inbox) - 1 /\ inbox # <<>>)
        BY <2>c
      <4>4. \/ Unread' = Turns(Len(inbox)) + SocketTimeout
            \/ Unread' = Turns(Len(inbox) - 1) + SocketTimeout /\ inbox # <<>>
        <5>1. /\ Turns(Len(inbox)) + SocketTimeout - 0 = Turns(Len(inbox)) + SocketTimeout
              /\ inbox # <<>>
                 => Turns(Len(inbox) - 1) + SocketTimeout - 0 = Turns(Len(inbox) - 1) + SocketTimeout
          BY <2>a, <1>0
        <5> QED
          BY <4>1, <4>3, <5>1
      <4>5. /\ deaf + (Turns(Len(inbox)) + SocketTimeout) + 2 * Period <= DeafLimit
            /\ inbox # <<>>
               => deaf + (Turns(Len(inbox) - 1) + SocketTimeout) + 2 * Period <= DeafLimit
        <5>1. /\ deaf \in Nat /\ MaxGap \in Nat /\ SocketTimeout \in Nat /\ gap \in Nat /\ gap <= MaxGap
              /\ Turns(Len(inbox)) \in Nat /\ Period \in Nat /\ DeafLimit \in Nat
          BY <2>a, <1>0
        <5>2. inbox # <<>> => Turns(Len(inbox) - 1) \in Nat
                              /\ Turns(Len(inbox)) = Turns(Len(inbox) - 1) + MaxGap
          BY <2>a
        <5>3. deaf + (Turns(Len(inbox)) + SocketTimeout) + 2 * Period <= DeafLimit
          <6>1. \/ deaf + (Turns(Len(inbox)) + SocketTimeout) + 2 * Period <= DeafLimit
                \/ deaf + (Turns(Len(inbox)) + MaxGap + SocketTimeout - gap) + 2 * Period <= DeafLimit
            BY <3>1, <4>2
          <6> QED
            BY <5>1, <6>1, LessToRead
        <5>4. ASSUME inbox # <<>>
              PROVE  deaf + (Turns(Len(inbox) - 1) + SocketTimeout) + 2 * Period <= DeafLimit
          BY <5>1, <5>2, <5>3, <5>4, OneTurnLess
        <5> QED
          BY <5>3, <5>4
      <4> QED
        BY <2>c, <4>1, <4>4, <4>5 DEF InTime
    <3> QED
      BY <3>2, <3>3
  <2>6. CASE ReadPingresp
    <3>1. Len(inbox') = Len(inbox) - 1 /\ inbox # <<>>
      BY <2>6, TakeFirst DEF ReadPingresp
    <3> QED
      BY <2>6, <3>1, <2>b, <2>c, <2>z DEF ReadPingresp
  <2>7. CASE ReadTimeout
    BY <2>7, <2>c, <2>z DEF ReadTimeout
  <2>8. CASE CallbackReturns
    BY <2>8, <2>c, <2>z DEF CallbackReturns
  <2>9. CASE PublishSends
    <3>1. UNCHANGED <<mpc, inbox, now, deaf, gap, lastIn, waited, pingOutstanding>>
      BY <2>9 DEF PublishSends
    <3>2. UNCHANGED <<Since(lastIn), Since(waited)>>
      BY <3>1 DEF Since
    <3>3. UNCHANGED <<ActLeft, Unread, Idle>>
      BY <3>1, <3>2 DEF ActLeft, Unread, Idle
    <3>4. InTime
      BY <2>3, <2>9 DEF InSession, PublishSends
    <3> QED
      BY <3>1, <3>3, <3>4, <2>1 DEF InTime, HangInv, InSession
  <2>10. CASE Tick
    <3>1. /\ UNCHANGED <<mpc, inbox, lastIn, waited, pingOutstanding, sock>>
          /\ deaf' = deaf + 1 \/ deaf' = deaf
          /\ mpc \in {"user", "callback"} => gap' = gap + 1 /\ gap < MaxGap
          /\ mpc \notin {"user", "callback"} => inbox = <<>>
      BY <2>10, <1>0 DEF Tick, MayWait
    <3>2. InSession => Since(lastIn)' = Since(lastIn) + 1
          /\ (mpc = "rest" => Since(waited)' = Since(waited) + 1)
      <4>1. InSession => Since(lastIn) <= KeepAlive + Slowest + 2 * MaxGap
        <5>1. Longest \in Nat /\ Longest <= Slowest /\ Slowest \in Nat
          BY LongestWaits, SpentFacts
        <5>2. CASE mpc = "user"
          BY <5>1, <5>2, <1>0, <2>a DEF AgeInv
        <5>3. CASE mpc = "rest"
          BY <5>1, <5>3, <1>0, <2>a DEF AgeInv
        <5>4. CASE mpc = "callback"
          BY <5>1, <5>4, <1>0, <2>a DEF AgeInv
        <5> QED
          BY <5>2, <5>3, <5>4 DEF InSession
      <4>2. mpc = "rest" => Since(waited) <= KeepAlive + Slowest + 2 * MaxGap
        BY <2>b, <2>a, <1>0, SpentFacts
      <4> QED
        <5>1. lastIn \in Clock /\ waited \in Clock
          BY DEF ClientTypeOK
        <5>2. InSession => Ago(now', lastIn) = Since(lastIn) + 1
          BY <2>10, <4>1, <5>1, AgesTick
        <5>3. mpc = "rest" => Ago(now', waited) = Since(waited) + 1
          BY <2>10, <4>2, <5>1, AgesTick
        <5> QED
          BY <3>1, <5>2, <5>3 DEF Since
    <3>3. CASE ~InSession
      BY <3>1, <3>3, <2>1 DEF HangInv, InSession
    <3>4. CASE Idle
      <4>1. InSession /\ InTime /\ Idle' /\ mpc = "user"
        BY <2>3, <3>1, <3>4 DEF InSession, Idle
      <4>2. Since(lastIn)' = Since(lastIn) + 1 /\ gap' = gap + 1 /\ gap < MaxGap
        BY <3>1, <3>2, <4>1
      <4>3. ActLeft' = IF Since(lastIn) + 1 <= KeepAlive
            THEN KeepAlive + MaxGap - (Since(lastIn) + 1) ELSE MaxGap - (gap + 1)
        BY <4>2 DEF ActLeft
      <4>4. ActLeft = IF Since(lastIn) <= KeepAlive THEN KeepAlive + MaxGap - Since(lastIn)
            ELSE MaxGap - gap
        BY DEF ActLeft
      <4>5. PICK l \in Int : ActLeft' = l /\ l + 1 <= ActLeft
        <5>1. CASE Since(lastIn) + 1 <= KeepAlive
          BY <5>1, <4>2, <4>3, <4>4, <1>0, <2>a
        <5>2. CASE Since(lastIn) + 1 > KeepAlive
          <6>1. ActLeft' = MaxGap - (gap + 1)
            BY <5>2, <4>3, <1>0, <2>a
          <6>2. MaxGap - (gap + 1) \in Int /\ (MaxGap - (gap + 1)) + 1 <= ActLeft
            BY <5>2, <4>4, <1>0, <2>a
          <6> QED
            BY <6>1, <6>2
        <5> QED
          BY <5>1, <5>2, <1>0, <2>a
      <4>6. deaf + ActLeft + (IF pingOutstanding THEN 0 ELSE Period) <= DeafLimit
        BY <3>4, <4>1 DEF InTime
      <4>7. /\ deaf + l + (IF pingOutstanding THEN 0 ELSE Period) <= DeafLimit
            /\ (deaf + 1) + l + (IF pingOutstanding THEN 0 ELSE Period) <= DeafLimit
        BY <4>5, <4>6, <1>0, <2>a
      <4>8. InTime'
        BY <3>1, <4>1, <4>5, <4>7 DEF InTime
      <4> QED
        BY <3>1, <4>1, <4>8, <2>z
    <3>5. CASE InSession /\ ~Idle
      <4>1. InTime /\ ~Idle' /\ deaf + Unread + 2 * Period <= DeafLimit
        BY <2>3, <3>1, <3>5 DEF InTime, Idle
      <4>2. PICK l \in Int : Unread' = l /\ Unread = l + 1
        <5>1. CASE mpc = "user"
          <6>1. Unread' = Turns(Len(inbox)) + SocketTimeout - (gap + 1)
                /\ Unread = Turns(Len(inbox)) + SocketTimeout - gap
            BY <3>1, <5>1 DEF Unread
          <6> QED
            BY <6>1, <1>0, <2>a
        <5>2. CASE mpc = "callback"
          <6>1. /\ Unread' = Turns(Len(inbox)) + MaxGap + SocketTimeout - (gap + 1)
                /\ Unread = Turns(Len(inbox)) + MaxGap + SocketTimeout - gap
            BY <3>1, <5>2 DEF Unread
          <6> QED
            BY <6>1, <1>0, <2>a
        <5>3. CASE mpc = "rest"
          <6>1. Unread' = SocketTimeout - (Since(waited) + 1)
                /\ Unread = SocketTimeout - Since(waited)
            BY <3>1, <3>2, <3>5, <5>3 DEF Unread
          <6> QED
            BY <6>1, <1>0, <2>a
        <5> QED
          BY <3>5, <5>1, <5>2, <5>3 DEF InSession
      <4>3. deaf + l + 2 * Period <= DeafLimit /\ (deaf + 1) + l + 2 * Period <= DeafLimit
        BY <4>1, <4>2, <1>0, <2>a
      <4>4. InTime'
        BY <3>1, <4>1, <4>2, <4>3 DEF InTime
      <4> QED
        BY <3>1, <3>5, <4>4, <2>z DEF InSession
    <3> QED
      BY <3>3, <3>4, <3>5
  <2> QED
    BY <2>1, <2>2, <2>4, <2>5, <2>6, <2>7, <2>8, <2>9, <2>10
<1>5. CASE UNCHANGED mqttVars
    BY <1>5 DEF mqttVars, HangInv, InSession, InTime, Idle, ActLeft, Unread, Since
<1> QED
    BY <1>1, <1>2, <1>3, <1>4, <1>5, StepKinds

-----------------------------------------------------------------------------
(* The inductive invariant: of every broker, and of a prompt one.             *)

PromptInv == StreamInv /\ LateInv /\ ReplyInv /\ RoomInv /\ PingInv /\ HangInv

ClientInv ==
    /\ ClientTypeOK /\ Opening /\ ClosedInv /\ SessionInv /\ AgeInv
    /\ prompt => PromptInv

LEMMA ClientInvInit == ClientInit => ClientInv
<1> SUFFICES ASSUME ClientInit PROVE ClientInv
    OBVIOUS
<1>1. /\ sock = "closed" /\ mpc = "user" /\ peer = "none" /\ owed = Nothing /\ inbox = <<>>
         /\ Len(inbox) = 0
      /\ gap = 0 /\ deaf = 0 /\ pings = 0 /\ kind = Nothing /\ got = 0
    BY DEF ClientInit
<1>2. ClientTypeOK /\ Opening /\ ClosedInv /\ SessionInv
    BY <1>1, ClientTypeInit DEF Opening, ClosedInv, SessionInv
<1>3. AgeInv
    BY <1>1, ClientAssumption DEF AgeInv
<1>4. StreamInv
    BY <1>1 DEF StreamInv, Nothing
<1>5. LateInv /\ PingInv /\ HangInv
    BY <1>1 DEF LateInv, PingInv, Asked, HangInv
<1>6. ReplyInv
    BY <1>1 DEF ReplyInv, InSession, Reading
<1>7. RoomInv
    BY <1>1, ClientAssumption DEF RoomInv, Coming, Offset
<1> QED
    BY <1>2, <1>3, <1>4, <1>5, <1>6, <1>7 DEF ClientInv, PromptInv

LEMMA ClientInvStep == ClientInv /\ [ClientNext]_mqttVars => ClientInv'
<1> SUFFICES ASSUME ClientInv, [ClientNext]_mqttVars PROVE ClientInv'
    OBVIOUS
<1>1. ClientTypeOK /\ Opening /\ ClosedInv /\ SessionInv /\ AgeInv /\ (prompt => PromptInv)
    BY DEF ClientInv
<1>2. ClientTypeOK' /\ Opening' /\ ClosedInv' /\ SessionInv'
    BY <1>1, ClientTypeStep, ClosedStep, SessionStep
<1>3. AgeInv'
    BY <1>1, <1>2, AgeStep DEF PromptInv
<1>4. prompt' = prompt
    BY DEF ClientNext, SketchStep, ClientStep, BrokerStep, Tick, mqttVars
<1>5. ASSUME prompt PROVE PromptInv'
  <2>1. StreamInv /\ LateInv /\ ReplyInv /\ RoomInv /\ PingInv /\ HangInv
    BY <1>1, <1>5 DEF PromptInv
  <2>2. StreamInv'
    BY <1>1, <2>1, StreamStep
  <2>3. LateInv'
    BY <1>1, <1>2, <1>5, <2>1, <2>2, LateStep DEF AgeInv
  <2>4. ReplyInv'
    BY <1>1, <2>1, ReplyStep
  <2>5. RoomInv'
    BY <1>1, <1>2, <1>5, <2>1, RoomStep
  <2>6. PingInv'
    BY <1>1, <1>2, <1>5, <2>1, PingStep
  <2>7. HangInv'
    BY <1>1, <1>2, <1>3, <1>5, <2>1, <2>5, HangStep
  <2> QED
    BY <2>2, <2>3, <2>4, <2>5, <2>6, <2>7 DEF PromptInv
<1> QED
    BY <1>2, <1>3, <1>4, <1>5 DEF ClientInv

(* The bounds of the histories follow.                                        *)
LEMMA InStepHolds == ClientInv => InStep
<1> SUFFICES ASSUME ClientInv, prompt, mpc = "user", inbox # <<>> PROVE Head(inbox) # "rest"
    BY DEF InStep
<1>1. inbox \in Seq(Types \cup {"rest"}) /\ StreamInv
    BY DEF ClientInv, PromptInv, ClientTypeOK
<1>2. Head(inbox) = inbox[1] /\ Len(inbox) \in Nat /\ Len(inbox) > 0 /\ Offset = 0
    BY <1>1, InboxFacts DEF Offset
<1>3. 1 \in 1 .. Len(inbox) /\ (1 + Offset) % 2 # 0
    BY <1>2
<1> QED
    BY <1>1, <1>2, <1>3 DEF StreamInv

LEMMA SilenceHolds == ClientInv => SilenceBounded
<1> SUFFICES ASSUME ClientInv, sock = "open", peer = "serving" PROVE silence <= SilenceLimit
    BY DEF SilenceBounded
<1>1. ClientTypeOK /\ AgeInv
    BY DEF ClientInv
<1>2. /\ KeepAlive \in Nat /\ SocketTimeout \in Nat /\ MaxGap \in Nat /\ SocketTimeout <= KeepAlive
      /\ gap \in Nat /\ gap <= MaxGap /\ silence \in Nat
      /\ Since(lastOut) \in Nat /\ Since(lastIn) \in Nat /\ Since(t) \in Nat
    BY <1>1, ClientAssumption, ClockFacts DEF ClientTypeOK, AgeInv
<1>3. LongestRest = Longest /\ Longest \in Nat
    BY LongestWaits DEF LongestRest, Longest, Slowest
<1>4. SilenceLimit = KeepAlive + 2 * MaxGap + Longest
    BY <1>3 DEF SilenceLimit
<1>5. silence <= Since(lastOut)
    BY <1>1 DEF AgeInv
<1>6. Since(lastOut) <= KeepAlive + 2 * MaxGap + Longest
  <2>1. CASE mpc = "user"
    BY <1>1, <1>2, <1>3, <2>1 DEF AgeInv
  <2>2. CASE mpc \in {"rest", "callback"}
    BY <1>1, <1>2, <1>3, <2>2 DEF AgeInv
  <2>3. CASE mpc \in {"connack", "connrest"}
    BY <1>1, <1>2, <1>3, <2>3 DEF AgeInv
  <2> QED
    BY <1>1, <2>1, <2>2, <2>3 DEF ClientTypeOK
<1> QED
    BY <1>2, <1>3, <1>4, <1>5, <1>6

LEMMA HungHolds == ClientInv => HungIsNoticed
<1> SUFFICES ASSUME ClientInv, prompt, sock = "open", mpc = "user" PROVE deaf <= DeafLimit
    BY DEF HungIsNoticed
<1>1. ClientTypeOK /\ AgeInv /\ HangInv
    BY DEF ClientInv, PromptInv
<1>2. /\ KeepAlive \in Nat /\ SocketTimeout \in Nat /\ MaxGap \in Nat /\ Period \in Nat
         /\ DeafLimit \in Nat
      /\ gap \in Nat /\ gap <= MaxGap /\ deaf \in Nat /\ ActLeft \in Nat
      /\ Len(inbox) \in Nat /\ (inbox = <<>> <=> Len(inbox) = 0)
    BY <1>1, ClientAssumption, DeafLimitFacts, ActLeftFacts DEF ClientTypeOK, AgeInv
<1>3. CASE peer # "hung"
    BY <1>1, <1>2, <1>3 DEF HangInv
<1>4. CASE peer = "hung" /\ Idle
    BY <1>1, <1>2, <1>4 DEF HangInv, InTime, InSession
<1>5. CASE peer = "hung" /\ ~Idle
  <2>1. inbox # <<>> /\ deaf + Unread + 2 * Period <= DeafLimit
    BY <1>1, <1>5 DEF HangInv, InTime, InSession, Idle
  <2>2. Unread = Turns(Len(inbox)) + SocketTimeout - gap
    BY DEF Unread
  <2>3. Turns(Len(inbox) - 1) \in Nat /\ Turns(Len(inbox)) = Turns(Len(inbox) - 1) + MaxGap
    BY <1>2, <2>1, TurnsFacts
  <2> QED
    BY <1>2, <2>1, <2>2, <2>3
<1> QED
    BY <1>3, <1>4, <1>5

(* A prompt broker's answer leaves the client content at every loop().        *)
LEMMA NoAlarm ==
    ASSUME ClientInv, prompt, mpc = "user", sock = "open", peer = "serving", pingOutstanding
    PROVE  ~Expired
<1>1. ClientTypeOK /\ AgeInv /\ LateInv /\ PingInv
    BY DEF ClientInv, PromptInv
<1>2. /\ KeepAlive \in Nat /\ MaxGap \in Nat /\ AnswerIn \in Nat /\ RestIn \in Nat
      /\ gap \in Nat /\ gap <= MaxGap /\ late \in Nat
      /\ Since(lastIn) \in Nat /\ Since(lastOut) \in Nat /\ Len(inbox) \in Nat
    BY <1>1, ClientAssumption, ClockFacts DEF ClientTypeOK, AgeInv
<1>3. \E n \in Nat : Fresh(n)
  <2>1. Unanswered \/ Answered
    BY <1>1 DEF PingInv, Asked, InSession, Reading
  <2>2. CASE Unanswered
    <3>1. late <= (IF owed = Nothing THEN AnswerIn ELSE RestIn)
      BY <1>1 DEF LateInv
    <3>2. BrokerLeft + MaxGap \in Nat
      BY <1>2, <3>1 DEF BrokerLeft
    <3> QED
      BY <2>2, <3>2 DEF Unanswered
  <2>3. CASE Answered
    <3>1. PICK k \in 1 .. Len(inbox) : Fresh(ReplyLeft(k))
      BY <2>3 DEF Answered
    <3>2. k > 0 /\ k \in Nat
      BY <1>2, <3>1
    <3>3. Turns(k - 1) \in Nat /\ Turns(k) = Turns(k - 1) + MaxGap
      BY <3>2, TurnsFacts
    <3>4. ReplyLeft(k) = Turns(k) - gap
      BY DEF ReplyLeft
    <3>5. ReplyLeft(k) \in Nat
      BY <1>2, <3>3, <3>4
    <3> QED
      BY <3>1, <3>5
  <2> QED
    BY <2>1, <2>2, <2>3
<1> QED
    BY <1>2, <1>3 DEF Fresh, Expired

-----------------------------------------------------------------------------
(* The theorems.                                                              *)

(* Every state of the client, the sketch, the broker and the clock satisfies  *)
(* the inductive invariant, for every keepalive, timeout and backlog.         *)
THEOREM ClientInvariant == ClientSpec => []ClientInv
BY ClientInvInit, ClientInvStep, PTL DEF ClientSpec

(* Outside connect() an open socket is a session the broker accepted, as      *)
(* connected() takes it (601-616).                                            *)
THEOREM SocketIsSession == ClientSpec => []SocketMeansSession
<1>1. ClientInv => SocketMeansSession
    BY DEF ClientInv, SessionInv, SocketMeansSession
<1> QED
    BY <1>1, ClientInvariant, PTL

(* The reader never takes the rest of a prompt broker's packet for a packet   *)
(* (246-300).                                                                 *)
THEOREM ReaderInStep == ClientSpec => []InStep
BY InStepHolds, ClientInvariant, PTL

(* The broker hears from the client at least every SilenceLimit ticks, which  *)
(* count a socket timeout for each byte of a packet (222-230), with lastOut   *)
(* set back to before the callback (305-317, 344).                            *)
THEOREM BrokerHears == ClientSpec => []SilenceBounded
BY SilenceHolds, ClientInvariant, PTL

(* A hung broker does not keep the socket beyond DeafLimit ticks (305-309).   *)
THEOREM HungIsLeft == ClientSpec => []HungIsNoticed
BY HungHolds, ClientInvariant, PTL

(* loop() gives up no broker that answers promptly, whatever it sent before   *)
(* it heard the ping and sends after the answer (305-309, 355-357).           *)
THEOREM PromptIsKept == ClientSpec => NoFalseAlarm
<1>1. ASSUME ClientInv, [ClientNext]_mqttVars, prompt, mpc = "user", state = "connected",
             state' = "timeout"
      PROVE  peer # "serving"
  <2>1. LoopTimesOut
    BY <1>1 DEF ClientNext, SketchStep, ClientStep, BrokerStep, Tick, mqttVars, sockVars,
       FoundClosed, LostOr, ConnackArrives, ConnackTimeout, Connected, Refused, ConnackCutOff,
       ReadPublish, ReadPingresp, ReadTimeout, ReadOn, ReadGarbled, CallbackReturns, ConnectFails,
       ConnectSends, LoopFindsClosed, LoopRuns, PublishSends, PublishFails, Disconnect,
       BrokerGreets, BrokerPublishes, BrokerAnswersPing, BrokerSendsMore, BrokerSendsRest,
       BrokerHangs, PeerCloses
  <2> QED
    BY <1>1, <2>1, NoAlarm DEF LoopTimesOut
<1>2. ClientInv /\ [ClientNext]_mqttVars =>
          [(prompt /\ mpc = "user" /\ state = "connected" /\ state' = "timeout")
          => peer # "serving"]_mqttVars
    BY <1>1
<1> QED
    BY <1>2, ClientInvariant, PTL DEF ClientSpec, NoFalseAlarm
=============================================================================
