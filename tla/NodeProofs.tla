----------------------------- MODULE NodeProofs -----------------------------
(* The node's sketch and the parts it drives, for any number of boots, any    *)
(* network, any packets, forms and chips: that no sleep is the last and no    *)
(* sample is stamped with an earlier boot's time; that ping counts an answer  *)
(* once; that a DNS query is answered once; that the form shows each network  *)
(* once and keeps its parameters; that the sensor measures with the settings  *)
(* it was given.                                                              *)
EXTENDS Node, Ping, Dns, WifiPage, Bme280, WellFoundedInduction, TLAPS

(* The sketch.                                                                *)

Places == {"auto", "autoportal", "callbacks", "portal", "arm", "mqtt", "mqttwait",
           "time", "loop", "gettime", "publish", "sleep", "asleep"}

(* What each stretch of setup() and loop() has armed and filled. *)
BeforeButton == {"auto", "autoportal", "callbacks", "portal", "arm"}
BeforeTimer  == {"mqtt", "mqttwait", "time"}
AfterPublish == {"sleep", "asleep"}

NodeInv ==
    /\ npc \in Places
    /\ armed = IF npc \in BeforeButton THEN {}
               ELSE IF npc \in BeforeTimer THEN {"button"} ELSE {"button", "timer"}
    /\ times \in {"blank", "now"}
    /\ (sample = "none") <=> (npc \notin AfterPublish)

LEMMA NodeInvInit == NodeInit => NodeInv
BY DEF NodeInit, NodeInv, Places, BeforeButton, AfterPublish

LEMMA NodeInvStep == NodeInv /\ [NodeNext]_nodeVars => NodeInv'
<1> SUFFICES ASSUME NodeInv, [NodeNext]_nodeVars PROVE NodeInv'
    OBVIOUS
<1> USE DEF NodeInv, At, Goes, Places, BeforeButton, BeforeTimer, AfterPublish
(* setup(): each source is armed at the place that leads to the next stretch. *)
<1>1. CASE AutoConnects \/ AutoConnectFails \/ AutoPortalEnds \/ SetCallbacks \/ PortalEnds
    BY <1>1 DEF AutoConnects, AutoConnectFails, AutoPortalEnds, SetCallbacks, PortalEnds
<1>2. CASE EnableButton \/ ConfigTime
    BY <1>2 DEF EnableButton, ConfigTime
<1>3. CASE MqttFails \/ MqttWaits \/ MqttConnects
    BY <1>3 DEF MqttFails, MqttWaits, MqttConnects
(* loop(): getTime() fills the buffers of this boot or leaves them alone. *)
<1>4. CASE ClientLoop \/ GetTime \/ DeepSleep
    BY <1>4 DEF ClientLoop, GetTime, DeepSleep
<1>5. CASE MqttPublish
    <2>1. sample' \in {"taken", "refused"}
        BY <1>5 DEF MqttPublish
    <2> QED
        BY <1>5, <2>1 DEF MqttPublish
(* A boot forgets all of it. *)
<1>6. CASE TimerWakes \/ ButtonWakes \/ PortalFails
    BY <1>6 DEF TimerWakes, ButtonWakes, PortalFails, Boots
<1>7. CASE StationChanges \/ UplinkChanges \/ UNCHANGED nodeVars
    BY <1>7 DEF StationChanges, UplinkChanges, nodeVars
<1> QED
    BY <1>1, <1>2, <1>3, <1>4, <1>5, <1>6, <1>7 DEF NodeNext, SketchStep

(* A node that sleeps has both ways to wake and has tried to publish, and     *)
(* what it publishes bears no time of an earlier boot.                        *)
THEOREM EverySleepEnds == NodeSpec => []SleepsInOrder
<1>1. NodeInv => SleepsInOrder
    BY DEF NodeInv, SleepsInOrder, At, BeforeButton, BeforeTimer, AfterPublish
<1> QED
    BY <1>1, NodeInvInit, NodeInvStep, PTL DEF NodeSpec

-----------------------------------------------------------------------------
(* ESP32Ping.                                                                 *)

Responses == [call : Nat, seq : Nat]

(* Each number sent so far was counted at most once; while ping_recv() waits, *)
(* the number it waits for was not.                                           *)
PingInv ==
    /\ pingpc \in {"idle", "next", "recv"}
    /\ {pings, count, seq, heap} \subseteq Nat
    /\ air \subseteq Responses /\ mailbox \in Seq(Responses) /\ counted \in Seq(Responses)
    /\ transmitted = seq /\ seq <= count
    /\ received = Len(counted)
    /\ received <= (IF pingpc = "recv" THEN seq - 1 ELSE seq)
    /\ \A i \in DOMAIN counted : counted[i].seq <= (IF pingpc = "recv" THEN seq - 1 ELSE seq)
    /\ \A i, j \in DOMAIN counted : i < j => counted[i].seq < counted[j].seq

LEMMA ResponseOfSeq ==
    ASSUME NEW s \in Seq(Responses), NEW i \in DOMAIN s
    PROVE  s[i].seq \in Nat
<1>1. s[i] \in Responses
    OBVIOUS
<1> QED
    BY <1>1 DEF Responses

LEMMA PingInvInit == PingInit => PingInv
BY PingAssumption DEF PingInit, PingInv

LEMMA PingInvStep == PingInv /\ [PingNext]_pingVars => PingInv'
<1> SUFFICES ASSUME PingInv, [PingNext]_pingVars PROVE PingInv'
    OBVIOUS
<1> USE DEF PingInv
<1>1. CASE PingStart
    <2>1. PICK n \in PingCounts : count' = IF n = 0 THEN DefaultCount ELSE n
        BY <1>1 DEF PingStart
    <2>2. count' \in Nat
        BY <2>1, PingAssumption
    <2> QED
        BY <1>1, <2>2 DEF PingStart
<1>2. CASE NoSocket
    BY <1>2 DEF NoSocket
<1>3. CASE PingSend
    <2>1. [call |-> pings, seq |-> seq + 1] \in Responses
        BY DEF Responses
    <2>2. PICK q : q = [call |-> pings, seq |-> seq + 1]
        OBVIOUS
    <2>3. /\ pingpc = "next" /\ seq < count /\ heap' = heap - 1 /\ heap > 0 /\ seq' = seq + 1
          /\ transmitted' = transmitted + 1 /\ air' \in {air, air \cup {q}} /\ pingpc' = "recv"
          /\ UNCHANGED <<pings, count, received, mailbox, counted>>
        BY <1>3, <2>2 DEF PingSend
    <2>4. air' \subseteq Responses
        BY <2>1, <2>2, <2>3
    <2>5. seq' - 1 = seq /\ transmitted' = seq' /\ seq' <= count' /\ {seq', heap'} \subseteq Nat
        BY <2>3
    <2> QED
        BY <2>3, <2>4, <2>5
<1>4. CASE AnswerArrives
    <2>1. PICK r \in air : mailbox' \in {Append(mailbox, r), mailbox} /\ air' \subseteq air
        BY <1>4 DEF AnswerArrives
    <2>2. mailbox' \in Seq(Responses)
        <3>1. r \in Responses /\ mailbox \in Seq(Responses)
            BY <2>1
        <3>2. Append(mailbox, r) \in Seq(Responses)
            BY <3>1
        <3> QED
            BY <2>1, <3>1, <3>2
    <2> QED
        BY <1>4, <2>1, <2>2 DEF AnswerArrives
<1>7. CASE ForeignArrives
    <2>1. PICK number \in 0 .. count : mailbox' = Append(mailbox, [call |-> 0, seq |-> number])
        BY <1>7 DEF ForeignArrives
    <2>2. [call |-> 0, seq |-> number] \in Responses
        BY <2>1 DEF Responses
    <2>3. mailbox' \in Seq(Responses)
        BY <2>1, <2>2
    <2> QED
        BY <1>7, <2>3 DEF ForeignArrives
<1>8. CASE Noise
    BY <1>8 DEF Noise
<1>5. CASE PingRecv
    <2>1. Head(mailbox) \in Responses /\ Tail(mailbox) \in Seq(Responses)
        BY <1>5 DEF PingRecv
    <2>2. CASE Head(mailbox).seq = seq
        <3> DEFINE answer == Head(mailbox)
        <3>1. counted' = Append(counted, answer) /\ received' = received + 1 /\ pingpc' = "next"
              /\ pingpc = "recv"
            BY <1>5, <2>2 DEF PingRecv
        <3>2. answer \in Responses /\ answer.seq = seq
            BY <2>1, <2>2
        <3> HIDE DEF answer
        <3>3. /\ counted' \in Seq(Responses) /\ Len(counted') = Len(counted) + 1
              /\ counted'[Len(counted) + 1] = answer
              /\ \A i \in DOMAIN counted : counted'[i] = counted[i]
              /\ DOMAIN counted' = 1 .. Len(counted) + 1 /\ DOMAIN counted = 1 .. Len(counted)
            BY <3>1, <3>2
        <3>4. \A i \in DOMAIN counted' : i \in DOMAIN counted \/ i = Len(counted) + 1
            BY <3>3
        <3>5. \A i \in DOMAIN counted : counted[i].seq \in Nat /\ counted[i].seq <= seq - 1
            BY <3>1, ResponseOfSeq
        <3>6. /\ \A i \in DOMAIN counted' : counted'[i].seq <= seq
              /\ \A i, j \in DOMAIN counted' : i < j => counted'[i].seq < counted'[j].seq
            <4>1. seq \in Nat /\ Len(counted) \in Nat
                OBVIOUS
            <4>2. counted'[Len(counted) + 1].seq = seq
                BY <3>2, <3>3
            <4>3. \A i \in DOMAIN counted : counted'[i].seq \in Nat /\ counted'[i].seq < seq
                BY <3>3, <3>5, <4>1
            <4>4. \A i, j \in DOMAIN counted : i < j => counted'[i].seq < counted'[j].seq
                BY <3>3
            <4>5. \A i \in DOMAIN counted' : counted'[i].seq <= seq
                BY <3>4, <4>1, <4>2, <4>3
            <4>6. ASSUME NEW i \in DOMAIN counted', NEW j \in DOMAIN counted', i < j
                  PROVE  counted'[i].seq < counted'[j].seq
                <5>1. i \in DOMAIN counted
                    BY <3>3, <4>1, <4>6
                <5>2. CASE j \in DOMAIN counted
                    BY <4>4, <4>6, <5>1, <5>2
                <5>3. CASE j = Len(counted) + 1
                    BY <4>2, <4>3, <5>1, <5>3
                <5> QED
                    BY <3>4, <5>2, <5>3
            <4> QED
                BY <4>5, <4>6
        <3> QED
            BY <1>5, <2>1, <3>1, <3>3, <3>6 DEF PingRecv
    <2>3. CASE Head(mailbox).seq # seq
        BY <1>5, <2>1, <2>3 DEF PingRecv
    <2> QED
        BY <2>2, <2>3
<1>6. CASE RecvTimeout \/ PingEnds \/ UNCHANGED pingVars
    <2>1. /\ UNCHANGED <<pings, count, seq, transmitted, received, heap, air, mailbox, counted>>
          /\ pingpc' \in {pingpc, "next", "idle"}
        BY <1>6 DEF RecvTimeout, PingEnds, pingVars
    <2>2. \A i \in DOMAIN counted : counted[i].seq \in Nat
        BY ResponseOfSeq
    <2> QED
        BY <2>1, <2>2
<1> QED
    BY <1>1, <1>2, <1>3, <1>4, <1>5, <1>6, <1>7, <1>8 DEF PingNext, PingStep

(* The answers counted by a call of ping() are to different requests of it,   *)
(* in the order in which they were sent, however many arrive twice or late.   *)
THEOREM AnswersCountedOnce == PingSpec => []CountsAddUp
<1>1. PingInv => CountsAddUp
    BY DEF PingInv, CountsAddUp
<1> QED
    BY <1>1, PingInvInit, PingInvStep, PTL DEF PingSpec

-----------------------------------------------------------------------------
(* DNSServer.                                                                 *)

(* A packet that waits is the one that arrived, and is not answered yet.      *)
DnsInv ==
    /\ asked # NoPacket => asked \in Arriving
    /\ packet # NoPacket => packet = asked /\ replies = <<>>
    /\ AnsweredOnceInForm

(* What a packet that arrives is made of.                                     *)
LEMMA ArrivingFacts ==
    \A p \in Arriving :
        /\ p # NoPacket /\ p.id = 1 /\ p.qr \in {"query", "response"}
        /\ {p.qd, p.an, p.ns, p.ar} \subseteq Nat
        /\ p = [id |-> 1, qr |-> p.qr, op |-> p.op, rcode |-> 0, name |-> p.name,
                qd |-> p.qd, an |-> p.an, ns |-> p.ns, ar |-> p.ar,
                body |-> [qd |-> p.qd, an |-> p.an, ns |-> p.ns, ar |-> p.ar]]
<1> SUFFICES ASSUME NEW p \in Arriving
             PROVE  /\ p # NoPacket /\ p.id = 1 /\ p.qr \in {"query", "response"}
                    /\ {p.qd, p.an, p.ns, p.ar} \subseteq Nat
                    /\ p = [id |-> 1, qr |-> p.qr, op |-> p.op, rcode |-> 0, name |-> p.name,
                            qd |-> p.qd, an |-> p.an, ns |-> p.ns, ar |-> p.ar,
                            body |-> [qd |-> p.qd, an |-> p.an, ns |-> p.ns, ar |-> p.ar]]
    OBVIOUS
<1>1. PICK qr \in {"query", "response"}, op \in OpCodes, name \in DnsNames,
           qd \in Counts, an \in Counts, ns \in Counts, ar \in Counts :
          p = [id |-> 1, qr |-> qr, op |-> op, rcode |-> 0, name |-> name,
               qd |-> qd, an |-> an, ns |-> ns, ar |-> ar,
               body |-> [qd |-> qd, an |-> an, ns |-> ns, ar |-> ar]]
    BY DEF Arriving
<1>2. p.id = 1 /\ NoPacket.id = 0
    BY <1>1 DEF NoPacket
<1>3. p # NoPacket
    BY <1>2
<1>4. p.qr = qr /\ p.op = op /\ p.name = name /\ p.qd = qd /\ p.an = an /\ p.ns = ns /\ p.ar = ar
    BY <1>1
<1>5. {p.qd, p.an, p.ns, p.ar} \subseteq Nat
    BY <1>4, DnsAssumption
<1> QED
    BY <1>1, <1>2, <1>3, <1>4, <1>5

(* What is sent for a packet: what each of the two replies looks like.        *)
LEMMA AnswerFacts ==
    ASSUME NEW p \in Arriving,
           NEW r, r = [p EXCEPT !.qr = "response", !.an = p.qd, !.body.an = 1]
    PROVE  /\ r.id = 1 /\ r.qr = "response" /\ r.body.an = 1
           /\ (p.qd = 1 /\ p.an = 0 /\ p.ns = 0 /\ p.ar = 0) => WellFormedPacket(r)
<1>1. PICK qr, op, name, qd, an, ns, ar :
          p = [id |-> 1, qr |-> qr, op |-> op, rcode |-> 0, name |-> name,
               qd |-> qd, an |-> an, ns |-> ns, ar |-> ar,
               body |-> [qd |-> qd, an |-> an, ns |-> ns, ar |-> ar]]
    BY ArrivingFacts
<1>2. r = [id |-> 1, qr |-> "response", op |-> op, rcode |-> 0, name |-> name,
           qd |-> qd, an |-> qd, ns |-> ns, ar |-> ar,
           body |-> [qd |-> qd, an |-> 1, ns |-> ns, ar |-> ar]]
    BY <1>1
<1>3. p.qd = qd /\ r.qd = qd /\ r.an = qd /\ r.ns = ns /\ r.ar = ar /\ r.id = 1 /\ r.qr = "response"
    BY <1>1, <1>2
<1>4. r.body = [qd |-> qd, an |-> 1, ns |-> ns, ar |-> ar]
  <2>1. PICK b : b = [qd |-> qd, an |-> 1, ns |-> ns, ar |-> ar]
    OBVIOUS
  <2>2. r = [id |-> 1, qr |-> "response", op |-> op, rcode |-> 0, name |-> name,
             qd |-> qd, an |-> qd, ns |-> ns, ar |-> ar, body |-> b]
    BY <1>2, <2>1
  <2>3. r.body = b
    BY ONLY <2>2
  <2> QED
    BY <2>1, <2>3
<1>5. r.body.an = 1
    BY <1>4
<1>6. p.qd = 1 => WellFormedPacket(r)
    BY <1>3, <1>4 DEF WellFormedPacket
<1> QED
    BY <1>3, <1>5, <1>6

LEMMA ReplyCodeFacts ==
    ASSUME NEW p \in Arriving, NEW code,
           NEW r, r = [p EXCEPT !.qr = "response", !.rcode = code, !.qd = 0,
                                !.body = [qd |-> 0, an |-> 0, ns |-> 0, ar |-> 0]]
    PROVE  /\ r.id = 1 /\ r.qr = "response"
           /\ (p.an = 0 /\ p.ns = 0 /\ p.ar = 0) => WellFormedPacket(r)
<1>1. PICK qr, op, name, qd, an, ns, ar :
          p = [id |-> 1, qr |-> qr, op |-> op, rcode |-> 0, name |-> name,
               qd |-> qd, an |-> an, ns |-> ns, ar |-> ar,
               body |-> [qd |-> qd, an |-> an, ns |-> ns, ar |-> ar]]
    BY ArrivingFacts
<1>2. r = [id |-> 1, qr |-> "response", op |-> op, rcode |-> code, name |-> name,
           qd |-> 0, an |-> an, ns |-> ns, ar |-> ar,
           body |-> [qd |-> 0, an |-> 0, ns |-> 0, ar |-> 0]]
    BY <1>1
<1>3. /\ p.an = an /\ p.ns = ns /\ p.ar = ar /\ r.qd = 0 /\ r.an = an /\ r.ns = ns /\ r.ar = ar
      /\ r.id = 1 /\ r.qr = "response"
    BY <1>1, <1>2
<1>4. r.body = [qd |-> 0, an |-> 0, ns |-> 0, ar |-> 0]
    BY <1>2
<1> QED
    BY <1>3, <1>4 DEF WellFormedPacket

LEMMA DnsInvInit == DnsInit => DnsInv
BY DEF DnsInit, DnsInv, AnsweredOnceInForm, NoPacket

LEMMA DnsInvStep == DnsInv /\ [DnsNext]_dnsVars => DnsInv'
<1> SUFFICES ASSUME DnsInv, [DnsNext]_dnsVars PROVE DnsInv'
    OBVIOUS
<1>1. CASE ParsePacket
  <2>1. PICK p \in Arriving : packet' = p /\ asked' = p /\ replies' = <<>>
    BY <1>1 DEF ParsePacket
  <2>2. p # NoPacket
    BY ArrivingFacts
  <2> QED
    BY <2>1, <2>2 DEF DnsInv, AnsweredOnceInForm
(* The packet is answered: one reply, about which the property speaks.        *)
<1>2. CASE ReplyWithIP
  <2>1. /\ packet = asked /\ packet \in Arriving /\ replies = <<>>
        /\ asked.qr = "query" /\ asked.qd = 1 /\ asked.an = 0 /\ asked.ns = 0 /\ asked.ar = 0
    BY <1>2 DEF ReplyWithIP, DnsInv, Redirected, OnlyOneQuestion
  <2>2. PICK r : r = [packet EXCEPT !.qr = "response", !.an = packet.qd, !.body.an = 1]
    OBVIOUS
  <2>3. replies' = <<r>> /\ packet' = NoPacket /\ UNCHANGED <<domain, asked>>
    <3>1. Replies(r)
      BY <1>2, <2>2 DEF ReplyWithIP
    <3>2. replies' = Append(<<>>, r) /\ packet' = NoPacket /\ UNCHANGED <<domain, asked>>
      BY <2>1, <3>1 DEF Replies
    <3> QED
      BY <3>2
  <2>4. r.id = asked.id /\ r.qr = "response" /\ r.body.an = 1 /\ WellFormedPacket(r)
    BY <2>1, <2>2, AnswerFacts, ArrivingFacts
  <2>5. AnsweredOnceInForm'
    <3>1. Len(replies') = 1 /\ DOMAIN replies' = {1} /\ replies'[1] = r
      BY <2>3
    <3> QED
      BY <2>1, <2>3, <2>4, <3>1 DEF AnsweredOnceInForm, WellFormedPacket
  <2> QED
    BY <2>1, <2>3, <2>5 DEF DnsInv
<1>3. CASE ReplyWithCustomCode
  <2>1. /\ packet = asked /\ packet \in Arriving /\ replies = <<>> /\ asked.qr = "query"
        /\ ~Redirected
    BY <1>3 DEF ReplyWithCustomCode, DnsInv
  <2>2. PICK r : r = [packet EXCEPT !.qr = "response", !.rcode = errorCode, !.qd = 0,
                                    !.body = [qd |-> 0, an |-> 0, ns |-> 0, ar |-> 0]]
    OBVIOUS
  <2>3. replies' = <<r>> /\ packet' = NoPacket /\ UNCHANGED <<domain, asked>>
    <3>1. Replies(r)
      BY <1>3, <2>2 DEF ReplyWithCustomCode
    <3>2. replies' = Append(<<>>, r) /\ packet' = NoPacket /\ UNCHANGED <<domain, asked>>
      BY <2>1, <3>1 DEF Replies
    <3> QED
      BY <3>2
  <2>4. /\ r.id = asked.id /\ r.qr = "response"
        /\ (asked.an = 0 /\ asked.ns = 0 /\ asked.ar = 0) => WellFormedPacket(r)
    <3>1. /\ r.id = 1 /\ r.qr = "response"
          /\ (packet.an = 0 /\ packet.ns = 0 /\ packet.ar = 0) => WellFormedPacket(r)
      BY <2>1, <2>2, ReplyCodeFacts
    <3>2. packet.id = 1
      BY <2>1, ArrivingFacts
    <3> QED
      BY <2>1, <3>1, <3>2
  <2>5. ~(domain \in {Star, asked.name} /\ asked.op = 0 /\ asked.qd = 1 /\ asked.an + asked.ns + asked.ar = 0)
    <3>1. {asked.an, asked.ns, asked.ar} \subseteq Nat
      BY <2>1, ArrivingFacts
    <3>2. asked.an + asked.ns + asked.ar = 0 => asked.an = 0 /\ asked.ns = 0 /\ asked.ar = 0
      BY <3>1
    <3> QED
      BY <2>1, <3>2 DEF Redirected, OnlyOneQuestion, SameHost
  <2>6. AnsweredOnceInForm'
    <3>1. Len(replies') = 1 /\ DOMAIN replies' = {1} /\ replies'[1] = r
      BY <2>3
    <3> QED
      BY <2>1, <2>3, <2>4, <2>5, <3>1 DEF AnsweredOnceInForm, WellFormedPacket
  <2> QED
    BY <2>1, <2>3, <2>6 DEF DnsInv
<1>4. CASE Ignore
  <2>1. replies = <<>> /\ asked.qr # "query" /\ UNCHANGED <<domain, asked, replies>>
        /\ packet' = NoPacket
    BY <1>4 DEF Ignore, DnsInv
  <2>2. AnsweredOnceInForm'
    BY <2>1 DEF AnsweredOnceInForm
  <2> QED
    BY <2>1, <2>2 DEF DnsInv
<1>5. CASE UNCHANGED dnsVars
    BY <1>5 DEF dnsVars, DnsInv, AnsweredOnceInForm, WellFormedPacket
<1>6. CASE NoBuffer
    BY <1>6 DEF NoBuffer, DnsInv, AnsweredOnceInForm
<1> QED
    BY <1>1, <1>2, <1>3, <1>4, <1>5, <1>6 DEF DnsNext

(* Every query that is read is answered once, by its own and a well formed    *)
(* answer, and no answer is answered (60-71, 117-171).                        *)
THEOREM QueriesAnsweredOnce == DnsSpec => []AnsweredOnceInForm
<1>1. DnsInv => AnsweredOnceInForm
    BY DEF DnsInv
<1> QED
    BY <1>1, DnsInvInit, DnsInvStep, PTL DEF DnsSpec

-----------------------------------------------------------------------------
(* The form's list of networks.                                               *)

(* What handleWifi() takes for granted of a scan. *)
ScanIs(s) == Len(s) \in Nat /\ DOMAIN s = 1 .. Len(s) /\ \A i \in DOMAIN s : s[i].rssi \in Int

(* A set of naturals that is not empty has a least element. *)
LEMMA LeastOne ==
    ASSUME NEW T \in SUBSET Nat, T # {}
    PROVE  \E x \in T : \A y \in T : x <= y
<1> DEFINE R == OpToRel(<, Nat)
<1>1. IsWellFoundedOn(R, Nat)
    BY NatLessThanWellFounded
<1>2. PICK x \in T : \A y \in T : ~ (<<y, x>> \in R)
  <2> HIDE DEF R
  <2> QED
    BY <1>1, WFMin
<1>3. ASSUME NEW y \in T, y < x PROVE <<y, x>> \in R
    BY <1>3 DEF OpToRel
<1>4. ASSUME NEW y \in T PROVE x <= y
  <2>1. x \in Nat /\ y \in Nat /\ ~(y < x)
    BY <1>2, <1>3
  <2> QED
    BY <2>1
<1> QED
    BY <1>4

(* A bound of a set that is in it is what Max chooses. *)
LEMMA MaxIs ==
    ASSUME NEW S \in SUBSET Int, NEW x \in S, \A y \in S : y <= x
    PROVE  Max(S) = x
<1>1. \A y \in S : x >= y
    OBVIOUS
<1>2. Max(S) \in S /\ \A y \in S : Max(S) >= y
    BY <1>1 DEF Max
<1>3. Max(S) \in Int /\ x \in Int /\ Max(S) >= x /\ Max(S) <= x
    BY <1>2
<1> QED
    BY <1>3

(* The permutation's places, by what Bijection says. *)
LEMMA StrongestFirstIs ==
    ASSUME ScanIs(scan), NEW p \in StrongestFirst
    PROVE  /\ p \in [1 .. Len(scan) -> 1 .. Len(scan)]
           /\ \A i, j \in 1 .. Len(scan) : p[i] = p[j] => i = j
           /\ \A k \in 1 .. Len(scan) : \E j \in 1 .. Len(scan) : p[j] = k
           /\ \A i, j \in 1 .. Len(scan) : i < j => scan[p[i]].rssi >= scan[p[j]].rssi
BY DEF ScanIs, StrongestFirst, Bijection, Injection, Surjection, IsInjective

(* Where a name comes first, it comes with its best signal. *)
FirstOf(p, j) == \A i \in 1 .. j - 1 : scan[p[i]].ssid # scan[p[j]].ssid

LEMMA FirstIsBest ==
    ASSUME ScanIs(scan), NEW p \in StrongestFirst, NEW j \in 1 .. Len(scan), FirstOf(p, j)
    PROVE  Best(scan[p[j]].ssid) = scan[p[j]].rssi
<1> DEFINE name == scan[p[j]].ssid
           places == {k \in DOMAIN scan : scan[k].ssid = name}
           signals == {scan[i].rssi : i \in places}
<1>1. p[j] \in places
    BY StrongestFirstIs DEF ScanIs
<1>2. signals \in SUBSET Int /\ scan[p[j]].rssi \in signals
    BY <1>1 DEF ScanIs
<1>3. ASSUME NEW y \in signals PROVE y <= scan[p[j]].rssi
  <2>1. PICK k \in places : y = scan[k].rssi
    OBVIOUS
  <2>2. PICK i \in 1 .. Len(scan) : p[i] = k
    BY StrongestFirstIs DEF ScanIs
  <2>3. ~(i < j)
    BY <2>1, <2>2 DEF FirstOf
  <2>4. i = j \/ (j < i /\ scan[p[j]].rssi >= scan[p[i]].rssi)
    <3>1. i = j \/ j < i
      BY <2>3
    <3>2. \A a, b \in 1 .. Len(scan) : a < b => scan[p[a]].rssi >= scan[p[b]].rssi
      BY StrongestFirstIs
    <3> QED
      BY <3>1, <3>2
  <2>5. y \in Int /\ scan[p[j]].rssi \in Int
    BY <1>2
  <2> QED
    BY <2>1, <2>2, <2>4, <2>5
<1>4. Max(signals) = scan[p[j]].rssi
  <2> HIDE DEF signals
  <2> QED
    BY <1>2, <1>3, MaxIs
<1> QED
    BY <1>4 DEF Best

(* Every name of the scan comes first somewhere. *)
LEMMA ComesFirst ==
    ASSUME ScanIs(scan), NEW p \in StrongestFirst, NEW ssid \in Names(scan)
    PROVE  \E j \in 1 .. Len(scan) : scan[p[j]].ssid = ssid /\ FirstOf(p, j)
<1> DEFINE places == {j \in 1 .. Len(scan) : scan[p[j]].ssid = ssid}
<1>1. PICK k \in 1 .. Len(scan) : scan[k].ssid = ssid
    BY DEF Names, ScanIs
<1>2. PICK i \in 1 .. Len(scan) : p[i] = k
    BY StrongestFirstIs
<1>3. places \in SUBSET Nat /\ places # {}
    BY <1>1, <1>2 DEF ScanIs
<1>4. PICK j \in places : \A y \in places : j <= y
  <2> HIDE DEF places
  <2> QED
    BY <1>3, LeastOne
<1>5. ASSUME NEW h \in 1 .. j - 1 PROVE scan[p[h]].ssid # ssid
    BY <1>4 DEF ScanIs
<1> QED
    BY <1>4, <1>5 DEF FirstOf

(* What handleWifi() has at each of its steps. *)
ScanInv ==
    /\ ScanIs(scan)
    /\ wpc = "dedup" => indices \in StrongestFirst
    /\ wpc = "show" => \E p \in StrongestFirst : indices = WithoutDuplicates(p)
    /\ StrongestShownOnce

(* The places kept are those where a name comes first and is good enough. *)
LEMMA KeptIs ==
    ASSUME ScanIs(scan), NEW p \in StrongestFirst, indices = WithoutDuplicates(p)
    PROVE  /\ Kept = {j \in 1 .. Len(scan) : FirstOf(p, j) /\ GoodEnough(scan[p[j]].rssi)}
           /\ \A j \in Kept : indices[j] = p[j]
<1>1. DOMAIN p = 1 .. Len(scan) /\ DOMAIN indices = 1 .. Len(scan)
    BY StrongestFirstIs DEF WithoutDuplicates
<1>2. \A j \in 1 .. Len(scan) : indices[j] = IF FirstOf(p, j) THEN p[j] ELSE 0
    BY <1>1 DEF WithoutDuplicates, FirstOf
<1>3. \A j \in 1 .. Len(scan) : p[j] # 0
  <2>1. p \in [1 .. Len(scan) -> 1 .. Len(scan)] /\ Len(scan) \in Nat
    BY StrongestFirstIs DEF ScanIs
  <2> QED
    BY <2>1
<1> QED
    BY <1>1, <1>2, <1>3 DEF Kept

(* What is shown of the places kept is each name once with its best signal. *)
LEMMA ShowStep ==
    ASSUME ScanInv, ShowNetworks
    PROVE  StrongestShownOnce'
<1>1. ScanIs(scan) /\ scan' = scan /\ minQuality' = minQuality
    BY DEF ScanInv, ShowNetworks
<1>2. PICK p \in StrongestFirst : indices = WithoutDuplicates(p)
    BY DEF ScanInv, ShowNetworks
<1>0. PICK n \in 0 .. Len(scan) : \E at \in Bijection(1 .. n, Kept) :
         /\ \A k, l \in 1 .. n : k < l => at[k] < at[l]
         /\ shown' = [k \in 1 .. n |-> scan[indices[at[k]]]]
    BY DEF ShowNetworks
<1>3. PICK at \in Bijection(1 .. n, Kept) :
         /\ \A k, l \in 1 .. n : k < l => at[k] < at[l]
         /\ shown' = [k \in 1 .. n |-> scan[indices[at[k]]]]
    BY <1>0
<1>4. /\ at \in [1 .. n -> Kept] /\ \A j \in Kept : \E k \in 1 .. n : at[k] = j
    BY <1>3 DEF Bijection, Surjection, Injection
<1>5. DOMAIN shown' = 1 .. n /\ \A k \in 1 .. n : shown'[k] = scan[p[at[k]]]
    BY <1>1, <1>2, <1>3, <1>4, KeptIs
<1>6. \A k \in 1 .. n : at[k] \in 1 .. Len(scan) /\ FirstOf(p, at[k]) /\ GoodEnough(scan[p[at[k]]].rssi)
    BY <1>1, <1>2, <1>4, KeptIs
<1>7. \A ssid : Best(ssid)' = Best(ssid)
    BY <1>1 DEF Best
<1>8. \A r : GoodEnough(r)' = GoodEnough(r)
    BY <1>1 DEF GoodEnough
<1>9. ASSUME NEW k \in 1 .. n PROVE shown'[k].rssi = Best(shown'[k].ssid)
    BY <1>1, <1>2, <1>5, <1>6, FirstIsBest
<1>10. \A k, l \in 1 .. n : k < l => shown'[k].rssi >= shown'[l].rssi
    BY <1>1, <1>2, <1>3, <1>5, <1>6, StrongestFirstIs
<1>11. ASSUME NEW k \in 1 .. n, NEW l \in 1 .. n, shown'[k].ssid = shown'[l].ssid PROVE k = l
  <2>1. ASSUME NEW i \in 1 .. n, NEW h \in 1 .. n, i < h PROVE shown'[i].ssid # shown'[h].ssid
    <3>1. at[i] \in 1 .. at[h] - 1
      BY <1>1, <1>3, <1>6, <2>1 DEF ScanIs
    <3> QED
      BY <1>5, <1>6, <3>1 DEF FirstOf
  <2> QED
    BY <1>3, <1>11, <2>1
<1>12. ASSUME NEW k \in 1 .. n PROVE shown'[k].ssid \in Names(scan) /\ GoodEnough(Best(shown'[k].ssid))
  <2>1. p[at[k]] \in DOMAIN scan
    <3>1. p \in [1 .. Len(scan) -> 1 .. Len(scan)]
      BY <1>1, <1>2, StrongestFirstIs
    <3> QED
      BY <1>1, <1>6, <3>1 DEF ScanIs
  <2> QED
    BY <1>5, <1>6, <1>9, <2>1 DEF Names
<1>13. ASSUME NEW ssid \in Names(scan), GoodEnough(Best(ssid)) PROVE \E k \in 1 .. n : shown'[k].ssid = ssid
  <2>1. PICK j \in 1 .. Len(scan) : scan[p[j]].ssid = ssid /\ FirstOf(p, j)
    BY <1>1, <1>2, ComesFirst
  <2>2. GoodEnough(scan[p[j]].rssi)
    BY <1>1, <1>2, <1>13, <2>1, FirstIsBest
  <2>3. j \in Kept
    BY <1>1, <1>2, <2>1, <2>2, KeptIs
  <2> QED
    BY <1>4, <1>5, <2>1, <2>3
<1>14. Names(shown)' = {ssid \in Names(scan) : GoodEnough(Best(ssid))}
  <2>1. Names(shown)' = {shown'[k].ssid : k \in 1 .. n}
    BY <1>5 DEF Names
  <2> QED
    BY <1>12, <1>13, <2>1
<1>15. {ssid \in Names(scan) : GoodEnough(Best(ssid))}' = {ssid \in Names(scan) : GoodEnough(Best(ssid))}
    BY <1>1, <1>7, <1>8 DEF Names
<1> QED
    BY <1>5, <1>7, <1>9, <1>10, <1>11, <1>14, <1>15 DEF StrongestShownOnce

LEMMA ScanInit == PageInit => ScanInv
BY DEF PageInit, ScanInv, ScanIs, StrongestShownOnce

LEMMA ScanStep == ScanInv /\ [PageNext]_pageVars => ScanInv'
<1> SUFFICES ASSUME ScanInv, [PageNext]_pageVars PROVE ScanInv'
    OBVIOUS
<1> USE DEF ScanInv
<1>1. CASE AddParameter
    BY <1>1 DEF AddParameter, StrongestShownOnce
<1>2. CASE ScanNetworks
    BY <1>2, PageAssumption DEF ScanNetworks, ScanIs, StrongestShownOnce
<1>3. CASE RssiSort
    BY <1>3 DEF RssiSort, StrongestFirst, StrongestShownOnce
<1>4. CASE RemoveDuplicates
    BY <1>4 DEF RemoveDuplicates, StrongestFirst, WithoutDuplicates, StrongestShownOnce
<1>5. CASE ShowNetworks
    BY <1>5, ShowStep DEF ShowNetworks
<1>6. CASE WifiSaveParams
    BY <1>6 DEF WifiSaveParams, ScanIs, StrongestShownOnce
<1>7. CASE UNCHANGED pageVars
  <2>1. /\ scan' = scan /\ indices' = indices /\ shown' = shown /\ minQuality' = minQuality
        /\ wpc' = wpc
    BY <1>7 DEF pageVars
  <2>2. StrongestFirst' = StrongestFirst
    BY <2>1 DEF StrongestFirst
  <2>3. \A p : WithoutDuplicates(p)' = WithoutDuplicates(p)
    BY <2>1 DEF WithoutDuplicates
  <2>4. StrongestShownOnce' = StrongestShownOnce
    BY <2>1 DEF StrongestShownOnce, Names, Best, GoodEnough
  <2> QED
    BY <2>1, <2>2, <2>3, <2>4
<1> QED
    BY <1>1, <1>2, <1>3, <1>4, <1>5, <1>6, <1>7 DEF PageNext

(* Whatever the scan found, the page shows each network once, with its best   *)
(* signal, strongest first, and none below the least quality (handleWifi      *)
(* 444-510).                                                                  *)
THEOREM StrongestOfEach == PageSpec => []StrongestShownOnce
<1>1. ScanInv => StrongestShownOnce
    BY DEF ScanInv
<1> QED
    BY <1>1, ScanInit, ScanStep, PTL DEF PageSpec

-----------------------------------------------------------------------------
(* The BME280 driver.                                                         *)

Running   == {"ready", "forced", "p", "h"}
Written   == {"sleep", "hum", "config", "meas"} \cup Running

BmeType ==
    /\ bmepc \in {"new", "id", "failed", "copying"} \cup Written
    /\ regs \in [meas : Nat, hum : Nat, config : Nat]
    /\ chip \in [meas : Nat, hum : Nat, humSet : Nat, config : Nat, copying : BOOLEAN,
       measuring : BOOLEAN]
    /\ done \in Nat /\ forced \in Nat /\ tfine \in Nat
    /\ values \in [t : Nat, p : Nat, h : Nat]
    /\ reading \in [value : Nat, tfine : Nat]

(* A chip that is talked to is one, and a measurement runs in forced mode.    *)
Found ==
    /\ bmepc \in Written \cup {"copying"} => bus[i2caddr] = ChipId
    /\ bmepc \in Written => coeffs
    /\ chip.measuring <=> ModeOf(chip.meas) = Forced

(* The writes of setSampling() up to the one that is next.                    *)
Programmed ==
    /\ bmepc \in {"hum", "config", "meas"} => chip.meas = 0
    /\ bmepc \in {"config", "meas"} \cup Running => chip.hum = regs.hum
    /\ bmepc \in {"meas"} \cup Running => chip.config = regs.config
    /\ bmepc \in Running =>
         /\ chip.humSet = regs.hum
         /\ \/ chip.meas = regs.meas
            \/ ModeOf(regs.meas) = Forced /\ chip.meas = regs.meas - 1

(* A forced measurement is under way, or the data registers hold it.          *)
Held ==
    /\ chip.meas = regs.meas - 1
    /\ done = forced
    /\ values.t = (IF TempOf(regs.meas) = 0 THEN Skipped ELSE forced)
    /\ values.p \in {Skipped, forced} /\ values.h \in {Skipped, forced}

ForcedInv ==
    bmepc \in Running /\ forced # 0 =>
        /\ ModeOf(regs.meas) = Forced
        /\ bmepc = "forced" /\ chip.meas = regs.meas => forced = done + 1
        /\ bmepc = "forced" => reading = NoReading
        /\ ~(bmepc = "forced" /\ chip.meas = regs.meas) => Held
        /\ bmepc \in {"p", "h"} /\ TempOf(regs.meas) # 0 => tfine = forced
        /\ reading # NoReading =>
             /\ reading.value = forced
             /\ TempOf(regs.meas) # 0 => reading.tfine = forced

BmeInv == BmeType /\ Found /\ Programmed /\ ForcedInv

(* ctrl_meas: a forced measurement that ends clears the mode and keeps the    *)
(* rates.                                                                     *)
LEMMA MeasArith ==
    /\ \A t, p \in 0 .. 5, m \in {Sleep, Forced, Normal} : Meas(t, p, m) \in Nat
    /\ ModeOf(0) = Sleep /\ Meas(0, 0, Sleep) = 0
    /\ \A r \in Nat : ModeOf(r) = Forced =>
         /\ r - 1 \in Nat /\ ModeOf(r - 1) = Sleep
         /\ TempOf(r - 1) = TempOf(r) /\ PressOf(r - 1) = PressOf(r)
<1>1. /\ \A t, p \in 0 .. 5, m \in {Sleep, Forced, Normal} : Meas(t, p, m) \in Nat
      /\ ModeOf(0) = Sleep /\ Meas(0, 0, Sleep) = 0
    BY DEF Meas, ModeOf, Sleep, Forced, Normal
<1>2. ASSUME NEW r \in Nat, r % 4 = 1
      PROVE  /\ r - 1 \in Nat /\ (r - 1) % 4 = 0
             /\ (r - 1) \div 32 = r \div 32 /\ (r - 1) \div 4 = r \div 4
    BY <1>2
<1> QED
    BY <1>1, <1>2 DEF ModeOf, TempOf, PressOf, Sleep, Forced

(* What a write of ctrl_meas makes of the chip.                               *)
LEMMA WithMeasFacts ==
    ASSUME BmeType, NEW r \in Nat
    PROVE  /\ WithMeas(r) \in [meas : Nat, hum : Nat, humSet : Nat, config : Nat,
                               copying : BOOLEAN, measuring : BOOLEAN]
           /\ WithMeas(r).meas = r /\ WithMeas(r).hum = chip.hum /\ WithMeas(r).humSet = chip.hum
           /\ WithMeas(r).config = chip.config
           /\ WithMeas(r).measuring <=> ModeOf(r) = Forced
<1>1. PICK b \in BOOLEAN : b = (ModeOf(r) = Forced)
    OBVIOUS
<1>2. WithMeas(r) = [chip EXCEPT !.meas = r, !.humSet = chip.hum, !.measuring = b]
    BY <1>1 DEF WithMeas
<1>3. chip \in [meas : Nat, hum : Nat, humSet : Nat, config : Nat, copying : BOOLEAN,
      measuring : BOOLEAN]
    BY DEF BmeType
<1>4. /\ WithMeas(r) \in [meas : Nat, hum : Nat, humSet : Nat, config : Nat,
                          copying : BOOLEAN, measuring : BOOLEAN]
      /\ WithMeas(r).meas = r /\ WithMeas(r).hum = chip.hum /\ WithMeas(r).humSet = chip.hum
      /\ WithMeas(r).config = chip.config /\ WithMeas(r).measuring = b
    BY <1>2, <1>3
<1> QED
    BY <1>1, <1>4

LEMMA BmeInvInit == BmeInit => BmeInv
<1> SUFFICES ASSUME BmeInit PROVE BmeInv
    OBVIOUS
<1>1. /\ chip \in [meas : Nat, hum : Nat, humSet : Nat, config : Nat, copying : BOOLEAN,
         measuring : BOOLEAN]
      /\ chip.meas = 0 /\ chip.measuring = FALSE
    BY DEF BmeInit, Reset
<1>2. BmeType
    BY <1>1 DEF BmeInit, BmeType, NoValues, NoReading, Skipped
<1>3. Found
    BY <1>1, MeasArith DEF BmeInit, Found, Written, Running, Sleep, Forced
<1>4. Programmed /\ ForcedInv
    BY DEF BmeInit, Programmed, ForcedInv, Running
<1> QED
    BY <1>2, <1>3, <1>4 DEF BmeInv

(* Calls that leave the chip and what it measured alone.                      *)
LEMMA BmeStep == BmeInv /\ [BmeNext]_bmeVars => BmeInv'
<1> SUFFICES ASSUME BmeInv, [BmeNext]_bmeVars PROVE BmeInv'
    OBVIOUS
<1> USE DEF BmeInv
<1>1. CASE Begin \/ NotThere
  <2>1. bmepc' \in {"id", "failed"}
        /\ UNCHANGED <<regs, chip, coeffs, bus, done, values, tfine, forced, reading>>
    BY <1>1 DEF Begin, NotThere, KeepsData, BmeAt
  <2>2. BmeType'
    BY <2>1 DEF BmeType
  <2>3. Found' /\ Programmed' /\ ForcedInv'
    BY <2>1 DEF Found, Programmed, ForcedInv, Written, Running
  <2> QED
    BY <2>2, <2>3
<1>2. CASE SoftReset
  <2>1. /\ bus[i2caddr] = ChipId /\ bmepc' = "copying"
           /\ UNCHANGED <<i2caddr, bus, regs, done, tfine>>
        /\ forced' = 0 /\ values' = NoValues /\ reading' = NoReading
    BY <1>2 DEF SoftReset
  <2>2. /\ chip' \in [meas : Nat, hum : Nat, humSet : Nat, config : Nat, copying : BOOLEAN,
           measuring : BOOLEAN]
        /\ chip'.meas = 0 /\ chip'.measuring = FALSE
    BY <1>2 DEF SoftReset, Reset
  <2>3. BmeType'
    BY <2>1, <2>2 DEF BmeType, NoValues, NoReading, Skipped
  <2>4. Found'
    BY <2>1, <2>2, MeasArith DEF Found, Written, Running, Sleep, Forced
  <2>5. Programmed' /\ ForcedInv'
    BY <2>1 DEF Programmed, ForcedInv, Running
  <2> QED
    BY <2>3, <2>4, <2>5
<1>3. CASE ReadCoefficients
  <2>1. /\ bmepc = "copying" /\ bmepc' = "sleep" /\ coeffs' /\ regs' = Defaults
        /\ UNCHANGED <<i2caddr, chip, bus, done, values, tfine, forced, reading>>
    BY <1>3 DEF ReadCoefficients, KeepsData, BmeAt
  <2>2. Defaults \in [meas : Nat, hum : Nat, config : Nat]
    BY DEF Defaults, Meas, Config, Normal
  <2>3. BmeType'
    BY <2>1, <2>2 DEF BmeType, Written
  <2>4. Found' /\ Programmed' /\ ForcedInv'
    BY <2>1 DEF Found, Programmed, ForcedInv, Written, Running
  <2> QED
    BY <2>3, <2>4
<1>4. CASE SetSampling
  <2>1. PICK m \in {Sleep, Forced, Normal}, t \in Samplings, p \in Samplings, h \in Samplings,
             f \in Filters, sb \in Durations :
            regs' = [meas |-> Meas(t, p, m), hum |-> h, config |-> Config(sb, f)]
    BY <1>4 DEF SetSampling
  <2>2. /\ bmepc = "ready" /\ bmepc' = "sleep"
        /\ UNCHANGED <<i2caddr, chip, coeffs, bus, done, values, tfine, forced, reading>>
    BY <1>4 DEF SetSampling, KeepsData, BmeAt
  <2>3. Meas(t, p, m) \in Nat /\ h \in Nat /\ Config(sb, f) \in Nat
    BY MeasArith, BmeAssumption DEF Config
  <2>4. BmeType'
    BY <2>1, <2>2, <2>3 DEF BmeType, Written
  <2>5. Found' /\ Programmed' /\ ForcedInv'
    BY <2>2 DEF Found, Programmed, ForcedInv, Written, Running
  <2> QED
    BY <2>4, <2>5
(* setSampling()'s four writes. *)
<1>5. CASE WriteSleep
  <2>1. /\ bmepc = "sleep" /\ bmepc' = "hum" /\ chip' = WithMeas(0)
        /\ UNCHANGED <<i2caddr, regs, coeffs, bus, done, values, tfine, forced, reading>>
    BY <1>5, MeasArith DEF WriteSleep, KeepsData, BmeAt
  <2>2. BmeType'
    BY <2>1, WithMeasFacts DEF BmeType, Written
  <2>3. Found'
    BY <2>1, WithMeasFacts DEF Found, Written, Running
  <2>4. Programmed' /\ ForcedInv'
    BY <2>1, WithMeasFacts DEF Programmed, ForcedInv, Running
  <2> QED
    BY <2>2, <2>3, <2>4
<1>6. CASE WriteHum
  <2>1. /\ bmepc = "hum" /\ bmepc' = "config"
        /\ UNCHANGED <<i2caddr, regs, coeffs, bus, done, values, tfine, forced, reading>>
    BY <1>6 DEF WriteHum, KeepsData, BmeAt
  <2>2. /\ chip' \in [meas : Nat, hum : Nat, humSet : Nat, config : Nat, copying : BOOLEAN,
           measuring : BOOLEAN]
        /\ chip'.meas = chip.meas /\ chip'.measuring = chip.measuring /\ chip'.hum = regs.hum
    BY <1>6 DEF WriteHum, BmeType
  <2>3. BmeType'
    BY <2>1, <2>2 DEF BmeType, Written
  <2>4. Found'
    BY <2>1, <2>2 DEF Found, Written, Running
  <2>5. Programmed' /\ ForcedInv'
    BY <2>1, <2>2 DEF Programmed, ForcedInv, Running
  <2> QED
    BY <2>3, <2>4, <2>5
<1>7. CASE WriteConfig
  <2>1. /\ bmepc = "config" /\ bmepc' = "meas"
        /\ UNCHANGED <<i2caddr, regs, coeffs, bus, done, values, tfine, forced, reading>>
    BY <1>7 DEF WriteConfig, KeepsData, BmeAt
  <2>2. ModeOf(chip.meas) # Normal
    BY <2>1, MeasArith DEF Programmed, Sleep, Normal
  <2>3. chip' = [chip EXCEPT !.config = regs.config]
    BY <1>7, <2>2 DEF WriteConfig
  <2>4. /\ chip' \in [meas : Nat, hum : Nat, humSet : Nat, config : Nat, copying : BOOLEAN,
           measuring : BOOLEAN]
        /\ chip'.meas = chip.meas /\ chip'.measuring = chip.measuring /\ chip'.hum = chip.hum
        /\ chip'.config = regs.config
    BY <2>3 DEF BmeType
  <2>5. BmeType'
    BY <2>1, <2>4 DEF BmeType, Written
  <2>6. Found'
    BY <2>1, <2>4 DEF Found, Written, Running
  <2>7. Programmed' /\ ForcedInv'
    BY <2>1, <2>4 DEF Programmed, ForcedInv, Running
  <2> QED
    BY <2>5, <2>6, <2>7
<1>8. CASE WriteMeas
  <2>1. /\ bmepc = "meas" /\ bmepc' = "ready" /\ chip' = WithMeas(regs.meas)
        /\ UNCHANGED <<i2caddr, regs, coeffs, bus, done, values, tfine>>
        /\ forced' = 0 /\ reading' = NoReading
    BY <1>8 DEF WriteMeas, BmeAt
  <2>2. regs.meas \in Nat
    BY DEF BmeType
  <2>3. BmeType'
    BY <2>1, <2>2, WithMeasFacts DEF BmeType, Written, Running, NoReading
  <2>4. Found'
    BY <2>1, <2>2, WithMeasFacts DEF Found, Written, Running
  <2>5. Programmed'
    BY <2>1, <2>2, WithMeasFacts DEF Programmed, Running
  <2>6. ForcedInv'
    BY <2>1 DEF ForcedInv
  <2> QED
    BY <2>3, <2>4, <2>5, <2>6
(* Measurements. *)
<1>9. CASE TakeForcedMeasurement
  <2>1. /\ bmepc = "ready" /\ bmepc' = "forced" /\ chip' = WithMeas(regs.meas)
        /\ ModeOf(regs.meas) = Forced
        /\ UNCHANGED <<i2caddr, regs, coeffs, bus, done, values, tfine>>
        /\ forced' = done + 1 /\ reading' = NoReading
    BY <1>9 DEF TakeForcedMeasurement, BmeAt
  <2>2. regs.meas \in Nat
    BY DEF BmeType
  <2>3. BmeType'
    BY <2>1, <2>2, WithMeasFacts DEF BmeType, Written, Running, NoReading
  <2>4. Found'
    BY <2>1, <2>2, WithMeasFacts DEF Found, Written, Running
  <2>5. Programmed'
    BY <2>1, <2>2, WithMeasFacts DEF Programmed, Running
  <2>6. ForcedInv'
    BY <2>1, <2>2, WithMeasFacts DEF ForcedInv
  <2> QED
    BY <2>3, <2>4, <2>5, <2>6
<1>10. CASE ForcedDone
  <2>1. /\ bmepc = "forced" /\ bmepc' = "ready" /\ ~chip.measuring
        /\ UNCHANGED <<i2caddr, regs, chip, coeffs, bus, done, values, tfine, forced, reading>>
    BY <1>10 DEF ForcedDone, KeepsData, BmeAt
  <2>2. BmeType'
    BY <2>1 DEF BmeType, Written, Running
  <2>3. Found' /\ Programmed'
    BY <2>1 DEF Found, Programmed, Written, Running
  <2>4. forced # 0 => chip.meas # regs.meas
    BY <2>1 DEF Found, ForcedInv, Running
  <2>5. ForcedInv'
    BY <2>1, <2>4 DEF ForcedInv, Held, Running
  <2> QED
    BY <2>2, <2>3, <2>5
<1>11. CASE ReadTemperature \/ CompensatesWith
  <2>1. /\ bmepc = "ready" /\ bmepc' \in {"ready", "p", "h"}
        /\ tfine' = IF values.t = Skipped THEN tfine ELSE values.t
        /\ UNCHANGED <<i2caddr, regs, chip, coeffs, bus, done, values, forced, reading>>
    BY <1>11 DEF ReadTemperature, CompensatesWith, TempRead, BmeAt
  <2>2. BmeType'
    BY <2>1 DEF BmeType, Written, Running
  <2>3. Found' /\ Programmed'
    BY <2>1 DEF Found, Programmed, Written, Running
  <2>4. ForcedInv'
    BY <2>1 DEF ForcedInv, Held, Running, Skipped
  <2> QED
    BY <2>2, <2>3, <2>4
<1>12. CASE ReadValue
  <2>1. PICK k \in {"p", "h"} :
            /\ bmepc = k
            /\ reading' = IF values[k] = Skipped \/ forced = 0 THEN NoReading
                          ELSE [value |-> values[k], tfine |-> tfine]
    BY <1>12 DEF ReadValue, BmeAt
  <2>2. bmepc' = "ready"
        /\ UNCHANGED <<i2caddr, regs, chip, coeffs, bus, done, values, tfine, forced>>
    BY <1>12 DEF ReadValue
  <2>3. values[k] \in Nat
    BY DEF BmeType
  <2>4. BmeType'
    BY <2>1, <2>2, <2>3 DEF BmeType, Written, Running, NoReading
  <2>5. Found' /\ Programmed'
    BY <2>1, <2>2 DEF Found, Programmed, Written, Running
  <2>6. ForcedInv'
    <3> SUFFICES ASSUME forced # 0 PROVE ForcedInv'
      BY <2>2 DEF ForcedInv
    <3>1. /\ ModeOf(regs.meas) = Forced /\ Held
          /\ TempOf(regs.meas) # 0 => tfine = forced
      BY <2>1 DEF ForcedInv, Running
    <3>2. values[k] \in {Skipped, forced}
      BY <3>1 DEF Held
    <3>3. reading' # NoReading' => reading' = [value |-> forced, tfine |-> tfine]
      BY <2>1, <3>2 DEF NoReading
    <3>4. reading' # NoReading => reading'.value = forced /\ reading'.tfine = tfine
      BY <3>3 DEF NoReading
    <3> QED
      BY <2>2, <3>1, <3>4 DEF ForcedInv, Held, Running, NoReading
  <2> QED
    BY <2>4, <2>5, <2>6
(* The chip. *)
<1>13. CASE CopyEnds
  <2>1. UNCHANGED <<i2caddr, bmepc, regs, coeffs, bus, done, values, tfine, forced, reading>>
    BY <1>13 DEF CopyEnds
  <2>2. /\ chip' \in [meas : Nat, hum : Nat, humSet : Nat, config : Nat, copying : BOOLEAN,
           measuring : BOOLEAN]
        /\ chip'.meas = chip.meas /\ chip'.measuring = chip.measuring /\ chip'.hum = chip.hum
        /\ chip'.humSet = chip.humSet /\ chip'.config = chip.config
    BY <1>13 DEF CopyEnds, BmeType
  <2>3. BmeType'
    BY <2>1, <2>2 DEF BmeType
  <2>4. Found' /\ Programmed'
    BY <2>1, <2>2 DEF Found, Programmed
  <2>5. ForcedInv'
    BY <2>1, <2>2 DEF ForcedInv, Held
  <2> QED
    BY <2>3, <2>4, <2>5
<1>14. CASE MeasureEnds
  <2>1. /\ UNCHANGED <<i2caddr, bmepc, regs, coeffs, bus, tfine, forced, reading>>
        /\ done' = done + 1
        /\ values' = [t |-> IF TempOf(chip.meas) = 0 THEN Skipped ELSE done + 1,
                      p |-> IF PressOf(chip.meas) = 0 THEN Skipped ELSE done + 1,
                      h |-> IF chip.humSet = 0 THEN Skipped ELSE done + 1]
    BY <1>14 DEF MeasureEnds
  <2>2. CASE ModeOf(chip.meas) = Normal
    <3>1. chip' = chip /\ ModeOf(chip.meas) # Forced /\ ModeOf(chip.meas) # Sleep
      BY <1>14, <2>2 DEF MeasureEnds, Normal, Forced, Sleep
    <3>2. BmeType'
      BY <2>1, <3>1 DEF BmeType, Skipped
    <3>3. Found' /\ Programmed'
      BY <2>1, <3>1 DEF Found, Programmed
    <3>4. ~(bmepc \in Running /\ forced # 0)
      <4> SUFFICES ASSUME bmepc \in Running, forced # 0 PROVE FALSE
        OBVIOUS
      <4>1. regs.meas \in Nat /\ ModeOf(regs.meas) = Forced
            /\ chip.meas \in {regs.meas, regs.meas - 1}
        BY DEF ForcedInv, Programmed, BmeType
      <4> QED
        BY <3>1, <4>1, MeasArith
    <3>5. ForcedInv'
      BY <2>1, <3>4 DEF ForcedInv
    <3> QED
      BY <3>2, <3>3, <3>5
  <2>3. CASE ModeOf(chip.meas) # Normal
    <3>1. ModeOf(chip.meas) = Forced /\ chip.meas \in Nat
          /\ chip' = [chip EXCEPT !.measuring = FALSE, !.meas = @ - Forced]
      BY <1>14, <2>3 DEF MeasureEnds, Found, BmeType
    <3>2. chip.meas - 1 \in Nat /\ ModeOf(chip.meas - 1) = Sleep
      BY <3>1, MeasArith
    <3>3. /\ chip' \in [meas : Nat, hum : Nat, humSet : Nat, config : Nat, copying : BOOLEAN,
             measuring : BOOLEAN]
          /\ chip'.meas = chip.meas - 1 /\ chip'.measuring = FALSE /\ chip'.hum = chip.hum
          /\ chip'.humSet = chip.humSet /\ chip'.config = chip.config
      BY <3>1, <3>2 DEF BmeType, Forced
    <3>4. BmeType'
      BY <2>1, <3>3 DEF BmeType, Skipped
    <3>5. Found'
      BY <2>1, <3>2, <3>3 DEF Found, Sleep, Forced
    <3>6. bmepc \in Running => chip.meas = regs.meas
      <4> SUFFICES ASSUME ModeOf(regs.meas) = Forced, chip.meas = regs.meas - 1 PROVE FALSE
        BY DEF Programmed
      <4>1. ModeOf(regs.meas - 1) = Sleep
        BY MeasArith DEF BmeType
      <4> QED
        BY <3>1, <4>1 DEF Sleep, Forced
    <3>7. Programmed'
      <4>1. bmepc \notin {"hum", "config", "meas"}
        BY <3>1, MeasArith DEF Programmed, Sleep, Forced
      <4> QED
        BY <2>1, <3>1, <3>3, <3>6, <4>1 DEF Programmed, Running
    <3>8. ForcedInv'
      <4> SUFFICES ASSUME bmepc \in Running, forced # 0 PROVE ForcedInv'
        BY <2>1 DEF ForcedInv
      <4>1. chip.meas = regs.meas /\ bmepc = "forced" /\ forced = done + 1 /\ reading = NoReading
        <5>1. regs.meas \in Nat /\ regs.meas # regs.meas - 1
          BY DEF BmeType
        <5> QED
          BY <3>6, <5>1 DEF ForcedInv, Held
      <4>2. Held'
        BY <2>1, <3>3, <4>1 DEF Held, Skipped
      <4>3. regs.meas \in Nat /\ regs.meas # regs.meas - 1
        BY DEF BmeType
      <4> QED
        BY <2>1, <3>1, <3>3, <4>1, <4>2, <4>3 DEF ForcedInv, NoReading
    <3> QED
      BY <3>4, <3>5, <3>7, <3>8
  <2> QED
    BY <2>2, <2>3
<1>15. CASE UNCHANGED bmeVars
    BY <1>15 DEF bmeVars, BmeType, Found, Programmed, ForcedInv, Held
<1> QED
    BY <1>1, <1>2, <1>3, <1>4, <1>5, <1>6, <1>7, <1>8, <1>9, <1>10, <1>11, <1>12, <1>13, <1>14,
       <1>15 DEF BmeNext, BmeCall

(* A driver that is ready runs a chip set as it was asked to, and hands out   *)
(* the values of the forced measurement that it was asked for (116-197,       *)
(* 369-382).                                                                  *)
THEOREM SensorAsSet == BmeSpec => []MeasuresAsSet
<1>1. BmeInv => MeasuresAsSet
  <2> SUFFICES ASSUME BmeInv, bmepc = "ready" PROVE MeasuresAsSet
    BY DEF MeasuresAsSet, BmeAt
  <2>1. /\ coeffs /\ bus[i2caddr] = ChipId
        /\ chip.humSet = regs.hum /\ chip.config = regs.config
        /\ \/ chip.meas = regs.meas
           \/ ModeOf(regs.meas) = Forced /\ chip.meas = regs.meas - 1
    BY DEF BmeInv, Found, Programmed, Written, Running
  <2>2. /\ TempOf(chip.meas) = TempOf(regs.meas) /\ PressOf(chip.meas) = PressOf(regs.meas)
        /\ \/ ModeOf(chip.meas) = ModeOf(regs.meas)
           \/ ModeOf(regs.meas) = Forced /\ ModeOf(chip.meas) = Sleep
    BY <2>1, MeasArith DEF BmeInv, BmeType
  <2>3. ModeOf(chip.meas) \in {ModeOf(regs.meas)} \cup (IF ModeOf(regs.meas) = Forced
        THEN {Sleep} ELSE {})
    BY <2>2
  <2>4. forced # 0 /\ reading # NoReading =>
          reading.value = forced /\ (TempOf(regs.meas) # 0 => reading.tfine = forced)
    BY DEF BmeInv, ForcedInv, Running
  <2> QED
    BY <2>1, <2>2, <2>3, <2>4 DEF MeasuresAsSet
<1> QED
    BY <1>1, BmeInvInit, BmeStep, PTL DEF BmeSpec
=============================================================================
