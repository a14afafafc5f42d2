# Environment monitoring: the TLA+ model

This directory models the environment monitoring system of this repository: the gateway that collects
sensor data and sends it over AMQP (`service/`, `docker-compose.yml`) and the firmware of the battery
powered node with the libraries it is built on (`EMS-Arduino/`). It says what is modelled and how, what
TLC checks, what TLAPS proves, and what is left out.

`PROJECT.json` maps every definition to the source lines it stands for, and lists the runs, the mutants
that each property detects, the findings, the hazards and the theorems.

## 1. The system

### 1.1 Parts, state, operations

| Part | State it keeps | Operations | Talks to |
|---|---|---|---|
| Collector, `collect.py` (container EMScollect) | the Modbus client, the flag `flagkirim`, the loop's unit | read registers, log to `data/collect`, decide whether it is time to send, append to the day file | sensors; the directory `data/connect` |
| Connector, `connect.py` (EMSconnect) | the AMQP channel, the flag `dataflag`, the date of the day file, the lines read from it | ping, read and truncate the day file, declare, publish, retry, wait for the uplink, purge old files | the directory; the AMQP broker |
| Restarter, `restart.py` (EMSrestart) | none | every half hour: ping, reboot the device | the device |
| Directory `data/connect` and the clock | one file per day, modification times | append, truncate, unlink, midnight | collector, connector |
| AMQP broker and uplink (outside) | a non-durable queue | take, refuse, lose a confirmation, go away | connector |
| Node sketch, `MQTT-Publish.ino` | the MQTT client, the WiFi manager, the wake-up cause, the time buffers | wake, configure WiFi, connect, publish, sleep | the libraries below |
| PubSubClient | socket, `_state`, keepalive times, `pingOutstanding`, packet buffer, message id | connect, loop, publish, subscribe, disconnect | MQTT broker; the sketch's callback |
| WiFiManager | portal state, form values, timers, parameters | autoConnect, portal loop, save, scan, connect | WiFi driver, WebServer, DNSServer |
| WebServer | the one client and its state, arguments, upload buffer, handlers, reply headers | handleClient, parse, dispatch, send, chunks, files | WiFiManager's handlers; the peers |
| DNSServer | domain, TTL, reply code, one packet | start, processNextRequest | WiFiManager's portal loop |
| ESP32Ping | sequence number, counters, the socket | ping, receive, time out, count | the sketch (included, not called) |
| BME280 driver | chip address, settings, calibration, `t_fine` | begin, setSampling, forced measurement, read | the chip |
| Calibration and LoRa sketches, side scripts | none across calls | read and print; set routes; install a VPN | hardware |

The three gateway processes share nothing but the directory, the clock and the uplink. No lock guards the
directory: the collector opens the day file, formats a line and closes it while the connector may read,
truncate or unlink the same file. On the node everything runs in one thread; its difficulties come from
peers that stop in the middle, from timeouts and from state that outlives the call it was made for.

### 1.2 What is hard

* **Interleaving on files.** `readlines()` and the truncating `open(.., 'w')` (connect.py:86-87) are two
  system calls; an append between them is destroyed. A midnight between them, or between the collector's
  open and its close, moves the work to another file.
* **At most once and at least once, mixed.** The file is emptied before its lines are sent, so a crash
  loses lines; a publish is repeated after any exception, so a lost confirmation duplicates one.
* **Failure of everything around.** Broker, uplink, connection, queue, process and device fail one by one
  and together, and `ping()` looks at a web site, not at the broker.
* **Time.** Flags reset at certain seconds, a purge by modification time, keepalive timers on unsigned
  clocks, timeouts per byte and per line, a portal timeout that is looked at only between requests.
* **Members that outlive a request.** WebServer keeps arguments, `Host`, content length and the chunked
  flag in members; a request or reply that leaves one unset inherits the last one's.
* **One buffer.** PubSubClient builds every packet in the buffer it receives into, and calls the user in
  between.
* **Integer width and table ends.** Lengths in 8 and 16 bits, message ids that skip 0, argument arrays of a
  counted size, parameters of a declared length.

### 1.3 What makes each part correct

* Connector: records arrive in order, never more than twice; every duplicate was paid for by a fault;
  nothing that was delivered is read again; a record disappears for a known reason only; the service always
  starts a new pass; the whole is a lossy FIFO pipe.
* Collector: at most one hand-over at second 0 of a window, no window skipped because of a stale flag, no
  unit starved by failures of another.
* Gateway: an outage, however often the device reboots in it, costs the lines in memory at its first reboot
  and no more.
* Node: a sleep ends, a boot publishes once and with no old time, and the node goes on reporting.
* PubSubClient: what is announced is what is written, the reader finds the next packet, every message the
  callback saw is acknowledged by its own id; an open socket is a session; a hung broker is noticed, a
  prompt one never given up; a live one hears from the client in time; calls return.
* WiFiManager: the portal ends for its reasons only, and in time; the network it joins is the one saved last,
  unless the station was connected already or the form named none.
* WebServer: a handler sees its own request, uploads are whole, replies are framed as their headers say, a
  peer that waits is served.
* DNSServer, ESP32Ping, BME280: one well-formed answer per query; counts that add up; measurements with the
  settings, the coefficients and the temperature that belong to them.

## 2. The modules

```
DataDir <-- Connect <-- ConnectProperties <-- Gateway --INSTANCE--> Collect
                              |  '--INSTANCE--> LossyFifo
MqttPacket   MqttSession   MqttClient        HttpServer <-- Portal
HttpBody     HttpReply     Dns     WifiPage     Bme280     Node     Ping

MCConnect, MCCollect, MCGateway, MCClient, MCPortal      one component each
MCWire = MqttPacket + MqttSession + Dns + HttpBody + HttpReply + WifiPage + Bme280
MCNode = Node + Ping

ConnectProofs <-- ConnectLossProofs (Connect, Gateway)     CollectProofs
ClientProofs (MqttClient)     MqttProofs (MqttPacket, MqttSession)     PortalProofs (Portal, HttpServer)
HttpProofs (HttpBody, HttpReply)     NodeProofs (Node, Ping, Dns, WifiPage, Bme280)
```

### The gateway

**DataDir**: the shared directory and the clock. A record is its number in the order of writing, since no
content steers the connector. `log[d]`, `mtime[d]` and `exists` are the file of day `d`; `fd` is the file
`datakirim` has open. `DatakirimOpen`, `DatakirimWrite` are the two halves of the collector's append
(collect.py:114-123); `Truncate` and `Purge` are the connector's; `Tick` moves the clock over midnights.

**Connect**: the connector, one action per statement that reads or changes something another party can
change meanwhile; `pc` names the statement. Python locals and attributes keep their names: `lines` (the
loop of sendfromlog), `dataflag`, `channel` ("none" before the first success of initamqp), `file` (the
date in filekirimsensor). pika's calls have every outcome the code distinguishes: confirmed; taken but the
connection breaks before the confirmation; refused (NackError); unroutable; no usable channel. The
environment may stop the broker (and with it the non-durable queue), cut the connection or the uplink,
delete the queue, kill a process or reboot the device.

**LossyFifo**: what the connector promises. Its state is the number of records written, the set of records
the gateway still holds and what the backend received. `ConnectProperties!Fifo` maps `held` to the lines
in memory and in all day files, and `out` to the broker's queue.

**ConnectProperties**: the properties of Connect, the comments' claims the code does not keep, and
`OrderInv`, the inductive invariant of section 6.

**Collect**: the collector's cycle over the Modbus units and the clock. `flagkirim` and the local `kirim`
are kept as they are; the second is read once per `intervalkirim`. An exception anywhere ends the cycle
(collect.py:97); without an adapter at start the client attribute is never set and every read fails.

**Gateway**: EMScollect, EMSconnect and EMSrestart together. The collector's `second` is the directory's
`tick` modulo the minute, its `Open` and `Write` are the directory's steps, the restarter's reboot hits
both processes. `rebooted` remembers a reboot of the outage that lasts. Each step is by construction one of
Connect or a stutter, and one of Collect or a stutter (`ImplementsParts`, a lemma for the proofs).

### The node

**Node**: `setup()` and `loop()` of the sketch. The portal and the MQTT client appear by the results of
their calls; `station` and `uplink` may change at any moment in which the chip runs. A boot forgets all
RAM; the button's wake-up source is set before MQTT is tried, the timer's after it.

**MqttPacket**: the size arithmetic of PubSubClient at its real widths. One behaviour is one call of
publish, publish_P or beginPublish, or one packet of the broker read by readPacket; the digit loops are
actions, the byte loop of the body is one step computed in closed form.

**MqttClient**: connection, keepalive, reader and callback against a broker and a clock that wraps. Waiting
loops poll without sleeping, so time passes only in the sketch, in a callback or while a byte is awaited.
The bytes of a packet behind its type byte, `RestBytes` at most, are one token and may come one by one: the
reader waits for each of them anew (`got` counts those it waited for), so a packet can hold `loop()` for
`RestBytes` socket timeouts. A broker is prompt or not, chosen at the start: the prompt one answers in time,
the other may stall before any byte. The reader can lose step with the stream after a timeout; what it then
reads is any packet at all, of any number of bytes, each with its own wait.

**MqttSession**: what MqttClient leaves out of connect, subscribe and loop: which server a connection goes
to, the strings and flags of CONNECT, message ids, and the PUBACK around the user's callback, which may
publish, subscribe or disconnect and so overwrite the buffer.

**HttpServer** and **Portal** (which extends it): `handleClient`'s states (none, wait for data, wait for the
peer to close) with every path through `_parseRequest` that can wait, and the portal loop, `autoConnect`,
`connectWifi`, the timeout, break-after-config and the pages that change something. Peers connect, send the
head of a request at once and its body later or never, and leave when they like. Each wait has a bound of
its own.

**HttpBody**: arguments and uploads, token by token and byte by byte: how a text is counted, cut and
decoded, how a file is recognised to have ended across buffers, and what the handler is told when the peer
leaves. `Meant` is the reference: the pieces of the text between its `&`, by their places, each with its
first `=` as the end of its key. It shares no cursor and no counter with the code. A multipart form may have
any number of fields; one with more than the array's slots ends in `FormOverruns`.

**HttpReply**: which handler a request finds, and a reply from its handler's calls to what goes out, with
the members that survive from one reply to the next. A handler is the sequence of calls its sketch makes.
`streamFile()` writes a file whole, in part and then again (`WriteAgain`), or not to its end (`WriteStops`).
`send_P`, which nothing in this repository calls, is left out (see section 5).

**Dns**, **WifiPage**, **Ping**, **Bme280**: the DNS packet's answer, or none when there is no memory for
the packet; the list of networks (sorting, removal of doubles, the quality threshold) and the sketch's
parameters, with the end that a default of full length does not have; ping's loop with its counters, the
packets of other hosts that its raw socket gets too, and memory that is never freed; the driver's register
writes against a chip that takes `ctrl_hum` only with the next `ctrl_meas` and ignores `config` in normal
mode.

**MCWire** and **MCNode** put components side by side that share no state. `active` says which of them
runs; the others rest where they start. Their state graph is the sum of their parts', not the product.

## 3. What the runs check

| Run | What it asks | Bounds |
|---|---|---|
| connect_days | type, nothing delivered waits again, every loss has a cause | 3 days of 2 ticks, purge after 2 days, 2 records, 2 faults of any kind |
| connect_delivery | order, at most twice, the flag belongs to the line and duplicates are paid for, implements LossyFifo; the service goes on, a record is taken while its day lasts, after the last fault lines in memory arrive | 2 days of 1 tick, 3 records, 3 faults, with fairness |
| collect_window | one hand-over at second 0, windows served, every unit sampled again and again | 3 units, a minute of 8 seconds, windows every 4 with `kirim <= 2`, 2 faults of any kind, with fairness |
| gateway | what reboots in one outage can cost | one day of 4 ticks (two minutes of 2, a window each), 2 records, 3 faults (uplink, crash, reboot), 2 of the collector (kill, disk, adapter); with one day nothing is old enough to be purged, the theorem has any number |
| client | hung broker noticed, prompt broker kept, reader in step, open socket means session, bounded silence, calls return | keepalive 3, socket timeout 2, packets of 2 bytes behind the type, loop() every tick, one message in flight, clock modulo 11, states up to the differences of times, with fairness |
| portal | the portal's exits, its network, its timeout; each handler its own request; one client at a time, none forgotten | two peers (one of them with a request of each kind, the other a probe without Host), two networks, every wait 1, a portal with and one without timeout, with fairness |
| wire | sizes on the wire and of the reader, acknowledgements, requests, DNS answers, arguments and uploads, replies, the form, the sensor's settings | packets at real widths around 127, 128, 1024, 16384 and 65536; ids modulo 4; a buffer of 24 bytes with strings that just fit; texts of at most 4 symbols; files of at most 4 bytes of x, CR, LF and dash in buffers of 2; forms of 0, 2, 3 and 4 fields for 3 slots; 2 replies in a row; scans of at most 3 networks; a parameter of length 5, 2 forms; 2 measurements |
| node | sleeps end, boots publish once, the node keeps reporting; ping counts each answer once and returns | any number of boots; 2 calls of ping with 1 request or the default 2, memory for 3, one answer sent twice, a mailbox of 2, any packets of other hosts |

Four runs each refute one sentence of a comment or document; the entries under "findings" quote the
sentence and describe the behaviour.

* `deleted_unsent`: an append between `readlines()` and the truncation is deleted unread (connect.py:87),
  without any fault. A line whose two publishes fail is lost the same way.
* `midnight`: a record still in the file at midnight is never read again (connect.py:35).
* `collect_committed`: `baterai` is bound nowhere (collect.py:92), so the file as committed records nothing.
* `portal_timeout`: a peer that leaves inside a form field keeps `handleClient` for ever (Parsing.cpp:428),
  and the timeout is not looked at again.

`CHECK_DEADLOCK FALSE` stands in MCWire.cfg and MCNode.cfg: a call that has returned, or the last of
`MaxCalls`, is the end of a behaviour there.

### Why the bounds suffice

A duplicate takes one record and one fault, a reordering two records; three records and three faults allow
a duplicate of a middle record, a loss beside it and a crash. Three days with a purge after two contain a
file that is read, one left behind and one purged, with an open append over a midnight; the code compares
dates and times only, so more days repeat the same cases. In Collect a window of three seconds contains
second 0, the rest of the window and the seconds after it. The gateway's two windows of two seconds let a
hand-over be late for its window. The client's keepalive, its gaps and the waits for the
bytes of one packet must fit into the clock's modulus, which `ClientAssumption` states; two bytes are enough
for a wait that begins again. The code only subtracts times from each other, modulo the clock, so that run
takes states with the same differences for one (`VIEW Differences`); every tick changes a difference, so
fairness and liveness keep their meaning. In the portal a second peer is enough to be confused with the
first, and a wait of 1 is one that can be outlasted. An upload's delimiter begins with four bytes and the
buffer holds two, so every way to split it occurs. Ids modulo 4 wrap within the four requests of a
connection. For the safety properties that section 6 lists the proofs lift the bounds altogether.

### Fairness

* `WF(ConnectStep)`: the process is a loop of non-blocking steps; docker restarts it after a crash.
* `WF(BrokerUp)`, `WF(InternetUp)`: outages end. Without this the outage loop (connect.py:126) waits for
  ever, as it should. Faults are finitely many (`MaxFaults`).
* `WF(CollectStep)`, `WF(NextSecond)`: the collector runs and the clock ticks.
* MqttClient: `WF` of the client's steps and of time; of the broker's only where it is the prompt one and
  owes something. The other broker may stay silent for ever.
* Portal: `WF` of the firmware's steps and of time, nothing of the peers.
* Node: `WF(SketchStep)` includes the timer that wakes the chip, not the user who finishes a portal or
  presses the button; `WF(PingStep)` includes the receive timeout, no answer.

### Exceptions the properties name

Each is a place where the code does something else than one would expect and no document promises
otherwise; the property excepts exactly that case.

* `WrittenAsMeant`, `ReadAsWritten`: lengths from 65536 on wrap, in the reader (265) too; `beginPublish`
  announces the length modulo 2^16 (PubSubClient.cpp:461) although PubSubClient.h:153 speaks of "arbitrarily
  large payloads". `publish_P` returns false although everything was written when the length field has more
  than one byte (448; CHANGES.txt:12 and the test publish_spec.cpp:166 know the function).
* `RequestsAsAsked`: the longest topic `subscribe` accepts ends one byte behind the buffer
  (PubSubClient.cpp:538; subscribe_spec.cpp:112 asks for it to be accepted).
* `HandledAsSent`: a POST of length 0, and a request without Host, leave the last one's body argument and
  host in place.
* `JoinsWhatWasSaved`: a station that is connected when the form is saved stays where it is
  (WiFiManager.cpp:263).
* `BodyAsSent`: the text is decoded before it is cut, so an escaped `&` or `=` cuts (Parsing.cpp:94, 189);
  a file that contains the delimiter's first four bytes may be taken for its own end; a multipart form with
  more fields than slots writes behind the array (441), and nothing is said of it.
* `ReplyReadsBack`: the `.gz` of a file of unknown type goes out without Content-Encoding. When
  `streamFile()` has no memory for its buffer or loses the client, or the socket takes a buffer in part, which
  is then written again from its first byte (WebServer.h:156-175), Content-Length is out already and the
  client gets another number of bytes; what holds then too is that the headers are this reply's.
* `AnsweredOnceInForm`: a query with other sections gets a reply that announces sections it does not carry
  (DNSServer.cpp:166); a query there is no memory for is lost (56).
* `CutOnce`: the first save of a form shortens a default as long as its parameter (WiFiManager.cpp:49, 600).
* `MeasuresAsSet`: with the temperature switched off, what pressure and humidity are compensated with is old.
* `EveryUnitSampled`: a collector that found no adapter when it started samples nothing, ever.
* `PingReturns`: memory that has run out (ping.cpp:130), and packets of other hosts that never cease, each of
  which restarts the socket's timeout (165).
* `SketchKeepsReporting`: `mqttConnection` never looks at the WiFi again (MQTT-Publish.ino:99-114); a node whose
  station stays away while it waits there, or whose portal nobody finishes, reports no more.

### Assumptions of the models

* One `datakirim` call crosses at most one midnight.
* `ping()` and the broker are independent; each ping answers for the moment of the call.
* A replugged USB adapter gets the same device name.
* `BateraiBound = FALSE` is the collector as committed; the other runs of the collector set it to TRUE, so
  that the rest of the cycle can be examined.
* `NoFalseAlarm`, `InStep` and `HungIsNoticed` are about the prompt broker. `PromptAssumption` says what
  that is: all of a packet's rest arrives before one socket timeout (`RestIn < SocketTimeout`), the answer
  to a ping, plus the rest of a packet in front of it, plus one turn of sketch and callback take no longer
  than the keepalive, and neither do the messages in flight with a callback each. The library's defaults
  (both 15 s) allow a packet in front of the PINGRESP to stall until the session is given up although the
  broker is alive: with `SocketTimeout = KeepAlive = 3` and `RestIn = 2`, and without this assumption, TLC
  finds `NoFalseAlarm` violated. Such a broker also begins no other message between hearing a ping and
  answering it (`BrokerPublishes`); what it sent before it heard the ping may stand in front of the answer.
* `ClientAssumption`: the socket timeout is at most the keepalive, as PubSubClient.h has it (both 15), and
  the clock's modulus, 2^32 ms there, is larger than the times that are compared: a keepalive, the gaps and a
  socket timeout for each byte of a packet. With 15 s a byte that is so for packets of up to some 286,000
  bytes, and a length has 16 bits.
* Bounds on the broker that is not prompt: it answers a ping when fewer than `2 * Backlog` tokens are in
  flight, and of a packet the reader has given up one byte at a time is on its way.
* `SessionAssumption`: a header room of 5 bytes and a buffer in which the shortest CONNECT fits, as
  PubSubClient.h declares them; `MqttPacket` has 65536 and 128, the width of a `uint16_t` and of a digit,
  as definitions.
* `HttpAssumption`, `PortalAssumption`: a request has a body of one of the kinds `_parseRequest`
  distinguishes, one without a form has no arguments in it, and an argument is a network's name or blank.
* `BodyAssumption`: the buffer holds at least one byte, an encoded form is not empty, and texts, files and
  the boundary are finite sequences. The boundary may be any; the one of the run begins with a dash,
  as those of browsers do.
* `ReplyAssumption`: what a handler calls fits a reply (`FitsReply`): headers and lengths, one `send()`,
  then more content; it says no length, or one, and gives as much as it says; content of unknown length ends
  with its only empty piece; it does not set Transfer-Encoding itself. This is the protocol by which the
  library is to be used; WiFiManager's pages, `serveStatic` and the not-found handler keep it, and TLC
  evaluates it on all handlers of the wire run. A handler that breaks it gets the reply it asked for. A
  static handler's paths have a size, with and without `.gz`.
* A callback does not call connect() or loop(). Topics fit the buffer.
* The head of an HTTP request arrives in one piece; its body need not.

## 4. Mutants

Every property of a passing run has a mutant, a plausible bug written next to the definition it replaces
(`Mutant:` comments), under which TLC finds the property violated: a truncation that is missing, a retry
that loops, a flag that is not reset, an id taken from the buffer after the callback, a timer that is not
set, a pass that does not wait for the uplink.

## 5. Hazards

"hazards" in `PROJECT.json` lists forty places and the properties that would catch them going wrong, or a
note that says why none does: where what the code does is the case a property excepts, and no document says
otherwise. The following are real too and not listed there, because no property says more than the line
itself:

* collect.py:89: the second `if` of parse_json overrides the first, so unit 1 is filed under the name of
  units 3 and above; and `temperaturehumidity` (174-176) reads the same slave for every unit. Both are
  modelled as they are.
* MQTT-Publish.ino:299: autoConnect runs before setAPCallback, so the first portal has no callback.
* MQTT-Publish.ino:334: deep sleep begins right after a QoS 0 publish; `Node` allows the sample to be lost
  there, and no one promises it is not.
* PubSubClient.cpp:202: connect() takes any 4-byte packet with a zero in byte 3 for CONNACK. 343: after a
  reconnection from the callback, the PUBACK would go to the new connection (see the assumptions).
* WebServer.cpp:320: send_P sends its header inside a chunk. 335-340: `sendContent`'s memory for a chunk's
  size, and every write but those of a file, are taken to succeed.
* WiFiManager.cpp:439: a failed scan returns a negative count. ESP32Ping.cpp:66: averageTime stays 0.
* Adafruit_BME280.cpp:405: the sign of the calibration words H4 and H5. 430: with the temperature switched off,
  pressure and humidity are compensated with the t_fine of an earlier measurement.

## 6. What is proved

For every value of the constants that satisfies their assumptions, and any number of days, records, boots,
faults, packets, requests and forms:

| Theorem | States |
|---|---|
| `ConnectProofs!TypeCorrect` | `Spec => []TypeOK` |
| `ConnectProofs!OrderInvariant` | `Spec => []OrderInv` |
| `ConnectProofs!OrderOfDelivery`, `DeliveredAtMostTwice`, `NoResend` | `DeliveryOrder`, `AtMostTwice`, `NothingSentWaitsAgain` |
| `ConnectLossProofs!RefinesLossyFifo` | `Spec => ImplementsLossyFifo` |
| `ConnectLossProofs!FlagAndDuplicates` | `Spec => []FlagMeansThisLine` |
| `ConnectLossProofs!EveryLossHasACause` | `Spec => LossHasACause` |
| `ConnectLossProofs!OutageCostsOnce` | `GatewaySpec => RebootsLoseOnce` |
| `ConnectLossProofs!GatewayIsLossyFifo` | the whole gateway is the pipe, with its losses accounted for |
| `CollectProofs!AtMostOneHandover`, `NoWindowSkipped` | `OneHandoverAtZero`, `WindowServed` |
| `ClientProofs!SocketIsSession`, `BrokerHears` | `SocketMeansSession`, `SilenceBounded`, for any broker |
| `ClientProofs!ReaderInStep`, `HungIsLeft`, `PromptIsKept` | `InStep`, `HungIsNoticed`, `NoFalseAlarm`, for a prompt broker |
| `MqttProofs!PacketsAsMeant`, `PacketsReadWhole` | `WrittenAsMeant`, `ReadAsWritten`, at the real widths |
| `MqttProofs!CallbacksAcknowledged` | `SessionSpec => []AcksNameMessages` |
| `MqttProofs!RequestsAreAsAsked` | `SessionSpec => []RequestsAsAsked` |
| `PortalProofs!OneClientAtATime`, `EveryRequestItsOwn` | `PortalInv`, `HandledAsSent` |
| `HttpProofs!ReadsBodyAsSent` | `BodySpec => []BodyAsSent` |
| `HttpProofs!RepliesReadBack` | `ReplySpec => []ReplyReadsBack` |
| `PortalProofs!SavedIsJoined`, `EndsForAReason` | `JoinsWhatWasSaved`, `LeavesForAReason` |
| `NodeProofs!EverySleepEnds` | `NodeSpec => []SleepsInOrder` |
| `NodeProofs!AnswersCountedOnce` | `PingSpec => []CountsAddUp` |
| `NodeProofs!QueriesAnsweredOnce` | `DnsSpec => []AnsweredOnceInForm` |
| `NodeProofs!StrongestOfEach` | `PageSpec => []StrongestShownOnce` |
| `NodeProofs!SensorAsSet` | `BmeSpec => []MeasuresAsSet` |

These are all safety properties that the passing runs check, but `CutOnce`.

**Types.** The Boolean variables and the data are treated in separate lemmas (`BoolStep`, `DataStep`;
`CollectBoolsStep`, `CollectDataStep`), because no single back end handles both well.

**Order.** Neither order nor "at most twice" is inductive. `OrderInv` adds why they hold: all records the
gateway can still read are newer than the lines in memory, which are newer than what was delivered; files
of later days are newer than files of earlier days, and no file lies in the future, not even that of an
append that began before midnight. The current line may equal the last delivered ones; `Tries` counts,
from the place in the code alone, how often it may have been taken: not before the first publish, once
after it, twice after the second. Each action has a lemma that says which of the seven parts it touches.
The step that matters is `TruncateLog`: the lines leave the file at the moment they become lines to be
sent, and this is what makes `NoResend` true (and loses them in a crash).

**Refinement.** The collector's write is LossyFifo's `Write`; the broker's `Accept`, inside either publish,
is `Send` of the current line, whose guard is `CurrentIsNewest` with `Tries <= 1`; reading the file only
copies what is held; truncation, the next line, the purge and a kill are `Drop`; all else changes nothing
that the abstraction sees.

**Flag and duplicates.** `FlagFresh` says that the flag is up only at "mark", after the broker took the
current line. A duplicate is made by the second publish, and its fault came before: `RepeatsPaid` keeps one
fault unspent while the process is retrying a line the broker already has.

**Losses.** `LinesOnlyWhileSending`, `FilesDated` (a file was last written on its own day or later, an open
one is at most a midnight old, hence never purged) and `FailureNeedsFault` (before the first fault the
channel is open, the queue is there and every publish is confirmed) rule out a fifth cause.

**Collector.** `OnceAtZero`: after a hand-over at second 0 the process either still has to clear the flag,
with `kirim = 0` remembered, or has cleared it. `RaisedUnlessServed`: a sample of this window that was not
handed over has left the flag up.

**Gateway.** Each of its steps is a step of Connect or one Connect does not see, and likewise for Collect
(the lemma `PartsUnharmed`); so the theorems of the parts hold of the whole. `OutageInv` is of the whole:
since a reboot in the outage that lasts, the connector has no line in memory and is before its loop, in the
outage loop or on the way between them, where it can neither read nor purge. What is held then never shrinks
(`OutageKeepsLines`).

**Client.** `ClientInv` has a part for every broker and a part for a prompt one. `AgeInv` bounds, for each
place of the client, the ages of `lastIn`, `lastOut`, `t` and `waited`, all far below the clock's modulus,
so that an age is one more after a tick (`AgoTick`); inside a packet the age of `t` is at most one socket
timeout for each byte waited for and that of `waited` (`Spent`). `SilenceBounded` follows. For the prompt broker
`StreamInv` says that type bytes and rests alternate and that the reader knows which comes next, so what it
waits for is owed, and `LateInv`, that it comes before the timeout; the reader is therefore never out of
step (`NoTimeout`). `ReplyInv` and `RoomInv`: there is one ping at most, `pingOutstanding` stands for it,
and the packets in flight leave room for its answer. `PingInv` is a race of deadlines: an unanswered ping
leaves the broker's time, then the client's turns to read what lies before the answer, within the
keepalive; an answer on its way at place k of the stream is read in k turns, within the keepalive. That is
why a prompt broker is never given up. `HangInv` counts the other way: the ticks since the broker hung,
plus those the client may still take to read what is in flight, to time out and to send a ping in vain, are
at most `DeafLimit`. `StepKinds` splits the steps into those that close the socket and those on an open
one, so that each part looks at the steps that concern it.

**Packets.** `Low`, `Mid` and `High` are a length's digits in base 128. `Partial` describes the encoder
between two digits, `Code` its result, `ReadSoFar` the reader after one, two or three digits;
`CodeFacts` and `ReadDigits` are the arithmetic: a length below 2^16 has at most three digits, their
product sums neither wrap nor lose anything, and what the reader adds up is the length. The numbers are
kept behind definitions, since the back ends do not do well with them.

**Requests, acknowledgements.** `Chain` says of the ids of a connection that two requests less than a whole
round apart have ids at just that distance modulo the round, which skips 0; they differ for this reason.
`ServerSet` ties the connection to the server set last, `BuiltInv` the buffer's end to the lengths of the
strings. `AckInv`: during a callback the broker waits for just its message on this connection.

**Portal.** `ServerInv` is of the server: one client at most is open, it is the current one, and while its
body, its form or its handler is dealt with, `args` holds what the head of its own request had; `Reset` and
every kind of abort clear both. `ManagerInv` is of the portal: while a form's network is being joined,
`ssid` is the form's, `saved` is up, and one attempt was made for it; no handler runs between. The two
properties of steps follow from it.

**Bodies.** Induction over data is out of the provers' reach, so nothing is proved by recursion on a text:
positions take its place, and where a first or last one is needed, `LeastOne` gives it. `FileInv` says where
the reader is in the part that was sent: the handler and the buffer together have the file's first f bytes
(`BufferingKeeps`: when the buffer is emptied changes where bytes are, not what they are), the bytes held
back for the delimiter are the next ones, and the byte just read follows them. Held back bytes that turn out
to be the file's are therefore given back whole (`HeldIsFile`), and four that match are, in a file without
`CR LF - -`, the true end (`DelimiterIsTheEnd`). `ArgsInv` says that the arguments found are the meant ones
of all pieces before `pos`, counted by their places (`NextPiece`), that they are no more than the pieces
begun, hence than the array's room, that the `&` appended to join a body to the query adds no argument
(`MeantOfJoined`), and that query and encoded form are decoded to the one text `Whole` stands for.

**Replies.** `ReplyInv` follows a reply by the number j of its handler's calls that are made. Until `send()`
nothing is out, and the headers that wait are those of this request's calls (`NotSent`); after it, what is
out begins with them, has the framing that its length calls for, and holds exactly the sum of what the calls
before j gave, or a file was `broken` (`SentUpTo`); when j is behind the last call, that is all the handler
gave, and of the chunks only the last is empty. `responseHeaders` is empty whenever no handler runs, which
is why no header of one reply reaches the next. Sums are functions on 0 .. n; that they exist and agree on a
shared beginning is proved from the least number too (`SumsExist`, `SumsAgree`).

**Node and its parts.** `NodeInv` says what each stretch of setup() and loop() has armed and filled.
`PingInv`: while ping() waits for a number, no answer with that number was counted. `DnsInv`: a packet that
waits is unanswered. `ScanInv`: `indices` is a permutation with the strongest first, then the same with
doubles struck out; so a name's first place has its best signal (`FirstIsBest`), every name has one
(`ComesFirst`, the least of its places), and those are the places kept (`KeptIs`). `BmeInv`: which
writes of setSampling() have reached the chip at each place, and that a chip in forced mode measures once
and falls back to sleep by itself.

**Only model-checked.** `CutOnce`, and liveness: `ServiceGoesOn`, `TakenWhileItsDayLasts`, `DeliveredOnceCalm`,
`EveryUnitSampled`, `CallsReturn`, `WaiterServed`, `TimeoutEndsOrForm`, `SketchKeepsReporting` and
`PingReturns`, since ENABLED and fairness are beyond the proof system.

## 7. Not modelled

* Logging, wording, JSON and HTML layout; the values read from sensors.
* The collector's log in `data/collect` beyond the rooms it names, and its purge (collect.py:30-40): no
  other part reads it.
* connect() or loop() called from inside an MQTT callback.
* WebServer's authentication (WebServer.cpp:97-133), which nothing here uses, and the FSBrowser example.
* WiFiManager's WPS (off by default), the static IP fields of the form, debug output.
* BME280's compensation arithmetic and the byte order on I2C and SPI; checksums of ping.
* Functions the sketch defines and never calls (sensorValue, batteryValue, platformBlynk, the clock chip
  and the EEPROM).
* The calibration and LoRa sketches and the side scripts: straight-line input and output without state.

## 8. Plan

1. *Done.* The gateway: modules, runs, and proofs of all its safety properties.
2. *Done.* The node's sketch, PubSubClient, WiFiManager, WebServer, DNSServer, ESP32Ping, BME280.
3. *Done.* Proofs of the node's libraries: client, packets, sessions, server and portal, ping, DNS, form,
   sensor.
4. *Done.* Proofs of what the web server reads and writes: arguments, uploads, replies.

A refinement of Node's `AutoConnects` ... `PortalFails` by Portal, and of its `MqttConnects` and `ClientLoop` by
MqttClient, was considered and dropped: Node gives those calls every result they can return, so every library
would implement it.
