------------------------------ MODULE Connect ------------------------------
(* service/connect/connect.py: the process that sends the collector's day     *)
(* file to the backend over AMQP, one step per statement that reads or        *)
(* changes something another process, the broker or the network can change    *)
(* in between.  The collector appears only through what it does to the        *)
(* directory (DataDir); the broker and the network are the environment.       *)
EXTENDS DataDir

CONSTANTS
    Faults,      \* the kinds of fault the environment may inject
    MaxFaults    \* bound: how many faults it injects

FaultKinds == {"broker", "internet", "conn", "queue", "confirm", "nack",
               "crash", "reboot"}

ASSUME ConnectAssumption == Faults \subseteq FaultKinds /\ MaxFaults \in Nat

VARIABLES
    pc,         \* the statement the process is about to run
    file,       \* the date in self.filekirimsensor
    lines,      \* the rest of the list readlines() returned, current line first
    dataflag,   \* self.dataflag
    channel,    \* self.channel: "none" (no attribute yet), "open" or "dead"
    internet,   \* www.google.com:80 accepts a connection
    broker,     \* config.SERVER:config.PORT accepts a connection
    queue,      \* the non-durable queue config.QUEUE exists on the broker
    backend,    \* the messages the broker has put in the queue, in order
    faults      \* how many faults were injected

procVars == <<pc, file, lines, dataflag, channel>>
envVars  == <<internet, broker, queue, backend, faults>>
vars     == <<dirVars, procVars, envVars>>

Labels == {"init", "folder", "gate", "ceklog", "read", "truncate",
           "declare", "publish", "reinit", "redeclare", "republish", "mark",
           "outage", "retest", "purge"}

TypeOK ==
    /\ DirTypeOK
    /\ pc \in Labels
    /\ file \in Days
    /\ lines \in Seq(Nat)
    /\ dataflag \in BOOLEAN
    /\ channel \in {"none", "open", "dead"}
    /\ internet \in BOOLEAN
    /\ broker \in BOOLEAN
    /\ queue \in BOOLEAN
    /\ backend \in Seq(Nat)
    /\ faults \in Nat

Init ==
    /\ DirInit
    /\ pc = "init"
    /\ file = 0
    /\ lines = <<>>
    /\ dataflag = FALSE
    /\ channel = "none"
    /\ internet = TRUE
    /\ broker = TRUE
    /\ queue \in BOOLEAN
    /\ backend = <<>>
    /\ faults = 0

Goto(from, to) == pc = from /\ pc' = to

-----------------------------------------------------------------------------
(* The environment.                                                           *)

Fault(kind) ==
    /\ kind \in Faults
    /\ faults < MaxFaults
    /\ faults' = faults + 1

(* The socket under an open channel breaks; pika says so at the next call.    *)
Broken(c) == IF c = "open" THEN "dead" ELSE c

(* The broker stops or becomes unreachable.  If it stopped, its non-durable   *)
(* queue is gone.                                                             *)
BrokerDown ==
    /\ Fault("broker")
    /\ broker
    /\ broker' = FALSE
    /\ channel' = Broken(channel)
    /\ queue' \in {queue, FALSE}
    /\ UNCHANGED <<dirVars, pc, file, lines, dataflag, internet, backend>>

BrokerUp ==
    /\ ~broker
    /\ broker' = TRUE
    /\ UNCHANGED <<dirVars, procVars, internet, queue, backend, faults>>

InternetDown ==
    /\ Fault("internet")
    /\ internet
    /\ internet' = FALSE
    /\ UNCHANGED <<dirVars, procVars, broker, queue, backend>>

InternetUp ==
    /\ ~internet
    /\ internet' = TRUE
    /\ UNCHANGED <<dirVars, procVars, broker, queue, backend, faults>>

(* The connection is cut, or the broker closes it: the process calls pika     *)
(* only to publish, so an idle connection misses its heartbeats.              *)
ConnectionLost ==
    /\ Fault("conn")
    /\ channel = "open"
    /\ channel' = "dead"
    /\ UNCHANGED <<dirVars, pc, file, lines, dataflag, internet, broker, queue, backend>>

(* Somebody deletes the queue under the open channel.                         *)
QueueDeleted ==
    /\ Fault("queue")
    /\ queue
    /\ queue' = FALSE
    /\ UNCHANGED <<dirVars, procVars, internet, broker, backend>>

(* The process forgets everything; docker's restart: always starts it again.  *)
Forget ==
    /\ pc' = "init"
    /\ lines' = <<>>
    /\ dataflag' = FALSE
    /\ channel' = "none"
    /\ UNCHANGED file

Crash ==
    /\ Fault("crash")
    /\ Forget
    /\ UNCHANGED <<dirVars, internet, broker, queue, backend>>

(* restart.py: when the half-hourly ping() fails the whole device reboots and *)
(* every process starts afresh, a half-done datakirim call of the collector   *)
(* included.                                                                  *)
Reboot ==
    /\ Fault("reboot")
    /\ ~internet
    /\ Forget
    /\ fd' = NoFile
    /\ UNCHANGED <<today, tick, exists, log, mtime, written>>
    /\ UNCHANGED <<internet, broker, queue, backend>>

(* The collector is killed and restarted on its own.                          *)
CollectorCrash ==
    /\ Fault("crash")
    /\ fd' = NoFile
    /\ UNCHANGED <<today, tick, exists, log, mtime, written>>
    /\ UNCHANGED <<procVars, internet, broker, queue, backend>>

Environment ==
    \/ BrokerDown \/ BrokerUp
    \/ InternetDown \/ InternetUp
    \/ ConnectionLost
    \/ QueueDeleted
    \/ Crash \/ Reboot \/ CollectorCrash

-----------------------------------------------------------------------------
(* connect.py.                                                                *)

(* initamqp: a failure is logged and leaves self.channel as it was.           *)
InitAmqp == channel' = IF broker THEN "open" ELSE channel

(* ConnectClass.__init__                                                      *)
Start ==
    /\ Goto("init", "folder")
    /\ dataflag' = FALSE
    /\ InitAmqp
    /\ UNCHANGED <<dirVars, file, lines, envVars>>

(* inisialisasifolder: the file of today, fixed for the whole pass.           *)
InisialisasiFolder ==
    /\ Goto("folder", "gate")
    /\ file' = today
    /\ UNCHANGED <<dirVars, lines, dataflag, channel, envVars>>

(* Mutant: a pass also waits for a live channel, which only a pass repairs.   *)
Gate_NeedsChannel ==
    /\ Goto("gate", IF internet /\ channel = "open" THEN "ceklog" ELSE "outage")
    /\ UNCHANGED <<dirVars, file, lines, dataflag, channel, envVars>>

(* Mutant: the file is looked at whatever ping() says.                        *)
Gate_NoPing ==
    /\ Goto("gate", "ceklog")
    /\ UNCHANGED <<dirVars, file, lines, dataflag, channel, envVars>>

(* if ping() == True and ...                                                  *)
Gate ==
    /\ Goto("gate", IF internet THEN "ceklog" ELSE "outage")
    /\ UNCHANGED <<dirVars, file, lines, dataflag, channel, envVars>>

(* ceklog: the file is there and its first line is a record.                  *)
Ceklog ==
    /\ Goto("ceklog", IF file \in exists /\ log[file] # <<>> THEN "read" ELSE "outage")
    /\ UNCHANGED <<dirVars, file, lines, dataflag, channel, envVars>>

(* sendfromlog: open(..., 'r') and readlines(); a missing file ends the pass. *)
ReadLines ==
    /\ Goto("read", IF file \in exists THEN "truncate" ELSE "outage")
    /\ lines' = log[file]
    /\ UNCHANGED <<dirVars, file, dataflag, channel, envVars>>

(* Mutant: the file is not emptied.                                           *)
TruncateLog_Keeps ==
    /\ Goto("truncate", IF lines = <<>> THEN "outage" ELSE "declare")
    /\ UNCHANGED <<dirVars, file, lines, dataflag, channel, envVars>>

(* sendfromlog: open(..., 'w') empties the file before anything is sent.      *)
TruncateLog ==
    /\ Goto("truncate", IF lines = <<>> THEN "outage" ELSE "declare")
    /\ Truncate(file)
    /\ UNCHANGED <<today, tick, fd, written, file, lines, dataflag, channel, envVars>>

(* kirimdatakeserver: queue_declare, which creates a missing queue.           *)
QueueDeclare ==
    /\ \/ channel = "open" /\ Goto("declare", "publish") /\ queue' = TRUE
       \/ channel # "open" /\ Goto("declare", "reinit") /\ UNCHANGED queue
    /\ UNCHANGED <<dirVars, file, lines, dataflag, channel, internet, broker, backend, faults>>

(* The broker takes the current line into the queue ...                       *)
Accept == queue /\ channel = "open" /\ backend' = Append(backend, Head(lines))

(* ... and the confirmation reaches the process.                              *)
Confirmed == Accept /\ UNCHANGED <<channel, faults>>

(* ... but the connection breaks before the confirmation arrives.             *)
ConfirmLost == Accept /\ Fault("confirm") /\ channel' = "dead"

(* The broker refuses the message: pika raises NackError.                     *)
Nacked == /\ queue /\ channel = "open" /\ Fault("nack")
          /\ UNCHANGED <<channel, backend>>

(* No queue takes the message: mandatory makes pika raise UnroutableError.    *)
Unroutable == ~queue /\ channel = "open" /\ UNCHANGED <<channel, backend, faults>>

(* The call fails at once: no channel attribute, or a dead connection.        *)
NoChannel == channel # "open" /\ UNCHANGED <<channel, backend, faults>>

(* kirimdatakeserver: the first basic_publish and its handlers.               *)
BasicPublish ==
    /\ \/ Goto("publish", "mark")   /\ Confirmed  /\ dataflag' = TRUE
       \/ Goto("publish", "mark")   /\ Unroutable /\ dataflag' = FALSE
       \/ Goto("publish", "reinit") /\ UNCHANGED dataflag
                                    /\ (ConfirmLost \/ Nacked \/ NoChannel)
    /\ UNCHANGED <<dirVars, file, lines, internet, broker, queue>>

(* Mutant: the handler does not reconnect.                                    *)
ReinitAmqp_Missing ==
    /\ Goto("reinit", "redeclare")
    /\ UNCHANGED <<dirVars, file, lines, dataflag, channel, envVars>>

(* kirimdatakeserver: the handler reconnects ...                              *)
ReinitAmqp ==
    /\ Goto("reinit", "redeclare")
    /\ InitAmqp
    /\ UNCHANGED <<dirVars, file, lines, dataflag, envVars>>

(* ... declares the queue again ...                                           *)
QueueRedeclare ==
    /\ \/ channel = "open" /\ Goto("redeclare", "republish") /\ queue' = TRUE
       \/ channel # "open" /\ Goto("redeclare", "mark") /\ UNCHANGED queue
    /\ UNCHANGED <<dirVars, file, lines, dataflag, channel, internet, broker, backend, faults>>

(* Mutant: the handler retries until a publish is confirmed.                  *)
BasicRepublish_Loops ==
    /\ \/ Goto("republish", "mark") /\ Confirmed /\ dataflag' = TRUE
       \/ Goto("republish", "reinit") /\ UNCHANGED dataflag
                                      /\ (ConfirmLost \/ Nacked \/ Unroutable \/ NoChannel)
    /\ UNCHANGED <<dirVars, file, lines, internet, broker, queue>>

(* ... and publishes again; any failure, UnroutableError included, is logged. *)
BasicRepublish ==
    /\ Goto("republish", "mark")
    /\ \/ Confirmed /\ dataflag' = TRUE
       \/ UNCHANGED dataflag /\ (ConfirmLost \/ Nacked \/ Unroutable \/ NoChannel)
    /\ UNCHANGED <<dirVars, file, lines, internet, broker, queue>>

(* Mutant: a line that was not sent goes to the end of the list.              *)
MarkLine_Requeues ==
    /\ pc = "mark"
    /\ lines' = IF dataflag THEN Tail(lines) ELSE Append(Tail(lines), Head(lines))
    /\ Goto("mark", IF lines' = <<>> THEN "outage" ELSE "declare")
    /\ dataflag' = FALSE
    /\ UNCHANGED <<dirVars, file, channel, envVars>>

(* Mutant: the success flag is not reset.                                     *)
MarkLine_KeepsFlag ==
    /\ Goto("mark", IF Tail(lines) = <<>> THEN "outage" ELSE "declare")
    /\ lines' = Tail(lines)
    /\ UNCHANGED <<dirVars, file, dataflag, channel, envVars>>

(* sendfromlog: write('') and the reset of the flag; then the next line.  A   *)
(* line that was not sent is not written back either.                         *)
MarkLine ==
    /\ Goto("mark", IF Tail(lines) = <<>> THEN "outage" ELSE "declare")
    /\ lines' = Tail(lines)
    /\ dataflag' = FALSE
    /\ UNCHANGED <<dirVars, file, channel, envVars>>

(* Mutant: the loop's condition is the wrong way round.                       *)
Outage_Inverted ==
    /\ Goto("outage", IF internet THEN "retest" ELSE "purge")
    /\ UNCHANGED <<dirVars, file, lines, dataflag, channel, envVars>>

(* while ping() == False: ...                                                 *)
Outage ==
    /\ Goto("outage", IF internet THEN "purge" ELSE "retest")
    /\ UNCHANGED <<dirVars, file, lines, dataflag, channel, envVars>>

(* ... if ping() == True: initamqp()                                          *)
Retest ==
    /\ Goto("retest", "outage")
    /\ IF internet THEN InitAmqp ELSE UNCHANGED channel
    /\ UNCHANGED <<dirVars, file, lines, dataflag, envVars>>

(* deletefilelog(3), then the 0.2 s sleep and the next pass.                  *)
DeleteFileLog ==
    /\ Goto("purge", "folder")
    /\ Purge
    /\ UNCHANGED <<today, tick, fd, written, file, lines, dataflag, channel, envVars>>

ConnectStep ==
    \/ Start \/ InisialisasiFolder \/ Gate \/ Ceklog \/ ReadLines \/ TruncateLog
    \/ QueueDeclare \/ BasicPublish \/ ReinitAmqp \/ QueueRedeclare
    \/ BasicRepublish \/ MarkLine \/ Outage \/ Retest \/ DeleteFileLog

-----------------------------------------------------------------------------
(* The collector and the clock, as the directory sees them.                   *)

DirStep == (DatakirimOpen \/ DatakirimWrite \/ Tick) /\ UNCHANGED <<procVars, envVars>>

Next == ConnectStep \/ DirStep \/ Environment

Spec == Init /\ [][Next]_vars

(* The process is scheduled; a stopped broker and a lost uplink come back.    *)
FairSpec ==
    /\ Spec
    /\ WF_vars(ConnectStep)
    /\ WF_vars(BrokerUp)
    /\ WF_vars(InternetUp)

-----------------------------------------------------------------------------
(* Vocabulary of the properties.                                              *)

Elems(s) == {s[i] : i \in DOMAIN s}

Delivered == Elems(backend)

(* The records the gateway still has: in a day file or in memory.             *)
Held == Elems(lines) \cup UNION {Elems(log[d]) : d \in Days}

Sending == pc \in {"declare", "publish", "reinit", "redeclare", "republish", "mark"}
=============================================================================
