--------------------------- MODULE ConnectProofs ----------------------------
(* What holds of connect.py for every number of days, records and faults:     *)
(* its types, and the order of delivery, that is, that OrderInv is inductive, *)
(* with what follows from it.                                                 *)
EXTENDS ConnectProperties, TLAPS

-----------------------------------------------------------------------------
(* Type correctness.  On its own TypeOK is not inductive: the publishing      *)
(* steps take the head of `lines`, so it has to be shown with it that there   *)
(* is a line as long as the process is sending.  The Boolean variables are    *)
(* kept apart from the others: different provers are good at them.            *)

BoolTypeOK ==
    /\ dataflag \in BOOLEAN
    /\ internet \in BOOLEAN
    /\ broker \in BOOLEAN
    /\ queue \in BOOLEAN

DataTypeOK ==
    /\ DirTypeOK
    /\ pc \in Labels
    /\ file \in Days
    /\ lines \in Seq(Nat)
    /\ channel \in {"none", "open", "dead"}
    /\ backend \in Seq(Nat)
    /\ faults \in Nat
    /\ Sending => lines # <<>>

LEMMA TypeSplit == BoolTypeOK /\ DataTypeOK => TypeOK
BY DEF BoolTypeOK, DataTypeOK, TypeOK

LEMMA BoolInit == Init => BoolTypeOK
BY Zenon DEF Init, BoolTypeOK

LEMMA BoolStep == BoolTypeOK /\ [Next]_vars => BoolTypeOK'
<1> SUFFICES ASSUME BoolTypeOK, [Next]_vars PROVE BoolTypeOK'
    OBVIOUS
<1> USE DEF BoolTypeOK, procVars, envVars
<1>1. CASE ConnectStep
    <2>1. CASE Start BY <2>1, Zenon DEF Start
    <2>2. CASE InisialisasiFolder BY <2>2, Zenon DEF InisialisasiFolder
    <2>3. CASE Gate BY <2>3, Zenon DEF Gate
    <2>4. CASE Ceklog BY <2>4, Zenon DEF Ceklog
    <2>5. CASE ReadLines BY <2>5, Zenon DEF ReadLines
    <2>6. CASE TruncateLog BY <2>6, Zenon DEF TruncateLog
    <2>7. CASE QueueDeclare BY <2>7, Zenon DEF QueueDeclare
    <2>8. CASE BasicPublish BY <2>8, Zenon DEF BasicPublish
    <2>9. CASE ReinitAmqp BY <2>9, Zenon DEF ReinitAmqp
    <2>10. CASE QueueRedeclare BY <2>10, Zenon DEF QueueRedeclare
    <2>11. CASE BasicRepublish BY <2>11, Zenon DEF BasicRepublish
    <2>12. CASE MarkLine BY <2>12, Zenon DEF MarkLine
    <2>13. CASE Outage BY <2>13, Zenon DEF Outage
    <2>14. CASE Retest BY <2>14, Zenon DEF Retest
    <2>15. CASE DeleteFileLog BY <2>15, Zenon DEF DeleteFileLog
    <2> QED
        BY <1>1, <2>1, <2>2, <2>3, <2>4, <2>5, <2>6, <2>7, <2>8, <2>9, <2>10,
           <2>11, <2>12, <2>13, <2>14, <2>15 DEF ConnectStep
<1>2. CASE DirStep
    BY <1>2, Zenon DEF DirStep
<1>3. CASE Environment
    <2>1. CASE BrokerDown BY <2>1, Zenon DEF BrokerDown
    <2>2. CASE BrokerUp BY <2>2, Zenon DEF BrokerUp
    <2>3. CASE InternetDown BY <2>3, Zenon DEF InternetDown
    <2>4. CASE InternetUp BY <2>4, Zenon DEF InternetUp
    <2>5. CASE ConnectionLost BY <2>5, Zenon DEF ConnectionLost
    <2>6. CASE QueueDeleted BY <2>6, Zenon DEF QueueDeleted
    <2>7. CASE Crash BY <2>7, Zenon DEF Crash, Forget
    <2>8. CASE Reboot BY <2>8, Zenon DEF Reboot, Forget
    <2>9. CASE CollectorCrash BY <2>9, Zenon DEF CollectorCrash
    <2> QED
        BY <1>3, <2>1, <2>2, <2>3, <2>4, <2>5, <2>6, <2>7, <2>8, <2>9 DEF Environment
<1>4. CASE UNCHANGED vars
    BY <1>4, Zenon DEF vars
<1> QED
    BY <1>1, <1>2, <1>3, <1>4 DEF Next

-----------------------------------------------------------------------------

LEMMA NowType == ASSUME DirTypeOK PROVE Now \in [day : Days, tick : Ticks]
BY DEF DirTypeOK, Now

(* The first instant, which stands for the modification time of no file. *)
LEMMA ZeroType == [day |-> 0, tick |-> 0] \in [day : Days, tick : Ticks]
BY DataDirAssumption DEF Days, Ticks

LEMMA DataInit == Init => DataTypeOK
<1> SUFFICES ASSUME Init PROVE DataTypeOK
    OBVIOUS
<1>1. DirTypeOK
    BY DataDirAssumption, ZeroType DEF Init, DirInit, DirTypeOK, Days, Ticks, NoFile
<1>2. file \in Days
    BY DataDirAssumption DEF Init, Days
<1>3. pc \in Labels /\ ~Sending
    BY DEF Init, Labels, Sending
<1> QED
    BY <1>1, <1>2, <1>3 DEF Init, DataTypeOK

(* The steps of the collector and of the clock. *)
LEMMA DirTypeStep ==
    ASSUME DirTypeOK, DatakirimOpen \/ DatakirimWrite \/ Tick
    PROVE  DirTypeOK'
<1>1. CASE DatakirimOpen
    <2>1. fd' \in Days \cup {NoFile} /\ exists' \in SUBSET Days
        BY <1>1 DEF DatakirimOpen, DirTypeOK
    <2>2. mtime' \in [Days -> [day : Days, tick : Ticks]]
        BY <1>1, NowType DEF DatakirimOpen, DirTypeOK
    <2> QED
        BY <1>1, <2>1, <2>2 DEF DatakirimOpen, DirTypeOK
<1>2. CASE DatakirimWrite
    <2>1. fd \in Days /\ written + 1 \in Nat
        BY <1>2 DEF DatakirimWrite, DirTypeOK
    <2>2. log' \in [Days -> Seq(Nat)]
        BY <1>2, <2>1 DEF DatakirimWrite, DirTypeOK
    <2>3. mtime' \in [Days -> [day : Days, tick : Ticks]]
        BY <1>2, <2>1, NowType DEF DatakirimWrite, DirTypeOK
    <2> QED
        BY <1>2, <2>1, <2>2, <2>3 DEF DatakirimWrite, DirTypeOK
<1>3. CASE Tick
    <2>1. today \in 0 .. MaxDay /\ tick \in 0 .. TicksPerDay - 1
        BY DEF DirTypeOK, Days, Ticks
    <2>2. today' \in 0 .. MaxDay
        BY <1>3, <2>1, DataDirAssumption DEF Tick
    <2>3. tick' \in 0 .. TicksPerDay - 1
        BY <1>3, <2>1, DataDirAssumption DEF Tick
    <2> QED
        BY <1>3, <2>2, <2>3 DEF Tick, DirTypeOK, Days, Ticks
<1> QED
    BY <1>1, <1>2, <1>3

LEMMA DataDirStep == ASSUME DataTypeOK, DirStep PROVE DataTypeOK'
<1>1. DirTypeOK'
    BY DirTypeStep DEF DataTypeOK, DirStep
<1> QED
    BY <1>1 DEF DataTypeOK, DirStep, Sending, procVars, envVars

(* The environment leaves the directory alone, except that a restart of the   *)
(* collector closes its file; it leaves the lines alone or forgets them.      *)
LEMMA DataEnvironment == ASSUME DataTypeOK, Environment PROVE DataTypeOK'
<1> USE DEF DataTypeOK, Sending, dirVars, procVars, Fault, Labels, DirTypeOK
<1>1. CASE BrokerDown BY <1>1 DEF BrokerDown, Broken
<1>2. CASE BrokerUp BY <1>2 DEF BrokerUp
<1>3. CASE InternetDown BY <1>3 DEF InternetDown
<1>4. CASE InternetUp BY <1>4 DEF InternetUp
<1>5. CASE ConnectionLost BY <1>5 DEF ConnectionLost
<1>6. CASE QueueDeleted BY <1>6 DEF QueueDeleted
<1>7. CASE Crash BY <1>7 DEF Crash, Forget
<1>8. CASE Reboot BY <1>8 DEF Reboot, Forget
<1>9. CASE CollectorCrash BY <1>9 DEF CollectorCrash
<1> QED
    BY <1>1, <1>2, <1>3, <1>4, <1>5, <1>6, <1>7, <1>8, <1>9 DEF Environment

(* Whatever comes of a publish, the backend and the channel stay well typed.  *)
LEMMA PublishType ==
    ASSUME DataTypeOK, lines # <<>>,
           Confirmed \/ ConfirmLost \/ Nacked \/ Unroutable \/ NoChannel
    PROVE  /\ backend' \in Seq(Nat)
           /\ channel' \in {"none", "open", "dead"}
           /\ faults' \in Nat
<1> USE DEF DataTypeOK
<1>1. CASE Confirmed BY <1>1 DEF Confirmed, Accept
<1>2. CASE ConfirmLost BY <1>2 DEF ConfirmLost, Accept, Fault
<1>3. CASE Nacked BY <1>3 DEF Nacked, Fault
<1>4. CASE Unroutable BY <1>4 DEF Unroutable
<1>5. CASE NoChannel BY <1>5 DEF NoChannel
<1> QED
    BY <1>1, <1>2, <1>3, <1>4, <1>5

(* The steps of connect.py. *)
LEMMA DataConnectStep == ASSUME DataTypeOK, ConnectStep PROVE DataTypeOK'
<1> USE DEF DataTypeOK, Goto, Labels
<1>1. CASE Start
    BY <1>1 DEF Start, InitAmqp, Sending, dirVars, envVars, DirTypeOK
<1>2. CASE InisialisasiFolder
    BY <1>2 DEF InisialisasiFolder, Sending, dirVars, envVars, DirTypeOK
<1>3. CASE Gate
    BY <1>3 DEF Gate, Sending, dirVars, envVars, DirTypeOK
<1>4. CASE Ceklog
    BY <1>4 DEF Ceklog, Sending, dirVars, envVars, DirTypeOK
<1>5. CASE ReadLines
    BY <1>5 DEF ReadLines, Sending, dirVars, envVars, DirTypeOK
<1>6. CASE TruncateLog
    <2>1. DirTypeOK'
        BY <1>6, NowType DEF TruncateLog, Truncate, DirTypeOK
    <2> QED
        BY <1>6, <2>1 DEF TruncateLog, Sending, envVars
<1>7. CASE QueueDeclare
    BY <1>7 DEF QueueDeclare, Sending, dirVars, DirTypeOK
<1>8. CASE BasicPublish
    <2>1. pc = "publish" /\ pc' \in {"mark", "reinit"} /\ UNCHANGED <<dirVars, file, lines>>
        BY <1>8 DEF BasicPublish
    <2>2. Confirmed \/ ConfirmLost \/ Nacked \/ Unroutable \/ NoChannel
        BY <1>8 DEF BasicPublish
    <2> QED
        BY <2>1, <2>2, PublishType DEF Sending, dirVars, DirTypeOK
<1>9. CASE ReinitAmqp
    BY <1>9 DEF ReinitAmqp, InitAmqp, Sending, dirVars, envVars, DirTypeOK
<1>10. CASE QueueRedeclare
    BY <1>10 DEF QueueRedeclare, Sending, dirVars, DirTypeOK
<1>11. CASE BasicRepublish
    <2>1. pc = "republish" /\ pc' = "mark" /\ UNCHANGED <<dirVars, file, lines>>
        BY <1>11 DEF BasicRepublish
    <2>2. Confirmed \/ ConfirmLost \/ Nacked \/ Unroutable \/ NoChannel
        BY <1>11 DEF BasicRepublish
    <2> QED
        BY <2>1, <2>2, PublishType DEF Sending, dirVars, DirTypeOK
<1>12. CASE MarkLine
    BY <1>12 DEF MarkLine, Sending, dirVars, envVars, DirTypeOK
<1>13. CASE Outage
    BY <1>13 DEF Outage, Sending, dirVars, envVars, DirTypeOK
<1>14. CASE Retest
    BY <1>14 DEF Retest, InitAmqp, Sending, dirVars, envVars, DirTypeOK
<1>15. CASE DeleteFileLog
    <2>1. DirTypeOK'
        BY <1>15, ZeroType DEF DeleteFileLog, Purge, OldFiles, DirTypeOK
    <2> QED
        BY <1>15, <2>1 DEF DeleteFileLog, Sending, envVars
<1> QED
    BY <1>1, <1>2, <1>3, <1>4, <1>5, <1>6, <1>7, <1>8, <1>9, <1>10, <1>11,
       <1>12, <1>13, <1>14, <1>15 DEF ConnectStep

LEMMA DataStep == DataTypeOK /\ [Next]_vars => DataTypeOK'
<1>1. ASSUME DataTypeOK, UNCHANGED vars PROVE DataTypeOK'
    BY <1>1 DEF DataTypeOK, DirTypeOK, Sending, vars, dirVars, procVars, envVars
<1> QED
    BY <1>1, DataDirStep, DataEnvironment, DataConnectStep DEF Next

(* Every reachable state is well typed, and the process never tries to send   *)
(* a line it does not have.                                                   *)
THEOREM TypeCorrect == Spec => []TypeOK
<1>1. Spec => [](BoolTypeOK /\ DataTypeOK)
    BY BoolInit, BoolStep, DataInit, DataStep, PTL DEF Spec
<1> QED
    BY <1>1, TypeSplit, PTL

-----------------------------------------------------------------------------
-----------------------------------------------------------------------------
(* Steps that do not touch the records.                                       *)

(* A step that moves no record, opens no file and does not go back to an      *)
(* earlier attempt keeps the order.                                           *)
LEMMA OrderKept ==
    ASSUME DataTypeOK, OrderInv,
           UNCHANGED <<today, log, lines, backend, written, file>>,
           fd' \in {fd, NoFile},
           pc' = "truncate" => pc = "truncate",
           Sending' => Sending /\ Tries \in Nat /\ Tries' \in Nat /\ Tries <= Tries'
    PROVE  OrderInv'
<1> USE DEF OrderInv
<1>1. DirOrdered'
    BY DEF DirOrdered, Increasing, Before
<1>2. Numbered' /\ UnreadIsNewer' /\ DeliveryOrder' /\ AtMostTwice'
    BY DEF Numbered, UnreadIsNewer, Before, DeliveryOrder, AtMostTwice
<1>3. LinesOrdered'
    BY DEF LinesOrdered, Increasing, Before
<1>4. CurrentIsNewest'
    <2> SUFFICES ASSUME Sending', NEW i \in 1 .. Len(backend')
                 PROVE  /\ backend'[i] <= lines'[1]
                        /\ i + Tries' <= Len(backend') => backend'[i] < lines'[1]
        BY DEF CurrentIsNewest
    <2>1. Len(backend) \in Nat
        BY DEF DataTypeOK
    <2> QED
        BY <2>1 DEF CurrentIsNewest
<1> QED
    BY <1>1, <1>2, <1>3, <1>4

(* A restart of the process forgets its lines, and nothing else.              *)
LEMMA OrderForgotten ==
    ASSUME DataTypeOK, OrderInv,
           UNCHANGED <<today, log, backend, written, file>>,
           fd' \in {fd, NoFile}, pc' = "init", lines' = <<>>
    PROVE  OrderInv'
<1> USE DEF OrderInv
<1>1. DirOrdered'
    BY DEF DirOrdered, Increasing, Before
<1>2. Numbered' /\ UnreadIsNewer' /\ DeliveryOrder' /\ AtMostTwice'
    BY DEF Numbered, UnreadIsNewer, Before, DeliveryOrder, AtMostTwice
<1>3. LinesOrdered'
    BY DEF LinesOrdered, Increasing, Sending
<1>4. CurrentIsNewest'
    BY DEF CurrentIsNewest, Sending
<1> QED
    BY <1>1, <1>2, <1>3, <1>4

LEMMA OrderInit == Init => OrderInv
<1> SUFFICES ASSUME Init PROVE OrderInv
    OBVIOUS
<1>1. DirOrdered
    BY DEF Init, DirInit, DirOrdered, Increasing, Before
<1>2. Numbered /\ DeliveryOrder /\ AtMostTwice
    BY DEF Init, DirInit, Numbered, DeliveryOrder, AtMostTwice
<1>3. UnreadIsNewer
    BY DEF Init, DirInit, UnreadIsNewer, Before
<1>4. LinesOrdered /\ CurrentIsNewest
    BY DEF Init, LinesOrdered, CurrentIsNewest, Increasing, Sending
<1> QED
    BY <1>1, <1>2, <1>3, <1>4 DEF OrderInv

-----------------------------------------------------------------------------
(* The collector and the clock.                                               *)

LEMMA OrderOpen == ASSUME DataTypeOK, OrderInv, DirStep, DatakirimOpen PROVE OrderInv'
<1> USE DEF OrderInv, DirStep, DatakirimOpen, procVars, envVars
<1>0. today \in 0 .. MaxDay /\ MaxDay \in Nat
    BY DataDirAssumption DEF DataTypeOK, DirTypeOK, Days
<1>1. DirOrdered'
    BY <1>0 DEF DirOrdered, Increasing, Before
<1>2. Numbered' /\ UnreadIsNewer' /\ DeliveryOrder' /\ AtMostTwice'
    BY DEF Numbered, UnreadIsNewer, Before, DeliveryOrder, AtMostTwice
<1>3. LinesOrdered' /\ CurrentIsNewest'
    BY DEF LinesOrdered, CurrentIsNewest, Increasing, Before, Sending, Tries
<1> QED
    BY <1>1, <1>2, <1>3

(* A new record is newer than everything, and lands in the last file in use.  *)
LEMMA OrderWrite == ASSUME DataTypeOK, OrderInv, DirStep, DatakirimWrite PROVE OrderInv'
<1> USE DEF OrderInv
<1> DEFINE w == written + 1
<1>0. /\ fd \in Days /\ written \in Nat /\ w \in Nat /\ w > written
      /\ log \in [Days -> Seq(Nat)] /\ lines \in Seq(Nat) /\ backend \in Seq(Nat)
      /\ UNCHANGED <<today, lines, backend, file, pc>>
      /\ written' = w /\ fd' = NoFile
      /\ log' = [log EXCEPT ![fd] = Append(@, w)]
    BY DEF DatakirimWrite, DirStep, procVars, envVars, DataTypeOK, DirTypeOK
<1> HIDE DEF w
<1>1. /\ log'[fd] = Append(log[fd], w)
      /\ Len(log'[fd]) = Len(log[fd]) + 1 /\ Len(log[fd]) \in Nat
      /\ \A i \in 1 .. Len(log[fd]) : log'[fd][i] = log[fd][i] /\ log[fd][i] \in Nat
      /\ log'[fd][Len(log[fd]) + 1] = w
      /\ \A d \in Days : d # fd => log'[d] = log[d]
    BY <1>0
<1>2. \A d \in Days : \A i \in 1 .. Len(log'[d]) :
          log'[d][i] <= w /\ (log'[d][i] = w \/ (i \in 1 .. Len(log[d]) /\ log'[d][i] = log[d][i]))
    <2> TAKE d \in Days
    <2> TAKE i \in 1 .. Len(log'[d])
    <2>1. CASE d = fd
        <3>1. CASE i = Len(log[fd]) + 1 BY <2>1, <3>1, <1>0, <1>1
        <3>2. CASE i \in 1 .. Len(log[fd])
            <4>1. log[fd][i] <= written
                BY <3>2, <1>0 DEF Numbered
            <4> QED
                BY <2>1, <3>2, <4>1, <1>0, <1>1
        <3> QED
            BY <2>1, <3>1, <3>2, <1>1
    <2>2. CASE d # fd
        <3>1. log[d][i] <= written /\ log[d][i] \in Nat
            BY <2>2, <1>0, <1>1 DEF Numbered
        <3> QED
            BY <2>2, <3>1, <1>0, <1>1
    <2> QED
        BY <2>1, <2>2
(* Whatever was before all of a file is before the file with the record.      *)
<1>3. ASSUME NEW s \in Seq(Nat), NEW d \in Days, Before(s, log[d]),
             \A i \in 1 .. Len(s) : s[i] <= written
      PROVE  Before(s, log'[d])
    <2> SUFFICES ASSUME NEW i \in 1 .. Len(s), NEW j \in 1 .. Len(log'[d])
                 PROVE  s[i] < log'[d][j]
        BY DEF Before
    <2>1. s[i] \in Nat /\ s[i] <= written
        BY <1>3
    <2>2. CASE log'[d][j] = w
        BY <2>1, <2>2, <1>0
    <2>3. CASE j \in 1 .. Len(log[d]) /\ log'[d][j] = log[d][j]
        BY <2>3, <1>3 DEF Before
    <2> QED
        BY <1>2, <2>2, <2>3
<1>4. DirOrdered'
    <2>1. \A d \in Days : Increasing(log'[d])
        <3>1. Increasing(log'[fd])
            <4> SUFFICES ASSUME NEW i \in 1 .. Len(log'[fd]), NEW j \in 1 .. Len(log'[fd]), i < j
                         PROVE  log'[fd][i] < log'[fd][j]
                BY DEF Increasing
            <4>1. i \in 1 .. Len(log[fd]) /\ log'[fd][i] = log[fd][i] /\ log[fd][i] <= written
                BY <1>0, <1>1 DEF Numbered
            <4>2. CASE j = Len(log[fd]) + 1
                BY <4>1, <4>2, <1>0, <1>1
            <4>3. CASE j \in 1 .. Len(log[fd])
                BY <4>1, <4>3, <1>0, <1>1 DEF DirOrdered, Increasing
            <4> QED
                BY <4>2, <4>3, <1>1
        <3> QED
            BY <3>1, <1>1 DEF DirOrdered
    <2>2. ASSUME NEW d \in Days, NEW e \in Days, d < e PROVE Before(log'[d], log'[e])
        <3>1. CASE d = fd
            <4>1. log[e] = <<>> /\ e # fd
                BY <2>2, <3>1, <1>0 DEF DirOrdered, Days, NoFile
            <4> QED
                BY <4>1, <1>1 DEF Before
        <3>2. CASE d # fd
            <4>1. log'[d] = log[d] /\ log[d] \in Seq(Nat)
                BY <3>2, <1>0, <1>1
            <4>2. Before(log[d], log[e]) /\ \A i \in 1 .. Len(log[d]) : log[d][i] <= written
                BY <2>2 DEF DirOrdered, Numbered
            <4> QED
                BY <4>1, <4>2, <1>3
        <3> QED
            BY <3>1, <3>2
    <2>3. \A d \in Days : today' < d => log'[d] = <<>>
        BY <1>0, <1>1 DEF DirOrdered, Days, NoFile, DataTypeOK, DirTypeOK
    <2> QED
        BY <2>1, <2>2, <2>3, <1>0 DEF DirOrdered
<1>5. Numbered'
    <2>1. \A i \in 1 .. Len(lines) : lines[i] \in Nat /\ lines[i] <= written
        BY <1>0 DEF Numbered
    <2>2. \A i \in 1 .. Len(backend) : backend[i] \in Nat /\ backend[i] <= written
        BY <1>0 DEF Numbered
    <2>3. \A i \in 1 .. Len(lines) : lines[i] <= w
        BY <2>1, <1>0
    <2>4. \A i \in 1 .. Len(backend) : backend[i] <= w
        BY <2>2, <1>0
    <2> QED
        BY <2>3, <2>4, <1>0, <1>2 DEF Numbered
<1>6. UnreadIsNewer'
    BY <1>0, <1>3 DEF UnreadIsNewer, Numbered
<1>7. LinesOrdered'
    <2>1. \A d \in Days : Before(lines, log[d]) => Before(lines, log'[d])
        BY <1>0, <1>3 DEF Numbered
    <2>2. Increasing(lines)' /\ (pc = "truncate" => Before(backend, lines)')
        BY <1>0 DEF LinesOrdered, Increasing, Before
    <2> QED
        BY <1>0, <2>1, <2>2 DEF LinesOrdered, Sending
<1>8. CurrentIsNewest' /\ DeliveryOrder' /\ AtMostTwice'
    BY <1>0 DEF CurrentIsNewest, DeliveryOrder, AtMostTwice, Sending, Tries
<1> QED
    BY <1>4, <1>5, <1>6, <1>7, <1>8

LEMMA OrderTick == ASSUME DataTypeOK, OrderInv, DirStep, Tick PROVE OrderInv'
<1> USE DEF OrderInv
<1>0. /\ today \in Nat /\ today' \in Nat /\ today <= today' /\ file \in Nat
      /\ fd \in Days \cup {NoFile}
      /\ UNCHANGED <<log, lines, backend, written, file, fd, pc>>
    <2>1. UNCHANGED <<log, lines, backend, written, file, fd, pc>>
        BY DEF DirStep, Tick, procVars, envVars
    <2>2. today \in Nat /\ file \in Nat
        BY DEF DataTypeOK, DirTypeOK, Days
    <2>3. fd \in Days \cup {NoFile}
        BY DEF DataTypeOK, DirTypeOK
    <2>4. today' = today \/ today' = today + 1
        BY DEF Tick
    <2> QED
        BY <2>1, <2>2, <2>3, <2>4
<1>1. DirOrdered'
    <2>1. \A d \in Days : d \in Nat
        BY DEF Days
    <2>2. \A d \in Days : today' < d => log[d] = <<>>
        BY <1>0, <2>1 DEF DirOrdered
    <2>3. fd # NoFile => fd <= today'
        BY <1>0, <2>1 DEF DirOrdered
    <2>4. (\A d \in Days : Increasing(log[d]))'
          /\ (\A d, e \in Days : d < e => Before(log[d], log[e]))'
        BY <1>0 DEF DirOrdered, Increasing, Before
    <2> QED
        BY <1>0, <2>2, <2>3, <2>4 DEF DirOrdered
<1>2. Numbered' /\ UnreadIsNewer' /\ DeliveryOrder' /\ AtMostTwice'
    BY <1>0 DEF Numbered, UnreadIsNewer, Before, DeliveryOrder, AtMostTwice
<1>3. LinesOrdered' /\ CurrentIsNewest'
    BY <1>0 DEF LinesOrdered, CurrentIsNewest, Increasing, Before, Sending, Tries
<1> QED
    BY <1>1, <1>2, <1>3

LEMMA OrderDirStep == ASSUME DataTypeOK, OrderInv, DirStep PROVE OrderInv'
BY OrderOpen, OrderWrite, OrderTick DEF DirStep

LEMMA OrderEnvironment == ASSUME DataTypeOK, OrderInv, Environment PROVE OrderInv'
<1> USE DEF dirVars, procVars
<1>1. CASE Crash BY <1>1, OrderForgotten DEF Crash, Forget
<1>2. CASE Reboot BY <1>2, OrderForgotten DEF Reboot, Forget
<1>3. CASE BrokerDown \/ BrokerUp \/ InternetDown \/ InternetUp \/ ConnectionLost
           \/ QueueDeleted \/ CollectorCrash
    <2>1. /\ UNCHANGED <<today, log, lines, backend, written, file, pc>>
          /\ fd' \in {fd, NoFile}
        BY <1>3 DEF BrokerDown, BrokerUp, InternetDown, InternetUp, ConnectionLost,
                    QueueDeleted, CollectorCrash
    <2>2. Sending' = Sending /\ Tries' = Tries /\ Tries \in Nat
        BY <2>1 DEF Sending, Tries
    <2> QED
        BY <2>1, <2>2, OrderKept
<1> QED
    BY <1>1, <1>2, <1>3 DEF Environment

-----------------------------------------------------------------------------
(* connect.py.                                                                *)

(* The steps that move no record. *)
LEMMA OrderQuietStep ==
    ASSUME DataTypeOK, OrderInv,
           Start \/ Gate \/ Ceklog \/ QueueDeclare \/ ReinitAmqp \/ QueueRedeclare
           \/ Outage \/ Retest
    PROVE  OrderInv'
<1>1. /\ UNCHANGED <<today, log, lines, backend, written, file>>
      /\ fd' \in {fd, NoFile}
    BY DEF Start, Gate, Ceklog, QueueDeclare, ReinitAmqp, QueueRedeclare, Outage,
           Retest, dirVars, envVars
<1>2. /\ pc' = "truncate" => pc = "truncate"
      /\ Sending' => Sending /\ Tries \in Nat /\ Tries' \in Nat /\ Tries <= Tries'
    BY DEF Start, Gate, Ceklog, QueueDeclare, ReinitAmqp, QueueRedeclare, Outage,
           Retest, Goto, Sending, Tries
<1> QED
    BY <1>1, <1>2, OrderKept

(* A new pass looks at the file of today, which is no older than the last.    *)
LEMMA OrderFolder == ASSUME DataTypeOK, OrderInv, InisialisasiFolder PROVE OrderInv'
<1> USE DEF OrderInv, InisialisasiFolder, Goto, dirVars, envVars
<1>1. DirOrdered' /\ Numbered' /\ DeliveryOrder' /\ AtMostTwice'
    BY DEF DirOrdered, Numbered, DeliveryOrder, AtMostTwice, Increasing, Before
<1>2. UnreadIsNewer'
    BY DEF UnreadIsNewer, Before, DataTypeOK, DirTypeOK, Days
<1>3. LinesOrdered' /\ CurrentIsNewest'
    BY DEF LinesOrdered, CurrentIsNewest, Increasing, Sending
<1> QED
    BY <1>1, <1>2, <1>3

(* What is read is in order and newer than what was delivered.                *)
LEMMA OrderRead == ASSUME DataTypeOK, OrderInv, ReadLines PROVE OrderInv'
<1> USE DEF OrderInv, ReadLines, Goto, dirVars, envVars
<1>0. file \in Days
    BY DEF DataTypeOK
<1>1. DirOrdered' /\ UnreadIsNewer' /\ DeliveryOrder' /\ AtMostTwice'
    BY DEF DirOrdered, UnreadIsNewer, DeliveryOrder, AtMostTwice, Increasing, Before
<1>2. Numbered'
    BY <1>0 DEF Numbered
<1>3. LinesOrdered'
    <2>1. Increasing(lines') /\ Before(backend, lines')
        BY <1>0 DEF DirOrdered, UnreadIsNewer, Days
    <2>2. \A d \in Days : file < d => Before(lines', log[d])
        BY <1>0 DEF DirOrdered
    <2> QED
        BY <2>1, <2>2 DEF LinesOrdered, Sending, Increasing, Before
<1>4. CurrentIsNewest'
    BY DEF CurrentIsNewest, Sending
<1> QED
    BY <1>1, <1>2, <1>3, <1>4

(* Emptying files keeps every order there was.                                *)
LEMMA FewerLines ==
    ASSUME DataTypeOK, OrderInv, log' \in [Days -> Seq(Nat)],
           \A d \in Days : log'[d] \in {log[d], <<>>},
           UNCHANGED <<today, fd, written, lines, backend, file>>
    PROVE  DirOrdered' /\ Numbered' /\ UnreadIsNewer' /\ DeliveryOrder' /\ AtMostTwice'
<1> USE DEF OrderInv
<1>1. DirOrdered'
    <2>1. \A d \in Days : Increasing(log'[d])
        BY DEF DirOrdered, Increasing
    <2>2. ASSUME NEW d \in Days, NEW e \in Days, d < e PROVE Before(log'[d], log'[e])
        <3>1. Before(log[d], log[e])
            BY <2>2 DEF DirOrdered
        <3>2. log'[d] \in {log[d], <<>>} /\ log'[e] \in {log[e], <<>>}
            OBVIOUS
        <3> QED
            BY <3>1, <3>2 DEF Before
    <2>3. \A d \in Days : log[d] = <<>> => log'[d] = <<>>
        OBVIOUS
    <2> QED
        BY <2>1, <2>2, <2>3 DEF DirOrdered
<1>2. Numbered'
    BY DEF Numbered
<1>3. UnreadIsNewer' /\ DeliveryOrder' /\ AtMostTwice'
    BY DEF UnreadIsNewer, Before, DeliveryOrder, AtMostTwice
<1> QED
    BY <1>1, <1>2, <1>3

(* After the truncation the lines are in memory only.                         *)
LEMMA OrderTruncate == ASSUME DataTypeOK, OrderInv, TruncateLog PROVE OrderInv'
<1>0. /\ file \in Days /\ lines \in Seq(Nat) /\ backend \in Seq(Nat)
      /\ UNCHANGED <<today, fd, written, lines, backend, file>>
      /\ pc = "truncate" /\ pc' = IF lines = <<>> THEN "outage" ELSE "declare"
    BY DEF TruncateLog, Goto, envVars, DataTypeOK
<1>1. \A d \in Days : log'[d] = IF d = file THEN <<>> ELSE log[d]
    BY <1>0 DEF TruncateLog, Truncate, DataTypeOK, DirTypeOK
<1>2. log' \in [Days -> Seq(Nat)]
    BY DEF TruncateLog, Truncate, DataTypeOK, DirTypeOK
<1>3. DirOrdered' /\ Numbered' /\ UnreadIsNewer' /\ DeliveryOrder' /\ AtMostTwice'
    BY <1>0, <1>1, <1>2, FewerLines
<1>4. LinesOrdered'
    <2>1. Increasing(lines)' /\ pc' # "truncate"
        BY <1>0 DEF OrderInv, LinesOrdered, Increasing
    <2>2. \A d \in Days : file <= d => Before(lines, log'[d])
        BY <1>0, <1>1 DEF OrderInv, LinesOrdered, Before, Days
    <2>3. \A i \in 1 .. Len(backend), j \in 2 .. Len(lines) : backend[i] < lines[j]
        BY <1>0 DEF OrderInv, LinesOrdered, Before
    <2> QED
        BY <1>0, <2>1, <2>2, <2>3 DEF LinesOrdered, Before
<1>5. CurrentIsNewest'
    <2> SUFFICES ASSUME Sending', NEW i \in 1 .. Len(backend)
                 PROVE  backend[i] < lines[1] /\ backend[i] \in Nat /\ lines[1] \in Nat
        BY <1>0 DEF CurrentIsNewest
    <2>1. lines # <<>>
        BY <1>0 DEF Sending
    <2> QED
        BY <1>0, <2>1 DEF OrderInv, LinesOrdered, Before
<1> QED
    BY <1>3, <1>4, <1>5 DEF OrderInv

LEMMA OrderPurge == ASSUME DataTypeOK, OrderInv, DeleteFileLog PROVE OrderInv'
<1>0. /\ UNCHANGED <<today, fd, written, lines, backend, file>>
      /\ pc' = "folder"
    BY DEF DeleteFileLog, Goto, envVars
<1>1. \A d \in Days : log'[d] \in {log[d], <<>>}
    BY DEF DeleteFileLog, Purge
<1>2. log' \in [Days -> Seq(Nat)]
    BY DEF DeleteFileLog, Purge, DataTypeOK, DirTypeOK
<1>3. DirOrdered' /\ Numbered' /\ UnreadIsNewer' /\ DeliveryOrder' /\ AtMostTwice'
    BY <1>0, <1>1, <1>2, FewerLines
<1>4. LinesOrdered' /\ CurrentIsNewest'
    BY <1>0 DEF OrderInv, LinesOrdered, CurrentIsNewest, Increasing, Sending
<1> QED
    BY <1>3, <1>4 DEF OrderInv

(* The broker takes the current line once more: it is newer than all but the  *)
(* copies of itself, and there is one attempt less to come.                   *)
LEMMA OrderAccept ==
    ASSUME DataTypeOK, OrderInv, Accept, UNCHANGED <<dirVars, file, lines>>,
           \/ pc = "publish" /\ pc' \in {"reinit", "mark"}
           \/ pc = "republish" /\ pc' = "mark"
    PROVE  OrderInv'
<1> DEFINE h == lines[1]  n == Len(backend)
<1>0. /\ lines \in Seq(Nat) /\ backend \in Seq(Nat) /\ lines # <<>>
      /\ n \in Nat /\ h \in Nat /\ Len(lines) \in Nat /\ 1 \in 1 .. Len(lines)
    BY DEF DataTypeOK, Sending
<1>1. /\ backend' = Append(backend, h) /\ Len(backend') = n + 1
      /\ \A i \in 1 .. n : backend'[i] = backend[i] /\ backend[i] \in Nat
      /\ backend'[n + 1] = h
    BY <1>0 DEF Accept
<1>2. \A i \in 1 .. Len(backend') : (i \in 1 .. n /\ backend'[i] = backend[i])
                                    \/ (i = n + 1 /\ backend'[i] = h)
    BY <1>0, <1>1
<1>3. Sending /\ Sending' /\ pc # "truncate" /\ pc' # "truncate"
    BY DEF Sending
<1>4. <<Tries, Tries'>> \in {<<0, 1>>, <<0, 2>>, <<1, 2>>}
    <2>1. CASE pc = "publish" /\ pc' = "reinit"
        BY <2>1 DEF Tries
    <2>2. CASE pc = "publish" /\ pc' = "mark"
        BY <2>2 DEF Tries
    <2>3. CASE pc = "republish" /\ pc' = "mark"
        BY <2>3 DEF Tries
    <2> QED
        BY <2>1, <2>2, <2>3
<1>5. \A i \in 1 .. n : backend[i] <= h /\ (i + Tries <= n => backend[i] < h)
    BY <1>3 DEF OrderInv, CurrentIsNewest
<1> HIDE DEF h, n
<1>6. /\ \A i \in 1 .. Len(backend') : backend'[i] <= h
      /\ \A i \in 1 .. Len(backend') : i + Tries' <= Len(backend') => backend'[i] < h
    <2> SUFFICES ASSUME NEW i \in 1 .. Len(backend')
                 PROVE  /\ backend'[i] <= h
                        /\ i + Tries' <= Len(backend') => backend'[i] < h
        OBVIOUS
    <2>1. CASE i \in 1 .. n /\ backend'[i] = backend[i]
        <3>1. i + Tries' <= n + 1 => i + Tries <= n
            BY <2>1, <1>0, <1>4
        <3> QED
            BY <2>1, <3>1, <1>1, <1>5
    <2>2. CASE i = n + 1 /\ backend'[i] = h
        BY <2>2, <1>0, <1>1, <1>4
    <2> QED
        BY <2>1, <2>2, <1>2
<1>7. DirOrdered'
    BY DEF OrderInv, DirOrdered, dirVars, Increasing, Before
<1>8. h <= written /\ written \in Nat
    BY <1>0 DEF OrderInv, Numbered, h, DataTypeOK, DirTypeOK
<1>9. Numbered'
    <2>1. \A i \in 1 .. Len(backend') : backend'[i] <= written
        BY <1>0, <1>2, <1>8, n \in Nat DEF OrderInv, Numbered, n
    <2> QED
        BY <2>1 DEF OrderInv, Numbered, dirVars
<1>10. ASSUME NEW d \in Days, file <= d PROVE Before(backend', log[d])
    <2>1. Before(lines, log[d]) /\ Before(backend, log[d])
        BY <1>3, <1>10 DEF OrderInv, LinesOrdered, UnreadIsNewer
    <2>2. \A j \in 1 .. Len(log[d]) : h < log[d][j]
        BY <1>0, <2>1 DEF Before, h
    <2> QED
        BY <1>2, <2>1, <2>2 DEF Before, n
<1>11. UnreadIsNewer'
    BY <1>10 DEF OrderInv, UnreadIsNewer, dirVars
<1>12. LinesOrdered'
    <2>1. \A j \in 2 .. Len(lines) : h < lines[j]
        BY <1>0 DEF OrderInv, LinesOrdered, Increasing, h
    <2>2. \A i \in 1 .. Len(backend'), j \in 2 .. Len(lines) : backend'[i] < lines[j]
        BY <1>2, <1>3, <2>1 DEF OrderInv, LinesOrdered, n
    <2> QED
        BY <1>3, <2>2 DEF OrderInv, LinesOrdered, dirVars, Increasing, Before
<1>13. CurrentIsNewest'
    BY <1>6 DEF CurrentIsNewest, h
<1>14. DeliveryOrder'
    <2> SUFFICES ASSUME NEW i \in 1 .. Len(backend'), NEW j \in 1 .. Len(backend'), i < j
                 PROVE  backend'[i] <= backend'[j]
        BY DEF DeliveryOrder
    <2>1. i \in 1 .. n /\ backend'[i] = backend[i]
        BY <1>0, <1>1
    <2>2. CASE j \in 1 .. n /\ backend'[j] = backend[j]
        BY <2>1, <2>2 DEF OrderInv, DeliveryOrder, n
    <2>3. CASE backend'[j] = h
        BY <2>1, <2>3, <1>5
    <2> QED
        BY <1>2, <2>2, <2>3
<1>15. AtMostTwice'
    <2> SUFFICES ASSUME NEW i \in 1 .. Len(backend'), i + 2 <= Len(backend')
                 PROVE  backend'[i] < backend'[i + 2]
        BY DEF AtMostTwice
    <2>1. CASE i + 2 = n + 1
        <3>1. i \in 1 .. n /\ i + Tries <= n /\ backend'[i] = backend[i] /\ backend'[i + 2] = h
            BY <2>1, <1>0, <1>1, <1>4
        <3> QED
            BY <3>1, <1>5
    <2>2. CASE i + 2 \in 1 .. n
        <3>1. i \in 1 .. n /\ backend'[i] = backend[i] /\ backend'[i + 2] = backend[i + 2]
            BY <2>2, <1>0, <1>1
        <3> QED
            BY <2>2, <3>1, <1>0 DEF OrderInv, AtMostTwice, n
    <2> QED
        BY <2>1, <2>2, <1>0, <1>1
<1> QED
    BY <1>7, <1>9, <1>11, <1>12, <1>13, <1>14, <1>15 DEF OrderInv

(* A publish that the broker does not take.                                   *)
LEMMA OrderRefused ==
    ASSUME DataTypeOK, OrderInv, UNCHANGED <<dirVars, file, lines, backend>>,
           \/ pc = "publish" /\ pc' \in {"reinit", "mark"}
           \/ pc = "republish" /\ pc' = "mark"
    PROVE  OrderInv'
<1>1. Sending /\ Tries \in Nat /\ Tries' \in Nat /\ Tries <= Tries' /\ pc' # "truncate"
    BY DEF Sending, Tries
<1> QED
    BY <1>1, OrderKept DEF dirVars

LEMMA OrderPublish ==
    ASSUME DataTypeOK, OrderInv, BasicPublish \/ BasicRepublish PROVE OrderInv'
<1>1. /\ UNCHANGED <<dirVars, file, lines>>
      /\ \/ pc = "publish" /\ pc' \in {"reinit", "mark"}
         \/ pc = "republish" /\ pc' = "mark"
    BY DEF BasicPublish, BasicRepublish, Goto
<1>2. Accept \/ UNCHANGED backend
    BY DEF BasicPublish, BasicRepublish, Confirmed, ConfirmLost, Nacked, Unroutable, NoChannel
<1> QED
    BY <1>1, <1>2, OrderAccept, OrderRefused

(* The next line becomes the current one.                                     *)
LEMMA OrderMark == ASSUME DataTypeOK, OrderInv, MarkLine PROVE OrderInv'
<1>0. /\ lines \in Seq(Nat) /\ lines # <<>> /\ Len(lines) \in Nat
      /\ lines' = Tail(lines)
      /\ Len(lines') = Len(lines) - 1
      /\ \A i \in 1 .. Len(lines') : i + 1 \in 2 .. Len(lines) /\ lines'[i] = lines[i + 1]
      /\ UNCHANGED <<dirVars, file, backend>>
      /\ pc = "mark" /\ pc' = IF Tail(lines) = <<>> THEN "outage" ELSE "declare"
    BY DEF MarkLine, Goto, envVars, DataTypeOK, Sending
<1>1. DirOrdered' /\ UnreadIsNewer' /\ DeliveryOrder' /\ AtMostTwice'
    BY <1>0 DEF OrderInv, DirOrdered, UnreadIsNewer, DeliveryOrder, AtMostTwice,
                dirVars, Increasing, Before
<1>2. Numbered'
    BY <1>0 DEF OrderInv, Numbered, dirVars
<1>3. Sending /\ pc' # "truncate"
    BY <1>0 DEF Sending
<1>4. \A i \in 1 .. Len(backend), j \in 1 .. Len(lines') : backend[i] < lines'[j]
    BY <1>0, <1>3 DEF OrderInv, LinesOrdered
<1>5. LinesOrdered'
    <2>1. Increasing(lines')
        <3> SUFFICES ASSUME NEW i \in 1 .. Len(lines'), NEW j \in 1 .. Len(lines'), i < j
                     PROVE  lines'[i] < lines'[j]
            BY DEF Increasing
        <3>1. i + 1 \in 1 .. Len(lines) /\ j + 1 \in 1 .. Len(lines) /\ i + 1 < j + 1
            BY <1>0
        <3>2. lines[i + 1] < lines[j + 1]
            BY <3>1 DEF OrderInv, LinesOrdered, Increasing
        <3> QED
            BY <1>0, <3>2
    <2>2. \A d \in Days : file <= d => Before(lines', log[d])
        BY <1>0, <1>3 DEF OrderInv, LinesOrdered, Before
    <2> QED
        BY <1>0, <1>3, <1>4, <2>1, <2>2 DEF LinesOrdered, dirVars, Before
<1>6. CurrentIsNewest'
    <2>0. backend' = backend /\ backend \in Seq(Nat) /\ lines' \in Seq(Nat)
        BY <1>0 DEF DataTypeOK
    <2>1. ASSUME Sending', NEW i \in 1 .. Len(backend)
          PROVE  backend[i] < lines'[1] /\ backend[i] \in Nat /\ lines'[1] \in Nat
        <3>1. lines' # <<>>
            BY <2>1, <1>0 DEF Sending
        <3>2. 1 \in 1 .. Len(lines')
            BY <3>1, <2>0
        <3> QED
            BY <2>0, <3>2, <1>4
    <2> QED
        BY <2>0, <2>1 DEF CurrentIsNewest
<1> QED
    BY <1>1, <1>2, <1>5, <1>6 DEF OrderInv

LEMMA OrderConnectStep == ASSUME DataTypeOK, OrderInv, ConnectStep PROVE OrderInv'
BY OrderQuietStep, OrderFolder, OrderRead, OrderTruncate, OrderPublish, OrderMark,
   OrderPurge DEF ConnectStep

LEMMA OrderStep == DataTypeOK /\ OrderInv /\ [Next]_vars => OrderInv'
<1>1. ASSUME DataTypeOK, OrderInv, UNCHANGED vars PROVE OrderInv'
    <2>1. /\ UNCHANGED <<today, log, lines, backend, written, file, fd, pc>>
          /\ Sending' = Sending /\ Tries' = Tries /\ Tries \in Nat
        BY <1>1 DEF vars, dirVars, procVars, envVars, Sending, Tries
    <2> QED
        BY <1>1, <2>1, OrderKept
<1> QED
    BY <1>1, OrderDirStep, OrderEnvironment, OrderConnectStep DEF Next

-----------------------------------------------------------------------------

(* OrderInv holds of every reachable state.                                   *)
THEOREM OrderInvariant == Spec => []OrderInv
<1>1. Spec => []DataTypeOK
    BY DataInit, DataStep, PTL DEF Spec
<1> QED
    BY <1>1, OrderInit, OrderStep, PTL DEF Spec

(* The backend receives the records in the order in which they were written.  *)
THEOREM OrderOfDelivery == Spec => []DeliveryOrder
<1>1. OrderInv => DeliveryOrder
    BY DEF OrderInv
<1> QED
    BY <1>1, OrderInvariant, PTL

(* No record reaches the backend three times.                                 *)
THEOREM DeliveredAtMostTwice == Spec => []AtMostTwice
<1>1. OrderInv => AtMostTwice
    BY DEF OrderInv
<1> QED
    BY <1>1, OrderInvariant, PTL

(* Nothing the backend has can be read again or is waiting to be sent.        *)
THEOREM NoResend == Spec => []NothingSentWaitsAgain
<1>1. ASSUME DataTypeOK, OrderInv PROVE NothingSentWaitsAgain
    <2>1. ASSUME NEW d \in Days, d >= file PROVE Elems(log[d]) \cap Delivered = {}
        <3>1. log[d] \in Seq(Nat) /\ backend \in Seq(Nat) /\ Before(backend, log[d])
            BY <1>1, <2>1 DEF DataTypeOK, DirTypeOK, OrderInv, UnreadIsNewer, Days
        <3>2. ASSUME NEW j \in DOMAIN log[d], NEW i \in DOMAIN backend
              PROVE  log[d][j] # backend[i]
            BY <3>1 DEF Before
        <3> QED
            BY <3>2, Zenon DEF Elems, Delivered
    <2>2. ASSUME Sending PROVE Elems(Tail(lines)) \cap Delivered = {}
        <3>1. lines \in Seq(Nat) /\ lines # <<>> /\ backend \in Seq(Nat)
            BY <1>1, <2>2 DEF DataTypeOK
        <3>2. \A j \in DOMAIN Tail(lines) : j + 1 \in 2 .. Len(lines)
              /\ Tail(lines)[j] = lines[j + 1]
            BY <3>1
        <3>3. \A i \in 1 .. Len(backend), j \in 2 .. Len(lines) : backend[i] < lines[j]
            BY <1>1, <2>2 DEF OrderInv, LinesOrdered
        <3>4. ASSUME NEW j \in DOMAIN Tail(lines), NEW i \in DOMAIN backend
              PROVE  Tail(lines)[j] # backend[i]
            <4>1. i \in 1 .. Len(backend) /\ j + 1 \in 2 .. Len(lines)
                BY <3>1, <3>2, <3>4
            <4>2. backend[i] < lines[j + 1] /\ backend[i] \in Nat /\ lines[j + 1] \in Nat
                BY <3>1, <3>3, <4>1
            <4> QED
                BY <3>2, <3>4, <4>2
        <3> QED
            BY <3>4, Zenon DEF Elems, Delivered
    <2> QED
        BY <2>1, <2>2 DEF NothingSentWaitsAgain
<1>2. Spec => []DataTypeOK
    BY DataInit, DataStep, PTL DEF Spec
<1> QED
    BY <1>1, <1>2, OrderInvariant, PTL
=============================================================================
