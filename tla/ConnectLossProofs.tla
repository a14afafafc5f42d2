------------------------- MODULE ConnectLossProofs --------------------------
(* What the connector loses and repeats, for every number of days, records and *)
(* faults: that connect.py, the day files and the broker's queue together     *)
(* implement the lossy first-in first-out pipe of LossyFifo, whose content is *)
(* what the gateway holds in its day files and in memory and whose output is  *)
(* what the broker has taken; that the success flag speaks of the line just   *)
(* tried and every duplicate is paid for by a fault; and that the four causes *)
(* of LossHasACause are all there are for a record to disappear.  Then the    *)
(* same of the three containers together, and that an outage costs the lines  *)
(* in memory at its first reboot and nothing more.                            *)
EXTENDS Gateway, ConnectProofs, FiniteSetTheorems

-----------------------------------------------------------------------------
(* What the pipe holds.                                                       *)

LEMMA ElemsOfAppend ==
    ASSUME NEW s \in Seq(Nat), NEW r \in Nat
    PROVE  Elems(Append(s, r)) = Elems(s) \cup {r}
<1>1. /\ DOMAIN Append(s, r) = DOMAIN s \cup {Len(s) + 1}
      /\ \A i \in DOMAIN s : Append(s, r)[i] = s[i]
      /\ Append(s, r)[Len(s) + 1] = r
    OBVIOUS
<1> QED
    BY <1>1, Zenon DEF Elems

LEMMA ElemsOfTail ==
    ASSUME NEW s \in Seq(Nat), s # <<>>
    PROVE  Elems(Tail(s)) \subseteq Elems(s) /\ Elems(s) \subseteq Elems(Tail(s)) \cup {Head(s)}
<1>1. ASSUME NEW j \in DOMAIN Tail(s) PROVE \E i \in DOMAIN s : s[i] = Tail(s)[j]
    <2>1. j + 1 \in DOMAIN s /\ Tail(s)[j] = s[j + 1]
        OBVIOUS
    <2> QED
        BY <2>1
<1>2. ASSUME NEW i \in DOMAIN s, s[i] # Head(s) PROVE \E j \in DOMAIN Tail(s) : Tail(s)[j] = s[i]
    <2>1. i - 1 \in DOMAIN Tail(s) /\ Tail(s)[i - 1] = s[i]
        BY <1>2
    <2> QED
        BY <2>1
<1>3. Elems(Tail(s)) \subseteq Elems(s)
    BY <1>1, Zenon DEF Elems
<1>4. Elems(s) \subseteq Elems(Tail(s)) \cup {Head(s)}
    BY <1>2, Zenon DEF Elems
<1> QED
    BY <1>3, <1>4

LEMMA EmptyHoldsNothing == Elems(<<>>) = {}
BY DEF Elems

(* A step that puts nothing new in memory or in a file only lets records go.  *)
LEMMA NothingNew ==
    ASSUME Elems(lines') \subseteq Held,
           \A d \in Days : Elems(log'[d]) \subseteq Elems(log[d]),
           UNCHANGED <<written, backend>>
    PROVE  Fifo!Drop
<1>1. Held' \subseteq Held
    BY Zenon DEF Held
<1> QED
    BY <1>1 DEF Fifo!Drop

(* A step that leaves the records alone is one in which none goes.            *)
LEMMA RecordsAlone ==
    ASSUME UNCHANGED <<lines, log, written, backend>>
    PROVE  UNCHANGED <<written, Held, backend>>
BY DEF Held

-----------------------------------------------------------------------------

LEMMA RefinesInit == Init => Fifo!Init
<1> SUFFICES ASSUME Init PROVE Fifo!Init
    OBVIOUS
<1>1. lines = <<>> /\ \A d \in Days : log[d] = <<>>
    BY DEF Init, DirInit
<1>2. Held = {}
    BY <1>1, EmptyHoldsNothing, Zenon DEF Held
<1> QED
    BY <1>2 DEF Init, DirInit, Fifo!Init

(* The collector's write is the pipe's.                                       *)
LEMMA RefinesWrite == ASSUME DataTypeOK, DirStep, DatakirimWrite PROVE Fifo!Write
<1>1. /\ fd \in Days /\ written \in Nat /\ log \in [Days -> Seq(Nat)]
      /\ written' = written + 1 /\ UNCHANGED <<lines, backend>>
      /\ log' = [log EXCEPT ![fd] = Append(@, written + 1)]
    BY DEF DirStep, DatakirimWrite, procVars, envVars, DataTypeOK, DirTypeOK
<1>2. /\ Elems(log'[fd]) = Elems(log[fd]) \cup {written + 1}
      /\ \A d \in Days : d # fd => log'[d] = log[d]
    BY <1>1, ElemsOfAppend
<1>3. Held' = Held \cup {written + 1}
    BY <1>1, <1>2, Zenon DEF Held
<1> QED
    BY <1>1, <1>3 DEF Fifo!Write

(* A message the broker takes is a record the pipe holds, none older comes    *)
(* after it, and it was out at most once before.                              *)
LEMMA RefinesAccept ==
    ASSUME DataTypeOK, OrderInv, Accept, UNCHANGED <<dirVars, lines>>,
           pc \in {"publish", "republish"}
    PROVE  \E r \in Held : Fifo!Send(r)
<1>1. /\ Sending /\ lines \in Seq(Nat) /\ lines # <<>> /\ backend \in Seq(Nat)
      /\ Tries \in 0 .. 1
    BY DEF Sending, DataTypeOK, Tries
<1>2. /\ Head(lines) = lines[1] /\ 1 \in DOMAIN lines
    BY <1>1
<1>3. Head(lines) \in Held
    BY <1>2, Zenon DEF Held, Elems
<1>4. \A i \in 1 .. Len(backend) :
          /\ backend[i] <= Head(lines)
          /\ i + Tries <= Len(backend) => backend[i] < Head(lines)
    BY <1>1, <1>2 DEF OrderInv, CurrentIsNewest
<1>5. \A i \in 1 .. Len(backend) - 1 : i \in 1 .. Len(backend) /\ i + Tries <= Len(backend)
    BY <1>1
<1>6. backend' = Append(backend, Head(lines)) /\ UNCHANGED <<written, Held>>
    BY DEF Accept, Held, dirVars
<1>7. Fifo!Send(Head(lines))
    BY <1>4, <1>5, <1>6 DEF Fifo!Send
<1> QED
    BY <1>3, <1>7

LEMMA RefinesPublish ==
    ASSUME DataTypeOK, OrderInv, BasicPublish \/ BasicRepublish
    PROVE  (\E r \in Held : Fifo!Send(r)) \/ UNCHANGED <<written, Held, backend>>
<1>1. UNCHANGED <<dirVars, lines>> /\ pc \in {"publish", "republish"}
    BY DEF BasicPublish, BasicRepublish, Goto
<1>2. Accept \/ UNCHANGED backend
    BY DEF BasicPublish, BasicRepublish, Confirmed, ConfirmLost, Nacked, Unroutable, NoChannel
<1>3. CASE Accept
    BY <1>1, <1>3, RefinesAccept
<1>4. CASE UNCHANGED backend
    BY <1>1, <1>4, RecordsAlone DEF dirVars
<1> QED
    BY <1>2, <1>3, <1>4

(* Reading the file copies what the pipe holds; emptying it, going on to the  *)
(* next line and the purge let records go.                                    *)
LEMMA RefinesLetGo ==
    ASSUME DataTypeOK, ReadLines \/ TruncateLog \/ MarkLine \/ DeleteFileLog
    PROVE  Fifo!Drop
<1>0. file \in Days /\ lines \in Seq(Nat) /\ log \in [Days -> Seq(Nat)]
    BY DEF DataTypeOK, DirTypeOK
<1>1. CASE ReadLines
    <2>1. lines' = log[file] /\ UNCHANGED <<log, written, backend>>
        BY <1>1 DEF ReadLines, dirVars, envVars
    <2>2. Elems(lines') \subseteq Held
        BY <1>0, <2>1, Zenon DEF Held
    <2> QED
        BY <2>1, <2>2, NothingNew
<1>2. CASE TruncateLog
    <2>1. UNCHANGED <<lines, written, backend>> /\ \A d \in Days : log'[d] \in {log[d], <<>>}
        BY <1>0, <1>2 DEF TruncateLog, Truncate, envVars
    <2> QED
        BY <2>1, EmptyHoldsNothing, NothingNew DEF Held
<1>3. CASE MarkLine
    <2>1. lines # <<>> /\ lines' = Tail(lines) /\ UNCHANGED <<log, written, backend>>
        BY <1>3 DEF MarkLine, Goto, dirVars, envVars, DataTypeOK, Sending
    <2>2. Elems(lines') \subseteq Held
        BY <1>0, <2>1, ElemsOfTail DEF Held
    <2> QED
        BY <2>1, <2>2, NothingNew
<1>4. CASE DeleteFileLog
    <2>1. UNCHANGED <<lines, written, backend>> /\ \A d \in Days : log'[d] \in {log[d], <<>>}
        BY <1>0, <1>4 DEF DeleteFileLog, Purge, envVars
    <2> QED
        BY <2>1, EmptyHoldsNothing, NothingNew DEF Held
<1> QED
    BY <1>1, <1>2, <1>3, <1>4

(* The other statements of connect.py look and decide.                        *)
LEMMA RefinesDecide ==
    ASSUME Start \/ InisialisasiFolder \/ Gate \/ Ceklog \/ QueueDeclare \/ ReinitAmqp
           \/ QueueRedeclare \/ Outage \/ Retest
    PROVE  UNCHANGED <<written, Held, backend>>
<1>1. UNCHANGED <<lines, log, written, backend>>
    BY DEF Start, InisialisasiFolder, Gate, Ceklog, QueueDeclare, ReinitAmqp,
           QueueRedeclare, Outage, Retest, dirVars, envVars
<1> QED
    BY <1>1, RecordsAlone

(* What the environment does loses what is in memory, or nothing.             *)
LEMMA RefinesEnvironment == ASSUME Environment PROVE Fifo!Drop
<1>1. UNCHANGED <<log, written, backend>> /\ (lines' = lines \/ lines' = <<>>)
    BY DEF Environment, BrokerDown, BrokerUp, InternetDown, InternetUp, ConnectionLost,
           QueueDeleted, Crash, Reboot, CollectorCrash, Forget, dirVars, procVars
<1>2. Elems(lines') \subseteq Held
    BY <1>1, EmptyHoldsNothing DEF Held
<1> QED
    BY <1>1, <1>2, NothingNew

LEMMA RefinesDirStep ==
    ASSUME DataTypeOK, DirStep
    PROVE  Fifo!Write \/ UNCHANGED <<written, Held, backend>>
<1>1. CASE DatakirimWrite
    BY <1>1, RefinesWrite
<1>2. CASE DatakirimOpen \/ Tick
    <2>1. UNCHANGED <<lines, log, written, backend>>
        BY <1>2 DEF DirStep, DatakirimOpen, Tick, procVars, envVars
    <2> QED
        BY <2>1, RecordsAlone
<1> QED
    BY <1>1, <1>2 DEF DirStep

LEMMA RefinesStep ==
    DataTypeOK /\ OrderInv /\ [Next]_vars => [Fifo!Next]_<<written, Held, backend>>
<1> SUFFICES ASSUME DataTypeOK, OrderInv, [Next]_vars
             PROVE  Fifo!Next \/ UNCHANGED <<written, Held, backend>>
    OBVIOUS
<1> USE DEF Fifo!Next
<1>1. CASE UNCHANGED vars
    BY <1>1, RecordsAlone DEF vars, dirVars, procVars, envVars
<1>2. CASE DirStep
    BY <1>2, RefinesDirStep
<1>3. CASE Environment
    BY <1>3, RefinesEnvironment
<1>4. CASE ConnectStep
    BY <1>4, RefinesDecide, RefinesLetGo, RefinesPublish DEF ConnectStep
<1> QED
    BY <1>1, <1>2, <1>3, <1>4 DEF Next

-----------------------------------------------------------------------------

(* The gateway's sending side is a lossy first-in first-out pipe: every step  *)
(* of connect.py, of the collector's append and of the environment is a       *)
(* write, a send or a loss of LossyFifo, or changes nothing it can see.       *)
THEOREM RefinesLossyFifo == Spec => ImplementsLossyFifo
<1>1. Spec => []DataTypeOK
    BY DataInit, DataStep, PTL DEF Spec
<1> QED
    BY <1>1, OrderInvariant, RefinesInit, RefinesStep, PTL
       DEF Spec, ImplementsLossyFifo, Fifo!Spec

-----------------------------------------------------------------------------
-----------------------------------------------------------------------------
(* The inductive invariant.  A duplicate is made by the second publish, and   *)
(* the fault that pays for it happens before: the first publish was taken but *)
(* not confirmed.  Until the second publish that fault is still unspent.      *)

Repeats == {i \in 2 .. Len(backend) : backend[i] = backend[i - 1]}

LastTaken(r) == backend # <<>> /\ backend[Len(backend)] = r

Retrying == pc \in {"reinit", "redeclare", "republish"}

FlagFresh == dataflag => pc = "mark" /\ LastTaken(lines[1])

RepeatsPaid ==
    /\ Cardinality(Repeats) <= faults
    /\ Retrying /\ LastTaken(lines[1]) => Cardinality(Repeats) < faults

-----------------------------------------------------------------------------

LEMMA RepeatsFinite ==
    ASSUME backend \in Seq(Nat)
    PROVE  IsFiniteSet(Repeats) /\ Cardinality(Repeats) \in Nat
<1>1. IsFiniteSet(2 .. Len(backend))
    BY FS_Interval
<1>2. IsFiniteSet(Repeats)
    BY <1>1, FS_Subset DEF Repeats
<1> QED
    BY <1>2, FS_CardinalityType

(* Taking a message makes at most one more repeat, and only if the message is *)
(* the one taken last.                                                        *)
LEMMA OneMoreRepeat ==
    ASSUME backend \in Seq(Nat), NEW r \in Nat, backend' = Append(backend, r)
    PROVE  /\ Cardinality(Repeats') <= Cardinality(Repeats) + 1
           /\ ~LastTaken(r) => Repeats' = Repeats
<1> DEFINE n == Len(backend)
<1>1. /\ n \in Nat /\ Len(backend') = n + 1 /\ backend'[n + 1] = r
      /\ \A i \in 1 .. n : backend'[i] = backend[i]
    OBVIOUS
<1>2. \A i \in 2 .. n : i - 1 \in 1 .. n /\ i \in 1 .. n
    OBVIOUS
<1>3. \A i \in 2 .. n + 1 : i \in 2 .. n \/ i = n + 1
    BY <1>1
<1>4. Repeats' \subseteq Repeats \cup {n + 1} /\ Repeats \subseteq Repeats'
    BY <1>1, <1>2, <1>3 DEF Repeats
<1>5. ASSUME ~LastTaken(r) PROVE n + 1 \notin Repeats'
    <2>1. CASE n = 0
        BY <2>1, <1>1 DEF Repeats
    <2>2. CASE n # 0
        <3>1. backend'[n + 1] = r /\ backend'[n] = backend[n] /\ backend[n] # r
            BY <1>1, <1>5, <2>2 DEF LastTaken
        <3> QED
            BY <3>1, <1>1 DEF Repeats
    <2> QED
        BY <2>1, <2>2
<1>6. IsFiniteSet(Repeats) /\ Cardinality(Repeats) \in Nat
    BY RepeatsFinite
<1> HIDE DEF n
<1>7. /\ IsFiniteSet(Repeats \cup {n + 1})
      /\ Cardinality(Repeats \cup {n + 1}) \in {Cardinality(Repeats), Cardinality(Repeats) + 1}
    BY <1>6, FS_AddElement
<1>8. IsFiniteSet(Repeats') /\ Cardinality(Repeats') <= Cardinality(Repeats \cup {n + 1})
    BY <1>4, <1>7, FS_Subset
<1>9. Cardinality(Repeats') \in Nat
    BY <1>8, FS_CardinalityType
<1>10. Cardinality(Repeats') <= Cardinality(Repeats) + 1
    BY <1>6, <1>7, <1>8, <1>9
<1>11. ~LastTaken(r) => Repeats' = Repeats
    BY <1>4, <1>5, Zenon
<1> QED
    BY <1>10, <1>11

(* Where the broker has nothing of the current line yet.                      *)
LEMMA NotYetTaken ==
    ASSUME DataTypeOK, OrderInv, pc \in {"declare", "publish"}
    PROVE  ~LastTaken(lines[1])
<1>1. Sending /\ Tries = 0 /\ backend \in Seq(Nat) /\ lines \in Seq(Nat) /\ lines # <<>>
    BY DEF Sending, Tries, DataTypeOK
<1>2. ASSUME backend # <<>> PROVE backend[Len(backend)] < lines[1]
    BY <1>1, <1>2 DEF OrderInv, CurrentIsNewest
<1> QED
    BY <1>1, <1>2 DEF LastTaken

-----------------------------------------------------------------------------
(* The flag.                                                                  *)

LEMMA FlagInit == Init => FlagFresh
BY Zenon DEF Init, FlagFresh

LEMMA FlagAccept ==
    ASSUME DataTypeOK, Sending, Accept, UNCHANGED lines
    PROVE  LastTaken(lines[1])'
<1>1. lines \in Seq(Nat) /\ lines # <<>> /\ backend \in Seq(Nat)
    BY DEF DataTypeOK
<1>2. backend' = Append(backend, lines[1])
    BY <1>1 DEF Accept
<1> QED
    BY <1>1, <1>2 DEF LastTaken

LEMMA FlagStep == DataTypeOK /\ FlagFresh /\ [Next]_vars => FlagFresh'
<1> SUFFICES ASSUME DataTypeOK, FlagFresh, [Next]_vars PROVE FlagFresh'
    OBVIOUS
<1>1. ASSUME dataflag' = dataflag, pc' = pc, UNCHANGED <<lines, backend>> PROVE FlagFresh'
    BY <1>1, Zenon DEF FlagFresh, LastTaken
<1>2. ASSUME dataflag' = FALSE PROVE FlagFresh'
    BY <1>2, Zenon DEF FlagFresh
<1>3. ASSUME dataflag' = dataflag, pc # "mark" PROVE FlagFresh'
    BY <1>3, Zenon DEF FlagFresh
<1>4. ASSUME pc' = "mark", LastTaken(lines[1])' PROVE FlagFresh'
    BY <1>4, Zenon DEF FlagFresh
<1>5. CASE UNCHANGED vars
    BY <1>1, <1>5, Zenon DEF vars, procVars, envVars
<1>6. CASE DirStep
    BY <1>1, <1>6, Zenon DEF DirStep, procVars, envVars
<1>7. CASE Environment
    <2>1. CASE Crash \/ Reboot
        BY <1>2, <2>1, Zenon DEF Crash, Reboot, Forget
    <2>2. CASE BrokerDown \/ BrokerUp \/ InternetDown \/ InternetUp \/ ConnectionLost
               \/ QueueDeleted \/ CollectorCrash
        <3>1. dataflag' = dataflag /\ pc' = pc /\ lines' = lines /\ backend' = backend
            BY <2>2, Zenon DEF BrokerDown, BrokerUp, InternetDown, InternetUp, ConnectionLost,
                               QueueDeleted, CollectorCrash, procVars
        <3> QED
            BY <1>1, <3>1
    <2> QED
        BY <1>7, <2>1, <2>2 DEF Environment
<1>8. CASE ConnectStep
    <2>1. CASE Start \/ MarkLine
        BY <1>2, <2>1, Zenon DEF Start, MarkLine
    <2>2. CASE InisialisasiFolder \/ Gate \/ Ceklog \/ ReadLines \/ TruncateLog \/ QueueDeclare
               \/ ReinitAmqp \/ QueueRedeclare \/ Outage \/ Retest \/ DeleteFileLog
        <3>1. dataflag' = dataflag
            BY <2>2, Zenon DEF InisialisasiFolder, Gate, Ceklog, ReadLines, TruncateLog,
                 QueueDeclare, ReinitAmqp, QueueRedeclare, Outage, Retest, DeleteFileLog
        <3>2. pc # "mark"
            BY <2>2 DEF InisialisasiFolder, Gate, Ceklog, ReadLines, TruncateLog, QueueDeclare,
                 ReinitAmqp, QueueRedeclare, Outage, Retest, DeleteFileLog, Goto
        <3> QED
            BY <1>3, <3>1, <3>2
    <2>3. CASE BasicPublish \/ BasicRepublish
        <3>1. Sending /\ pc # "mark" /\ UNCHANGED lines
            BY <2>3 DEF BasicPublish, BasicRepublish, Goto, Sending
        <3>2. \/ dataflag' = FALSE \/ dataflag' = dataflag
              \/ Accept /\ pc' = "mark"
            BY <2>3, Zenon DEF BasicPublish, BasicRepublish, Goto, Confirmed
        <3> QED
            BY <1>2, <1>3, <1>4, <3>1, <3>2, FlagAccept
    <2> QED
        BY <1>8, <2>1, <2>2, <2>3 DEF ConnectStep
<1> QED
    BY <1>5, <1>6, <1>7, <1>8 DEF Next

-----------------------------------------------------------------------------
(* The duplicates.                                                            *)

LEMMA RepeatsInit == Init => RepeatsPaid
<1> SUFFICES ASSUME Init PROVE RepeatsPaid
    OBVIOUS
<1>1. Repeats = {} /\ faults = 0 /\ ~Retrying
    BY DEF Init, Repeats, Retrying
<1> QED
    BY <1>1, FS_EmptySet DEF RepeatsPaid

(* A step that takes no message, and begins a retry only where the broker has *)
(* nothing of the line.                                                       *)
LEMMA RepeatsKept ==
    ASSUME DataTypeOK, RepeatsPaid, UNCHANGED backend, faults' \in {faults, faults + 1},
           Retrying' => UNCHANGED lines /\ (Retrying \/ ~LastTaken(lines[1]))
    PROVE  RepeatsPaid'
<1>1. Cardinality(Repeats) \in Nat /\ faults \in Nat /\ Repeats' = Repeats
    BY RepeatsFinite DEF DataTypeOK, Repeats
<1>2. Cardinality(Repeats') = Cardinality(Repeats)
    BY <1>1
<1> QED
    BY <1>1, <1>2 DEF RepeatsPaid, LastTaken

LEMMA RepeatsPublish ==
    ASSUME DataTypeOK, OrderInv, RepeatsPaid, BasicPublish \/ BasicRepublish
    PROVE  RepeatsPaid'
<1>0. /\ Sending /\ UNCHANGED lines /\ lines[1] \in Nat /\ Head(lines) = lines[1]
      /\ backend \in Seq(Nat) /\ faults \in Nat
      /\ faults' \in {faults, faults + 1}
      /\ Cardinality(Repeats) \in Nat
    <2>1. Sending /\ UNCHANGED lines /\ lines \in Seq(Nat) /\ lines # <<>>
        BY DEF BasicPublish, BasicRepublish, Goto, Sending, DataTypeOK
    <2>2. backend \in Seq(Nat) /\ faults \in Nat
        BY DEF DataTypeOK
    <2>3. faults' \in {faults, faults + 1}
        BY DEF BasicPublish, BasicRepublish, Confirmed, ConfirmLost, Nacked, Unroutable,
               NoChannel, Fault
    <2> QED
        BY <2>1, <2>2, <2>3, RepeatsFinite
<1>1. CASE UNCHANGED backend
    <2>1. Retrying' => ~LastTaken(lines[1])
        BY NotYetTaken DEF BasicPublish, BasicRepublish, Goto, Retrying
    <2> QED
        BY <1>0, <1>1, <2>1, RepeatsKept
<1>2. CASE Accept /\ pc = "publish"
    <2>1. ~LastTaken(lines[1]) /\ backend' = Append(backend, lines[1])
        BY <1>0, <1>2, NotYetTaken DEF Accept
    <2>2. Repeats' = Repeats
        BY <1>0, <2>1, OneMoreRepeat
    <2>3. Retrying' => faults' = faults + 1
        BY <1>0, <1>2, <2>1 DEF BasicPublish, BasicRepublish, Goto, Retrying, ConfirmLost, Nacked,
                    NoChannel, Accept, Fault
    <2>4. Cardinality(Repeats') = Cardinality(Repeats)
        BY <2>2
    <2> QED
        BY <1>0, <2>3, <2>4 DEF RepeatsPaid
<1>3. CASE Accept /\ pc = "republish"
    <2>1. Retrying /\ ~Retrying' /\ backend' = Append(backend, lines[1])
        BY <1>0, <1>3 DEF BasicPublish, BasicRepublish, Goto, Retrying, Accept
    <2>2. backend' \in Seq(Nat)
        BY <1>0, <2>1
    <2>3. Cardinality(Repeats') \in Nat
        <3>1. IsFiniteSet(2 .. Len(backend'))
            BY <2>2, FS_Interval
        <3>2. Repeats' \subseteq 2 .. Len(backend')
            BY DEF Repeats
        <3> QED
            BY <3>1, <3>2, FS_Subset, FS_CardinalityType
    <2>4. CASE LastTaken(lines[1])
        <3>1. Cardinality(Repeats) < faults /\ Cardinality(Repeats') <= Cardinality(Repeats) + 1
            BY <1>0, <2>1, <2>4, OneMoreRepeat DEF RepeatsPaid
        <3> QED
            BY <1>0, <2>1, <2>3, <3>1 DEF RepeatsPaid
    <2>5. CASE ~LastTaken(lines[1])
        <3>1. Repeats' = Repeats
            BY <1>0, <2>1, <2>5, OneMoreRepeat
        <3>2. Cardinality(Repeats') = Cardinality(Repeats)
            BY <3>1
        <3> QED
            BY <1>0, <2>1, <3>2 DEF RepeatsPaid
    <2> QED
        BY <2>4, <2>5
<1>4. (UNCHANGED backend \/ Accept) /\ pc \in {"publish", "republish"}
    BY DEF BasicPublish, BasicRepublish, Goto, Confirmed, ConfirmLost, Nacked, Unroutable,
           NoChannel
<1> QED
    BY <1>1, <1>2, <1>3, <1>4

LEMMA RepeatsStep == DataTypeOK /\ OrderInv /\ RepeatsPaid /\ [Next]_vars => RepeatsPaid'
<1> SUFFICES ASSUME DataTypeOK, OrderInv, RepeatsPaid, [Next]_vars PROVE RepeatsPaid'
    OBVIOUS
<1>1. CASE UNCHANGED vars
    <2>1. UNCHANGED <<pc, lines, backend, faults>>
        BY <1>1 DEF vars, procVars, envVars
    <2> QED
        BY <2>1, RepeatsKept DEF Retrying
<1>2. CASE DirStep
    <2>1. UNCHANGED <<pc, lines, backend, faults>>
        BY <1>2 DEF DirStep, procVars, envVars
    <2> QED
        BY <2>1, RepeatsKept DEF Retrying
<1>3. CASE Environment
    <2>1. /\ UNCHANGED backend /\ faults' \in {faults, faults + 1}
          /\ pc' = "init" \/ UNCHANGED <<pc, lines>>
        BY <1>3 DEF Environment, BrokerDown, BrokerUp, InternetDown, InternetUp, ConnectionLost,
             QueueDeleted, Crash, Reboot, CollectorCrash, Fault, Forget, procVars
    <2> QED
        BY <2>1, RepeatsKept DEF Retrying
<1>4. CASE QueueDeclare \/ ReinitAmqp \/ QueueRedeclare
    <2>1. pc = "declare" \/ Retrying
        BY <1>4 DEF QueueDeclare, ReinitAmqp, QueueRedeclare, Goto, Retrying
    <2>2. UNCHANGED <<lines, backend, faults>>
        BY <1>4 DEF QueueDeclare, ReinitAmqp, QueueRedeclare, envVars
    <2> QED
        BY <2>1, <2>2, NotYetTaken, RepeatsKept
<1>5. CASE Start \/ InisialisasiFolder \/ Gate \/ Ceklog \/ ReadLines \/ TruncateLog
           \/ MarkLine \/ Outage \/ Retest \/ DeleteFileLog
    <2>1. UNCHANGED <<backend, faults>> /\ ~Retrying'
        BY <1>5 DEF Start, InisialisasiFolder, Gate, Ceklog, ReadLines, TruncateLog, MarkLine,
             Outage, Retest, DeleteFileLog, Goto, Retrying, envVars
    <2> QED
        BY <2>1, RepeatsKept
<1>6. CASE BasicPublish \/ BasicRepublish
    BY <1>6, RepeatsPublish
<1> QED
    BY <1>1, <1>2, <1>3, <1>4, <1>5, <1>6 DEF Next, ConnectStep

-----------------------------------------------------------------------------

LEMMA FlagInvariant == Spec => [](DataTypeOK /\ OrderInv /\ FlagFresh /\ RepeatsPaid)
<1>1. Spec => []DataTypeOK
    BY DataInit, DataStep, PTL DEF Spec
<1> QED
    BY <1>1, OrderInvariant, FlagInit, FlagStep, RepeatsInit, RepeatsStep, PTL DEF Spec

(* The flag is never stale, and there are no more duplicates than faults.     *)
THEOREM FlagAndDuplicates == Spec => []FlagMeansThisLine
<1>1. ASSUME DataTypeOK, FlagFresh, RepeatsPaid PROVE FlagMeansThisLine
    <2>1. ASSUME pc = "mark", dataflag
          PROVE  lines # <<>> /\ backend # <<>> /\ backend[Len(backend)] = Head(lines)
        <3>1. LastTaken(lines[1])
            BY <1>1, <2>1, Zenon DEF FlagFresh
        <3>2. lines # <<>> /\ lines \in Seq(Nat)
            BY <1>1, <2>1 DEF DataTypeOK, Sending
        <3>3. Head(lines) = lines[1]
            BY <3>2
        <3> QED
            BY <3>1, <3>2, <3>3 DEF LastTaken
    <2>2. Cardinality(Repeats) <= faults
        BY <1>1 DEF RepeatsPaid
    <2> QED
        BY <2>1, <2>2, Zenon DEF FlagMeansThisLine, Repeats
<1> QED
    BY <1>1, FlagInvariant, PTL

-----------------------------------------------------------------------------
(* What the four causes rest on: outside a pass over the lines there are none *)
(* in memory; a file was last written on its own day or later, and an open    *)
(* one no more than a midnight ago, so that the purge does not touch it; and  *)
(* as long as nothing has failed, every publish is confirmed.                 *)

LinesOnlyWhileSending == lines # <<>> => Sending \/ pc = "truncate"

FilesDated ==
    /\ \A d \in Days : d \in exists \/ log[d] = <<>>
    /\ \A d \in exists : d <= mtime[d].day
    /\ fd # NoFile => fd \in exists /\ fd <= today /\ today <= fd + 1

CalmSoFar ==
    /\ broker = TRUE
    /\ pc = "init" \/ channel = "open"
    /\ pc = "publish" => queue = TRUE
    /\ ~Retrying
    /\ pc = "mark" => dataflag = TRUE

FailureNeedsFault == faults = 0 => CalmSoFar

-----------------------------------------------------------------------------
(* The lines in memory.                                                       *)

LEMMA LinesInit == Init => LinesOnlyWhileSending
BY DEF Init, LinesOnlyWhileSending

LEMMA LinesStep ==
    DataTypeOK /\ FilesDated /\ LinesOnlyWhileSending /\ [Next]_vars => LinesOnlyWhileSending'
<1> SUFFICES ASSUME DataTypeOK, FilesDated, LinesOnlyWhileSending, [Next]_vars
             PROVE  LinesOnlyWhileSending'
    OBVIOUS
<1> USE DEF LinesOnlyWhileSending, Sending
<1>1. CASE UNCHANGED vars
    BY <1>1 DEF vars, procVars
<1>2. CASE DirStep
    BY <1>2 DEF DirStep, procVars
<1>3. CASE Environment
    BY <1>3 DEF Environment, BrokerDown, BrokerUp, InternetDown, InternetUp, ConnectionLost,
         QueueDeleted, Crash, Reboot, CollectorCrash, Forget, procVars
<1>4. CASE ReadLines
    BY <1>4 DEF ReadLines, Goto, FilesDated, DataTypeOK
<1>5. CASE TruncateLog \/ MarkLine
    <2>1. pc' = IF lines' = <<>> THEN "outage" ELSE "declare"
        BY <1>5 DEF TruncateLog, MarkLine, Goto
    <2> QED
        BY <2>1
<1>6. CASE Start \/ InisialisasiFolder \/ Gate \/ Ceklog \/ QueueDeclare \/ BasicPublish
           \/ ReinitAmqp \/ QueueRedeclare \/ BasicRepublish \/ Outage \/ Retest \/ DeleteFileLog
    BY <1>6 DEF Start, InisialisasiFolder, Gate, Ceklog, QueueDeclare, BasicPublish,
         ReinitAmqp, QueueRedeclare, BasicRepublish, Outage, Retest, DeleteFileLog, Goto
<1> QED
    BY <1>1, <1>2, <1>3, <1>4, <1>5, <1>6 DEF Next, ConnectStep

-----------------------------------------------------------------------------
(* The files and their dates.                                                 *)

LEMMA DatedInit == Init => FilesDated
BY DEF Init, DirInit, FilesDated, Days

LEMMA DatedDirStep == ASSUME DataTypeOK, FilesDated, DirStep PROVE FilesDated'
<1> USE DEF FilesDated
<1>0. /\ today \in Days /\ exists \in SUBSET Days /\ log \in [Days -> Seq(Nat)]
      /\ mtime \in [Days -> [day : Days, tick : Ticks]] /\ fd \in Days \cup {NoFile}
      /\ Now.day = today /\ \A d \in Days : d \in Int
    BY DEF DataTypeOK, DirTypeOK, Now, Days
<1>1. CASE DatakirimOpen
    <2>1. \A d \in exists' : d <= mtime'[d].day
        BY <1>0, <1>1 DEF DatakirimOpen
    <2>2. \A d \in Days : d \in exists' \/ log'[d] = <<>>
        BY <1>0, <1>1 DEF DatakirimOpen
    <2>3. fd' \in exists' /\ fd' <= today' /\ today' <= fd' + 1
        BY <1>0, <1>1 DEF DatakirimOpen
    <2> QED
        BY <2>1, <2>2, <2>3
<1>2. CASE DatakirimWrite
    <2>1. fd \in exists /\ fd <= today /\ exists' = exists /\ fd' = NoFile
        BY <1>2 DEF DatakirimWrite
    <2>2. \A d \in exists' : d <= mtime'[d].day
        BY <1>0, <1>2, <2>1 DEF DatakirimWrite
    <2>3. \A d \in Days : d \in exists' \/ log'[d] = <<>>
        BY <1>0, <1>2, <2>1 DEF DatakirimWrite
    <2> QED
        BY <2>1, <2>2, <2>3
<1>3. CASE Tick
    <2>1. UNCHANGED <<exists, log, mtime, fd>>
        BY <1>3 DEF Tick
    <2>2. fd' # NoFile => fd' <= today' /\ today' <= fd' + 1
        BY <1>0, <1>3, <2>1 DEF Tick
    <2> QED
        BY <2>1, <2>2
<1> QED
    BY <1>1, <1>2, <1>3 DEF DirStep

(* An open file was written too recently to be purged.                        *)
LEMMA OpenIsNotOld ==
    ASSUME DataTypeOK, FilesDated, fd # NoFile PROVE fd \notin OldFiles
<1>1. /\ fd \in exists /\ today <= fd + 1 /\ fd <= mtime[fd].day
      /\ today \in Nat /\ fd \in Nat /\ mtime[fd].day \in Nat
    BY DEF DataTypeOK, DirTypeOK, FilesDated, Days
<1>2. ~Earlier(mtime[fd], DaysAgo(KeepDays))
    BY <1>1, DataDirAssumption DEF Earlier, DaysAgo
<1> QED
    BY <1>2 DEF OldFiles

LEMMA DatedPurge == ASSUME DataTypeOK, FilesDated, DeleteFileLog PROVE FilesDated'
<1>1. /\ exists' = exists \ OldFiles /\ UNCHANGED <<today, fd>>
      /\ \A d \in Days : log'[d] = IF d \in OldFiles THEN <<>> ELSE log[d]
      /\ \A d \in Days : d \notin OldFiles => mtime'[d] = mtime[d]
      /\ exists \in SUBSET Days
    BY DEF DeleteFileLog, Purge, DataTypeOK, DirTypeOK
<1>2. fd # NoFile => fd \notin OldFiles
    BY OpenIsNotOld
<1> QED
    BY <1>1, <1>2 DEF FilesDated

LEMMA DatedTruncate ==
    ASSUME DataTypeOK, OrderInv, FilesDated, TruncateLog PROVE FilesDated'
<1>1. /\ file \in exists' /\ exists' = exists \cup {file} /\ UNCHANGED <<today, fd>>
      /\ log' = [log EXCEPT ![file] = <<>>] /\ mtime' = [mtime EXCEPT ![file] = Now]
      /\ file \in Days /\ file <= today /\ Now.day = today
      /\ exists \in SUBSET Days /\ log \in [Days -> Seq(Nat)]
      /\ mtime \in [Days -> [day : Days, tick : Ticks]]
    BY DEF TruncateLog, Truncate, DataTypeOK, DirTypeOK, OrderInv, UnreadIsNewer, Now
<1> QED
    BY <1>1 DEF FilesDated

LEMMA DatedStep == DataTypeOK /\ OrderInv /\ FilesDated /\ [Next]_vars => FilesDated'
<1> SUFFICES ASSUME DataTypeOK, OrderInv, FilesDated, [Next]_vars PROVE FilesDated'
    OBVIOUS
<1>0. ASSUME UNCHANGED <<today, exists, log, mtime>>, fd' \in {fd, NoFile} PROVE FilesDated'
    BY <1>0 DEF FilesDated
<1>1. CASE UNCHANGED vars
    BY <1>0, <1>1 DEF vars, dirVars
<1>2. CASE Environment
    BY <1>0, <1>2 DEF Environment, BrokerDown, BrokerUp, InternetDown, InternetUp,
         ConnectionLost, QueueDeleted, Crash, Reboot, CollectorCrash, dirVars
<1>3. CASE Start \/ InisialisasiFolder \/ Gate \/ Ceklog \/ ReadLines \/ QueueDeclare
           \/ BasicPublish \/ ReinitAmqp \/ QueueRedeclare \/ BasicRepublish \/ MarkLine
           \/ Outage \/ Retest
    BY <1>0, <1>3 DEF Start, InisialisasiFolder, Gate, Ceklog, ReadLines, QueueDeclare,
         BasicPublish, ReinitAmqp, QueueRedeclare, BasicRepublish, MarkLine, Outage, Retest,
         dirVars
<1> QED
    BY <1>1, <1>2, <1>3, DatedDirStep, DatedPurge, DatedTruncate DEF Next, ConnectStep

-----------------------------------------------------------------------------
(* Failures.                                                                  *)

LEMMA CalmInit == Init => FailureNeedsFault
BY Zenon DEF Init, FailureNeedsFault, CalmSoFar, Retrying

LEMMA CalmFault == ASSUME DataTypeOK, faults' = faults + 1 PROVE FailureNeedsFault'
BY DEF DataTypeOK, FailureNeedsFault

(* What a step of connect.py does while nothing has failed. *)
LEMMA CalmConnectStep ==
    ASSUME DataTypeOK, CalmSoFar, ConnectStep, UNCHANGED faults PROVE CalmSoFar'
<1> USE DEF CalmSoFar, Retrying
<1>1. CASE Start
    <2>1. broker' = broker /\ channel' = "open"
        BY <1>1, Zenon DEF Start, InitAmqp, envVars
    <2>2. pc' = "folder"
        BY <1>1 DEF Start, Goto
    <2> QED
        BY <2>1, <2>2
<1>2. CASE InisialisasiFolder \/ Gate \/ Ceklog \/ ReadLines \/ TruncateLog \/ Outage
           \/ MarkLine \/ DeleteFileLog
    <2>1. broker' = broker /\ channel' = channel
        BY <1>2, Zenon DEF InisialisasiFolder, Gate, Ceklog, ReadLines, TruncateLog, Outage,
             MarkLine, DeleteFileLog, envVars
    <2>2. pc # "init" /\ pc' \notin {"publish", "reinit", "redeclare", "republish", "mark"}
        BY <1>2 DEF InisialisasiFolder, Gate, Ceklog, ReadLines, TruncateLog, Outage,
             MarkLine, DeleteFileLog, Goto
    <2> QED
        BY <2>1, <2>2
<1>3. CASE Retest
    <2>1. pc # "init" /\ pc' = "outage"
        BY <1>3 DEF Retest, Goto
    <2>2. broker' = broker /\ (channel' = channel \/ channel' = "open")
        BY <1>3, Zenon DEF Retest, InitAmqp, envVars
    <2> QED
        BY <2>1, <2>2
<1>4. CASE QueueDeclare
    <2>1. pc # "init" /\ pc' \in {"publish", "reinit"}
        BY <1>4 DEF QueueDeclare, Goto
    <2>2. broker' = broker /\ channel' = channel
        BY <1>4, Zenon DEF QueueDeclare
    <2>3. pc' = "publish" /\ queue' = TRUE
        BY <1>4, <2>1, Zenon DEF QueueDeclare, Goto
    <2> QED
        BY <2>1, <2>2, <2>3
<1>5. CASE BasicPublish
    <2>1. pc = "publish" /\ channel = "open" /\ queue = TRUE
        BY <1>5 DEF BasicPublish, Goto
    <2>2. faults' # faults + 1 /\ faults \in Nat
        BY DEF DataTypeOK
    <2>3. Confirmed /\ pc' = "mark" /\ dataflag' = TRUE
        BY <1>5, <2>1, <2>2, Zenon DEF BasicPublish, Goto, ConfirmLost, Nacked, NoChannel,
             Unroutable, Fault
    <2>4. broker' = broker /\ channel' = channel
        BY <1>5, <2>3, Zenon DEF BasicPublish, Confirmed
    <2> QED
        BY <2>1, <2>3, <2>4
<1>6. CASE ReinitAmqp \/ QueueRedeclare \/ BasicRepublish
    BY <1>6 DEF ReinitAmqp, QueueRedeclare, BasicRepublish, Goto
<1> QED
    BY <1>1, <1>2, <1>3, <1>4, <1>5, <1>6 DEF ConnectStep

LEMMA CalmStep == DataTypeOK /\ FailureNeedsFault /\ [Next]_vars => FailureNeedsFault'
<1> SUFFICES ASSUME DataTypeOK, FailureNeedsFault, [Next]_vars, faults' = 0 PROVE CalmSoFar'
    BY DEF FailureNeedsFault
<1>0. faults' # faults + 1 /\ faults \in Nat
    BY DEF DataTypeOK
<1>1. faults' = faults
    BY <1>0 DEF Next, vars, DirStep, Environment, BrokerDown, BrokerUp, InternetDown, InternetUp,
         ConnectionLost, QueueDeleted, Crash, Reboot, CollectorCrash, Fault, envVars,
         ConnectStep, Start, InisialisasiFolder, Gate, Ceklog, ReadLines, TruncateLog,
         QueueDeclare, BasicPublish, ReinitAmqp, QueueRedeclare, BasicRepublish, MarkLine,
         Outage, Retest, DeleteFileLog, Confirmed, ConfirmLost, Nacked, Unroutable, NoChannel
<1>2. CalmSoFar
    BY <1>1 DEF FailureNeedsFault
<1>3. ASSUME UNCHANGED <<pc, dataflag, channel, queue>>, broker' \in {broker, TRUE}
      PROVE  CalmSoFar'
    BY <1>2, <1>3, Zenon DEF CalmSoFar, Retrying
<1>4. CASE UNCHANGED vars \/ DirStep
    <2>1. UNCHANGED <<pc, dataflag, channel, queue>> /\ broker' \in {broker, TRUE}
        BY <1>4, Zenon DEF vars, DirStep, procVars, envVars
    <2> QED
        BY <1>3, <2>1
<1>5. CASE Environment
    <2>1. BrokerUp \/ InternetUp
        BY <1>0, <1>5 DEF Environment, BrokerDown, InternetDown, ConnectionLost, QueueDeleted,
             Crash, Reboot, CollectorCrash, Fault
    <2>2. UNCHANGED <<pc, dataflag, channel, queue>> /\ broker' \in {broker, TRUE}
        BY <2>1, Zenon DEF BrokerUp, InternetUp, procVars
    <2> QED
        BY <1>3, <2>2
<1>6. CASE ConnectStep
    BY <1>1, <1>2, <1>6, CalmConnectStep
<1> QED
    BY <1>4, <1>5, <1>6 DEF Next

-----------------------------------------------------------------------------
(* The causes.                                                                *)

LossInv ==
    /\ DataTypeOK /\ OrderInv
    /\ FlagFresh
    /\ LinesOnlyWhileSending
    /\ FilesDated
    /\ FailureNeedsFault

Cause(r) ==
    \/ pc = "truncate" /\ r \in Elems(log[file]) \ Elems(lines)
    \/ pc = "mark" /\ ~dataflag /\ faults > 0 /\ r = Head(lines)
    \/ pc' = "init" /\ faults' = faults + 1 /\ r \in Elems(lines)
    \/ pc = "purge" /\ \E d \in Days : d + KeepDays <= today /\ r \in Elems(log[d])

LEMMA CauseOfForgetting ==
    ASSUME NEW r \in Held, r \notin Held', Environment PROVE Cause(r)
<1>1. log' = log
    BY DEF Environment, BrokerDown, BrokerUp, InternetDown, InternetUp, ConnectionLost,
         QueueDeleted, Crash, Reboot, CollectorCrash, dirVars
<1>2. lines' # lines
    BY <1>1 DEF Held
<1>3. pc' = "init" /\ faults' = faults + 1
    BY <1>2 DEF Environment, BrokerDown, BrokerUp, InternetDown, InternetUp, ConnectionLost,
         QueueDeleted, Crash, Reboot, CollectorCrash, Fault, Forget, procVars
<1>4. r \in Elems(lines)
    BY <1>1, Zenon DEF Held
<1> QED
    BY <1>3, <1>4 DEF Cause

LEMMA CauseInTruncate ==
    ASSUME LossInv, NEW r \in Held, r \notin Held', TruncateLog PROVE Cause(r)
<1>1. /\ pc = "truncate" /\ lines' = lines /\ file \in Days
      /\ \A d \in Days : d # file => log'[d] = log[d]
    BY DEF TruncateLog, Truncate, Goto, LossInv, DataTypeOK, DirTypeOK
<1>2. r \notin Elems(lines)
    BY <1>1, Zenon DEF Held
<1>3. r \in Elems(log[file])
    BY <1>1, <1>2, Zenon DEF Held
<1> QED
    BY <1>1, <1>2, <1>3 DEF Cause

LEMMA CauseInMark ==
    ASSUME LossInv, NEW r \in Held, r \notin Held', r \notin Elems(backend'), MarkLine
    PROVE  Cause(r)
<1>1. /\ pc = "mark" /\ lines \in Seq(Nat) /\ lines # <<>> /\ lines' = Tail(lines)
      /\ log' = log /\ backend' = backend /\ backend \in Seq(Nat) /\ faults \in Nat
    BY DEF MarkLine, Goto, LossInv, DataTypeOK, Sending, dirVars, envVars
<1>2. r \in Elems(lines) /\ r \notin Elems(Tail(lines))
    BY <1>1, Zenon DEF Held
<1>3. r = Head(lines) /\ Head(lines) = lines[1]
    BY <1>1, <1>2, ElemsOfTail
<1>4. ASSUME dataflag PROVE FALSE
    <2>1. LastTaken(lines[1])
        BY <1>4, Zenon DEF LossInv, FlagFresh
    <2>2. Len(backend) \in DOMAIN backend
        BY <1>1, <2>1 DEF LastTaken
    <2>3. r = backend[Len(backend)]
        BY <1>3, <2>1 DEF LastTaken
    <2> QED
        BY <1>1, <2>2, <2>3, Zenon DEF Elems
<1>5. faults > 0
    <2>1. CASE faults = 0
        <3>1. dataflag = TRUE
            BY <1>1, <2>1 DEF LossInv, FailureNeedsFault, CalmSoFar
        <3> QED
            BY <1>4, <3>1
    <2> QED
        BY <1>1, <2>1
<1> QED
    BY <1>1, <1>3, <1>4, <1>5, Zenon DEF Cause

LEMMA CauseInPurge ==
    ASSUME LossInv, NEW r \in Held, r \notin Held', DeleteFileLog PROVE Cause(r)
<1>1. /\ pc = "purge" /\ lines' = lines
      /\ \A d \in Days : d \notin OldFiles => log'[d] = log[d]
    BY DEF DeleteFileLog, Purge, Goto
<1>2. PICK d \in Days : d \in OldFiles /\ r \in Elems(log[d])
    BY <1>1, Zenon DEF Held
<1>3. /\ d \in exists /\ Earlier(mtime[d], DaysAgo(KeepDays)) /\ d <= mtime[d].day
      /\ mtime[d].day \in Nat /\ today \in Nat /\ d \in Nat
    BY <1>2 DEF OldFiles, LossInv, FilesDated, DataTypeOK, DirTypeOK, Days
<1>4. d + KeepDays <= today
    BY <1>3, DataDirAssumption DEF Earlier, DaysAgo
<1> QED
    BY <1>1, <1>2, <1>4 DEF Cause

LEMMA CauseOfLoss ==
    ASSUME LossInv, [Next]_vars, NEW r \in Held \ Held', r \notin Elems(backend')
    PROVE  Cause(r)
<1>1. CASE UNCHANGED vars
    BY <1>1 DEF Held, vars, dirVars, procVars
<1>2. CASE DirStep
    <2>1. Fifo!Write \/ UNCHANGED Held
        BY <1>2, RefinesDirStep DEF LossInv
    <2> QED
        BY <2>1 DEF Fifo!Write
<1>3. CASE ReadLines
    <2>1. lines = <<>> /\ log' = log
        BY <1>3 DEF ReadLines, Goto, LossInv, LinesOnlyWhileSending, Sending, dirVars
    <2>2. Held \subseteq Held'
        BY <2>1, EmptyHoldsNothing, Zenon DEF Held
    <2> QED
        BY <2>2
<1>4. CASE BasicPublish \/ BasicRepublish
    <2>1. UNCHANGED <<lines, log>>
        BY <1>4 DEF BasicPublish, BasicRepublish, dirVars
    <2> QED
        BY <2>1 DEF Held
<1>5. CASE Start \/ InisialisasiFolder \/ Gate \/ Ceklog \/ QueueDeclare \/ ReinitAmqp
           \/ QueueRedeclare \/ Outage \/ Retest
    BY <1>5, RefinesDecide
<1> QED
    BY <1>1, <1>2, <1>3, <1>4, <1>5, CauseOfForgetting, CauseInTruncate, CauseInMark,
       CauseInPurge DEF Next, ConnectStep

-----------------------------------------------------------------------------

LEMMA LossInvariant == Spec => []LossInv
<1>1. DataTypeOK /\ OrderInv /\ FlagFresh /\ LinesOnlyWhileSending /\ FilesDated
      /\ FailureNeedsFault <=> LossInv
    BY DEF LossInv
<1> QED
    BY <1>1, FlagInvariant, LinesInit, LinesStep, DatedInit, DatedStep, CalmInit, CalmStep, PTL
       DEF Spec

(* A record that the gateway has and the backend has not ceases to exist for  *)
(* one of the four reasons only.                                              *)
THEOREM EveryLossHasACause == Spec => LossHasACause
<1>1. ASSUME LossInv, [Next]_vars
      PROVE  [\A r \in Held \ Held' : r \notin Elems(backend') =>
                \/ pc = "truncate" /\ r \in Elems(log[file]) \ Elems(lines)
                \/ pc = "mark" /\ ~dataflag /\ faults > 0 /\ r = Head(lines)
                \/ pc' = "init" /\ faults' = faults + 1 /\ r \in Elems(lines)
                \/ pc = "purge" /\ \E d \in Days : d + KeepDays <= today /\ r \in Elems(log[d])
             ]_vars
    BY <1>1, CauseOfLoss, Zenon DEF Cause
<1> QED
    BY <1>1, LossInvariant, PTL DEF Spec, LossHasACause

-----------------------------------------------------------------------------
(* To the connector, the gateway is the directory's and the environment's     *)
(* steps in some order.                                                       *)

LEMMA ConnectsPart == [GatewayNext]_gatewayVars => [Next]_vars
<1> SUFFICES ASSUME [GatewayNext]_gatewayVars PROVE Next \/ UNCHANGED vars
    OBVIOUS
<1>1. CASE UNCHANGED gatewayVars \/ CollectMoves \/ RestartPing \/ RestartPass \/ AdapterChanges
    BY <1>1 DEF gatewayVars, CollectMoves, RestartPing, RestartPass, AdapterChanges
<1>2. CASE ConnectMoves
    BY <1>2 DEF ConnectMoves, Next
<1>3. CASE CollectorOpens \/ CollectorWrites \/ TimePasses
    BY <1>3 DEF CollectorOpens, CollectorWrites, TimePasses, Next, DirStep
<1>4. CASE RestartReboots \/ CollectorIsKilled \/ UplinkChanges
    BY <1>4 DEF RestartReboots, CollectorIsKilled, UplinkChanges, Next, Environment
<1> QED
    BY <1>1, <1>2, <1>3, <1>4 DEF GatewayNext

-----------------------------------------------------------------------------
(* To the collector, the rest of the gateway is a clock.                      *)

LEMMA ClockAlone == UNCHANGED <<collectorVars, tick>> => UNCHANGED Collector!collectVars
BY DEF collectorVars, Collector!collectVars, Collector!ctlVars, Collector!histVars

LEMMA ConnectKeepsTime == ConnectStep => UNCHANGED tick
BY DEF ConnectStep, Start, InisialisasiFolder, Gate, Ceklog, ReadLines, TruncateLog,
   QueueDeclare, BasicPublish, ReinitAmqp, QueueRedeclare, BasicRepublish, MarkLine, Outage,
   Retest, DeleteFileLog, dirVars

LEMMA CollectorsPart ==
    [GatewayNext]_gatewayVars => [Collector!CollectNext]_(Collector!collectVars)
<1> SUFFICES ASSUME [GatewayNext]_gatewayVars
             PROVE  Collector!CollectNext \/ UNCHANGED Collector!collectVars
    OBVIOUS
<1>1. CASE UNCHANGED gatewayVars \/ RestartPing \/ RestartPass
    BY <1>1, ClockAlone DEF gatewayVars, RestartPing, RestartPass, vars, dirVars
<1>2. CASE ConnectMoves
    BY <1>2, ConnectKeepsTime, ClockAlone DEF ConnectMoves
<1>3. CASE UplinkChanges
  <2>1. UNCHANGED tick
    BY <1>3, Zenon DEF UplinkChanges, BrokerDown, BrokerUp, InternetDown, InternetUp, ConnectionLost,
       QueueDeleted, Crash, dirVars
  <2>2. UNCHANGED collectorVars
    BY <1>3, Zenon DEF UplinkChanges
  <2> QED
    BY <2>1, <2>2, ClockAlone
<1>4. CASE CollectMoves
    BY <1>4 DEF CollectMoves, Collector!CollectNext, Collector!CollectStep
<1>5. CASE CollectorOpens \/ CollectorWrites
    BY <1>5 DEF CollectorOpens, CollectorWrites, Collector!CollectNext, Collector!CollectStep
<1>6. CASE TimePasses
    BY <1>6 DEF TimePasses, Collector!CollectNext
<1>7. CASE RestartReboots \/ CollectorIsKilled
    BY <1>7 DEF RestartReboots, CollectorIsKilled, Collector!CollectNext
<1>8. CASE AdapterChanges
    BY <1>8 DEF AdapterChanges, Collector!CollectNext
<1> QED
    BY <1>1, <1>2, <1>3, <1>4, <1>5, <1>6, <1>7, <1>8 DEF GatewayNext

-----------------------------------------------------------------------------

(* The gateway's steps are the connector's with its free collector, and the   *)
(* collector's with its free clock.                                           *)
LEMMA PartsUnharmed == GatewaySpec => ImplementsParts
<1>1. GatewayInit => Init /\ Collector!CollectInit
    BY DEF GatewayInit
<1> QED
    BY <1>1, ConnectsPart, CollectorsPart, PTL
       DEF GatewaySpec, ImplementsParts, Spec, Collector!CollectSpec

(* With the real collector and the restarter's reboots too, the gateway is a  *)
(* lossy first-in first-out pipe that sends nothing twice but a retried line  *)
(* and loses nothing without one of the four causes.                          *)
THEOREM GatewayIsLossyFifo ==
    GatewaySpec => ImplementsLossyFifo /\ LossHasACause /\ []NothingSentWaitsAgain
BY PartsUnharmed, RefinesLossyFifo, EveryLossHasACause, NoResend, PTL DEF ImplementsParts

-----------------------------------------------------------------------------
(* After a reboot in an outage.                                               *)

(* Until the uplink is back the connector waits, with nothing in memory.      *)
OutageInv ==
    /\ rebooted \in BOOLEAN
    /\ rebooted => /\ ~internet
                   /\ lines = <<>>
                   /\ pc \in {"init", "folder", "gate", "outage", "retest"}

LEMMA OutageInit == GatewayInit => OutageInv
BY DEF GatewayInit, OutageInv

LEMMA OutageStep == OutageInv /\ [GatewayNext]_gatewayVars => OutageInv'
<1> SUFFICES ASSUME OutageInv, [GatewayNext]_gatewayVars PROVE OutageInv'
    OBVIOUS
<1> USE DEF OutageInv, restartVars
<1>1. CASE UNCHANGED gatewayVars \/ CollectMoves \/ RestartPing \/ RestartPass \/ AdapterChanges
    BY <1>1 DEF gatewayVars, CollectMoves, RestartPing, RestartPass, AdapterChanges, vars,
       procVars, envVars
<1>2. CASE ConnectMoves
  <2>1. UNCHANGED rebooted /\ ConnectStep
    BY <1>2 DEF ConnectMoves
  <2>2. CASE Start \/ InisialisasiFolder \/ Gate \/ Outage \/ Retest
    BY <2>1, <2>2 DEF Start, InisialisasiFolder, Gate, Outage, Retest, Goto, envVars
  <2>3. CASE Ceklog \/ ReadLines \/ TruncateLog \/ QueueDeclare \/ BasicPublish \/ ReinitAmqp
             \/ QueueRedeclare \/ BasicRepublish \/ MarkLine \/ DeleteFileLog
    <3>1. pc \notin {"init", "folder", "gate", "outage", "retest"}
      BY <2>3 DEF Ceklog, ReadLines, TruncateLog, QueueDeclare, BasicPublish, ReinitAmqp,
         QueueRedeclare, BasicRepublish, MarkLine, DeleteFileLog, Goto
    <3> QED
      BY <2>1, <3>1
  <2> QED
    BY <2>1, <2>2, <2>3 DEF ConnectStep
<1>3. CASE CollectorOpens \/ CollectorWrites \/ TimePasses
    BY <1>3 DEF CollectorOpens, CollectorWrites, TimePasses, procVars, envVars
<1>4. CASE RestartReboots
    BY <1>4 DEF RestartReboots, Reboot, Forget
<1>5. CASE CollectorIsKilled
    BY <1>5 DEF CollectorIsKilled, CollectorCrash, procVars
<1>6. CASE UplinkChanges
    BY <1>6 DEF UplinkChanges, BrokerDown, BrokerUp, InternetDown, InternetUp, ConnectionLost,
       QueueDeleted, Crash, Forget, procVars
<1> QED
    BY <1>1, <1>2, <1>3, <1>4, <1>5, <1>6 DEF GatewayNext

(* The directory loses a line only where the connector truncates or purges.   *)
LEMMA OutageKeepsLines ==
    ASSUME DataTypeOK, OutageInv, [GatewayNext]_gatewayVars, rebooted, ~internet'
    PROVE  Held \subseteq Held'
<1> USE DEF OutageInv, restartVars
<1>1. lines = <<>> /\ lines' = <<>>
  <2>1. rebooted' => lines' = <<>>
    BY OutageStep
  <2>2. rebooted' = TRUE
    <3>1. CASE UplinkChanges
      BY <3>1 DEF UplinkChanges
    <3>2. CASE RestartReboots
      BY <3>2 DEF RestartReboots
    <3>3. CASE ~UplinkChanges /\ ~RestartReboots
      BY <3>3 DEF GatewayNext, gatewayVars, ConnectMoves, CollectMoves, CollectorOpens,
         CollectorWrites, TimePasses, RestartPing, RestartPass, CollectorIsKilled, AdapterChanges
    <3> QED
      BY <3>1, <3>2, <3>3
  <2> QED
    BY <2>1, <2>2
<1>2. CASE CollectorWrites
  <2>1. fd \in Days /\ log' = [log EXCEPT ![fd] = Append(@, written + 1)]
    BY <1>2 DEF CollectorWrites, DatakirimWrite, DataTypeOK, DirTypeOK
  <2>2. /\ log \in [Days -> Seq(Nat)] /\ written + 1 \in Nat
    BY DEF DataTypeOK, DirTypeOK
  <2>3. Elems(Append(log[fd], written + 1)) = Elems(log[fd]) \cup {written + 1}
    BY <2>1, <2>2, ElemsOfAppend
  <2>4. ASSUME NEW d \in Days PROVE Elems(log[d]) \subseteq Elems(log'[d])
    BY <2>1, <2>2, <2>3
  <2> QED
    BY <1>1, <2>4 DEF Held
<1>3. CASE ~CollectorWrites
  <2>1. UNCHANGED log
    <3>1. CASE UNCHANGED gatewayVars \/ CollectMoves \/ RestartPing \/ RestartPass \/ AdapterChanges
      BY <3>1 DEF gatewayVars, CollectMoves, RestartPing, RestartPass, AdapterChanges, vars, dirVars
    <3>2. CASE CollectorOpens \/ TimePasses
      BY <3>2 DEF CollectorOpens, TimePasses, DatakirimOpen, Tick
    <3>3. CASE RestartReboots \/ CollectorIsKilled
      BY <3>3 DEF RestartReboots, Reboot, CollectorIsKilled, CollectorCrash
    <3>4. CASE UplinkChanges
      BY <3>4 DEF UplinkChanges, BrokerDown, BrokerUp, InternetDown, InternetUp, ConnectionLost,
         QueueDeleted, Crash, dirVars
    <3>5. CASE ConnectMoves
      BY <3>5 DEF ConnectMoves, ConnectStep, Start, InisialisasiFolder, Gate, Ceklog, ReadLines,
         TruncateLog, QueueDeclare, BasicPublish, ReinitAmqp, QueueRedeclare, BasicRepublish,
         MarkLine, Outage, Retest, DeleteFileLog, Goto, dirVars
    <3> QED
      BY <1>3, <3>1, <3>2, <3>3, <3>4, <3>5 DEF GatewayNext
  <2> QED
    BY <1>1, <2>1 DEF Held
<1> QED
    BY <1>2, <1>3

(* From the first reboot of an outage to the end of it, no record that the    *)
(* gateway has is lost undelivered, for any number of reboots and kills.      *)
THEOREM OutageCostsOnce == GatewaySpec => RebootsLoseOnce
<1>1. ASSUME DataTypeOK, OutageInv, [GatewayNext]_gatewayVars
      PROVE  [(rebooted /\ ~internet') => Held \ Held' \subseteq Elems(backend')]_gatewayVars
  <2>1. SUFFICES ASSUME rebooted, ~internet'
                 PROVE  Held \ Held' \subseteq Elems(backend')
    OBVIOUS
  <2> QED
    BY <1>1, <2>1, OutageKeepsLines
<1>2. Spec => []DataTypeOK
    BY DataInit, DataStep, PTL DEF Spec
<1>3. GatewayInit => Init
    BY DEF GatewayInit
<1> QED
    BY <1>1, <1>2, <1>3, ConnectsPart, OutageInit, OutageStep, PTL
       DEF GatewaySpec, Spec, RebootsLoseOnce
=============================================================================
