------------------------------ MODULE DataDir ------------------------------
(* The gateway's volume data/connect, shared by the containers EMScollect and *)
(* EMSconnect, and the clock both containers read.  The directory holds one   *)
(* text file per day, "Data <date>.txt".  The collector appends one line per  *)
(* record; the connector reads, truncates and removes files.  No lock guards  *)
(* any of this.                                                               *)
(*                                                                            *)
(* A record is abstracted to its number in the order of writing: the content  *)
(* of a line never steers the connector (every line holds a JSON object).     *)
EXTENDS Integers, Sequences

CONSTANTS
    MaxDay,        \* bound: the last day the clock reaches
    TicksPerDay,   \* clock ticks in a day
    KeepDays,      \* connect.py:129, deletefilelog(3)
    MaxRecords     \* bound: records the collector hands over

ASSUME DataDirAssumption ==
    /\ MaxDay \in Nat
    /\ TicksPerDay \in Nat \ {0}
    /\ KeepDays \in Nat /\ KeepDays >= 2
    /\ MaxRecords \in Nat

Days    == 0 .. MaxDay
Ticks   == 0 .. TicksPerDay - 1
Records == 1 .. MaxRecords
NoFile  == -1

VARIABLES
    today,    \* the date, as strftime("%Y-%m-%d") reads it
    tick,     \* the time of the day
    exists,   \* the days whose file is in the directory
    log,      \* the lines of each day's file; <<>> when there is no file
    mtime,    \* st_mtime of each day's file
    fd,       \* the day whose file datakirim has open, or NoFile
    written   \* how many records datakirim has written

dirVars == <<today, tick, exists, log, mtime, fd, written>>

Now == [day |-> today, tick |-> tick]

(* Some tick is earlier than another. *)
Earlier(s, t) == s.day < t.day \/ (s.day = t.day /\ s.tick < t.tick)

(* time.time() - days * 86400 *)
DaysAgo(days) == [day |-> today - days, tick |-> tick]

DirTypeOK ==
    /\ today \in Days
    /\ tick \in Ticks
    /\ exists \in SUBSET Days
    /\ log \in [Days -> Seq(Nat)]
    /\ mtime \in [Days -> [day : Days, tick : Ticks]]
    /\ fd \in Days \cup {NoFile}
    /\ written \in Nat

DirInit ==
    /\ today = 0
    /\ tick = 0
    /\ exists = {}
    /\ log = [d \in Days |-> <<>>]
    /\ mtime = [d \in Days |-> [day |-> 0, tick |-> 0]]
    /\ fd = NoFile
    /\ written = 0

(* Mutant: one container reads the clock in another time zone.                *)
DatakirimOpen_OtherZone ==
    /\ fd = NoFile
    /\ written < MaxRecords
    /\ fd' = today + 1
    /\ exists' = exists \cup {today + 1}
    /\ mtime' = [mtime EXCEPT ![today] = Now]
    /\ UNCHANGED <<today, tick, log, written>>

(* datakirim: the file name is computed from the date and the file is opened  *)
(* with 'a+', which creates it.                                               *)
DatakirimOpen ==
    /\ fd = NoFile
    /\ written < MaxRecords
    /\ fd' = today
    /\ exists' = exists \cup {today}
    /\ mtime' = IF today \in exists THEN mtime ELSE [mtime EXCEPT ![today] = Now]
    /\ UNCHANGED <<today, tick, log, written>>

(* datakirim: write() fills the buffer and close() flushes it with O_APPEND,  *)
(* so the line lands after whatever the file holds at that moment.            *)
DatakirimWrite ==
    /\ fd # NoFile
    /\ written' = written + 1
    /\ log' = [log EXCEPT ![fd] = Append(@, written + 1)]
    /\ mtime' = [mtime EXCEPT ![fd] = Now]
    /\ fd' = NoFile
    /\ UNCHANGED <<today, tick, exists>>

(* open(file, 'w') truncates the file and sets its modification time.         *)
Truncate(d) ==
    /\ exists' = exists \cup {d}
    /\ log' = [log EXCEPT ![d] = <<>>]
    /\ mtime' = [mtime EXCEPT ![d] = Now]

(* Mutant: one day less is kept.                                              *)
OldFiles_OneDayLess == {d \in exists : Earlier(mtime[d], DaysAgo(KeepDays - 1))}

(* The files whose modification time is more than KeepDays in the past.       *)
OldFiles == {d \in exists : Earlier(mtime[d], DaysAgo(KeepDays))}

(* deletefilelog(KeepDays): every old file goes, with what it still holds.    *)
Purge ==
    /\ exists' = exists \ OldFiles
    /\ log' = [d \in Days |-> IF d \in OldFiles THEN <<>> ELSE log[d]]
    /\ mtime' = [d \in Days |-> IF d \in OldFiles THEN [day |-> 0, tick |-> 0]
                                ELSE mtime[d]]

(* Time passes.  A midnight may fall between the open and the write of one    *)
(* datakirim call, two midnights may not: the call takes well under a day.    *)
Tick ==
    /\ \/ /\ tick + 1 < TicksPerDay
          /\ tick' = tick + 1
          /\ today' = today
       \/ /\ tick + 1 = TicksPerDay
          /\ today < MaxDay
          /\ fd \in {NoFile, today}
          /\ tick' = 0
          /\ today' = today + 1
    /\ UNCHANGED <<exists, log, mtime, fd, written>>
=============================================================================
