------------------------- MODULE ConnectProperties -------------------------
(* What connect.py does and does not guarantee about the records that pass    *)
(* through it.                                                                *)
EXTENDS Connect, FiniteSets

(* The backend receives records in the order they were collected: no record   *)
(* arrives after a newer one, over retries, reconnections, crashes, reboots   *)
(* and midnights (sendfromlog 83-96, kirimdatakeserver 40-56).                *)
DeliveryOrder ==
    \A i, j \in 1 .. Len(backend) : i < j => backend[i] <= backend[j]

(* A record reaches the backend at most twice: the handler of                 *)
(* kirimdatakeserver (50-54) retries once, and a line that was taken is never *)
(* read again.                                                                *)
AtMostTwice ==
    \A i \in 1 .. Len(backend) : i + 2 <= Len(backend) => backend[i] < backend[i + 2]

(* The success flag is never stale: when sendfromlog (90) finds dataflag set  *)
(* after trying a line, the last message the broker took is that very line.   *)
(* And each duplicate is paid for by a fault: the retry of 51-53 runs only    *)
(* after the first try failed.                                                *)
FlagMeansThisLine ==
    /\ (pc = "mark" /\ dataflag) =>
         (lines # <<>> /\ backend # <<>> /\ backend[Len(backend)] = Head(lines))
    /\ Cardinality({i \in 2 .. Len(backend) : backend[i] = backend[i - 1]}) <= faults

(* A record the backend already has is never waiting to be sent again: not in *)
(* a day file that can still be read, nor among the lines after the current   *)
(* one.  Truncating before sending (87) is what makes this true.              *)
NothingSentWaitsAgain ==
    /\ \A d \in Days : d >= file => Elems(log[d]) \cap Delivered = {}
    /\ Sending => Elems(Tail(lines)) \cap Delivered = {}

(* A record the gateway has ceases to exist undelivered for four reasons      *)
(* only: it was appended between readlines() and the truncation (86-87); both *)
(* publishes failed after at least one fault (88-94); the process was killed  *)
(* while the line was only in memory; the purge removed a day file at least   *)
(* KeepDays after that day (103-104).                                         *)
LossHasACause ==
    [][\A r \in Held \ Held' : r \notin Elems(backend') =>
        \/ pc = "truncate" /\ r \in Elems(log[file]) \ Elems(lines)
        \/ pc = "mark" /\ ~dataflag /\ faults > 0 /\ r = Head(lines)
        \/ pc' = "init" /\ faults' = faults + 1 /\ r \in Elems(lines)
        \/ pc = "purge" /\ \E d \in Days : d + KeepDays <= today /\ r \in Elems(log[d])
      ]_vars

(* The connector is a lossy first-in first-out pipe. *)
Fifo == INSTANCE LossyFifo WITH held <- Held, out <- backend
ImplementsLossyFifo == Fifo!Spec

-----------------------------------------------------------------------------
(* Why the order holds: the inductive invariant behind DeliveryOrder,         *)
(* AtMostTwice and NothingSentWaitsAgain.  Records are numbered in the order  *)
(* of writing, so "older" is "less".                                          *)

Increasing(s) == \A i, j \in 1 .. Len(s) : i < j => s[i] < s[j]
Before(s, t)  == \A i \in 1 .. Len(s), j \in 1 .. Len(t) : s[i] < t[j]

(* The directory: each file is in order, an earlier day's file is older, and  *)
(* nothing lies in a file of a day after the one the collector writes to.     *)
DirOrdered ==
    /\ \A d \in Days : Increasing(log[d])
    /\ \A d, e \in Days : d < e => Before(log[d], log[e])
    /\ \A d \in Days : today < d => log[d] = <<>>
    /\ fd # NoFile => fd <= today /\ \A d \in Days : fd < d => log[d] = <<>>

(* No number is greater than the last one given. *)
Numbered ==
    /\ \A d \in Days : \A i \in 1 .. Len(log[d]) : log[d][i] <= written
    /\ \A i \in 1 .. Len(lines) : lines[i] <= written
    /\ \A i \in 1 .. Len(backend) : backend[i] <= written

(* Whatever can still be read is newer than whatever was delivered: the file  *)
(* is that of today or of a day gone by, and days do not come back.           *)
UnreadIsNewer ==
    /\ file <= today
    /\ \A d \in Days : file <= d => Before(backend, log[d])

(* The lines in memory, between the two: before the truncation they are still *)
(* in the file, afterwards nowhere else.                                      *)
LinesOrdered ==
    /\ Increasing(lines)
    /\ pc = "truncate" =>
        /\ Before(backend, lines)
        /\ \A d \in Days : file < d => Before(lines, log[d])
    /\ Sending =>
        /\ \A d \in Days : file <= d => Before(lines, log[d])
        /\ \A i \in 1 .. Len(backend), j \in 2 .. Len(lines) : backend[i] < lines[j]

(* How often the current line may have been taken by the broker already. *)
Tries == CASE pc \in {"declare", "publish"}              -> 0
           [] pc \in {"reinit", "redeclare", "republish"} -> 1
           [] OTHER                                       -> 2

(* The current line is not older than anything delivered, and newer than all  *)
(* but the copies of itself.                                                  *)
CurrentIsNewest ==
    Sending => \A i \in 1 .. Len(backend) :
        /\ backend[i] <= lines[1]
        /\ i + Tries <= Len(backend) => backend[i] < lines[1]

OrderInv ==
    /\ DirOrdered
    /\ Numbered
    /\ UnreadIsNewer
    /\ LinesOrdered
    /\ CurrentIsNewest
    /\ DeliveryOrder
    /\ AtMostTwice

-----------------------------------------------------------------------------
(* Liveness, under FairSpec: the injected faults are finitely many.           *)

(* No outage, crash or reconnection stops the service for good: a new pass    *)
(* over the directory always begins (main 119-132).                           *)
ServiceGoesOn == []<>(pc = "folder")

(* While its day lasts, a record in the day file is taken out of it: only a   *)
(* midnight can leave it behind (35: the name is that of today).              *)
TakenWhileItsDayLasts ==
    \A d \in Days : (log[d] # <<>> /\ today = d) ~> (log[d] = <<>> \/ today # d)

(* Nothing fails any more. *)
Calm == faults = MaxFaults /\ broker /\ internet

(* Once nothing fails any more, every line in memory that was not yet being   *)
(* tried reaches the backend, even if the channel was lost before: the first  *)
(* failing call reconnects (50-54).                                           *)
DeliveredOnceCalm ==
    \A r \in Records :
        (Calm /\ Sending /\ r \in Elems(Tail(lines))) ~> (r \in Delivered)

-----------------------------------------------------------------------------
(* What the comments and the README say, and the code does not do.  Each is   *)
(* refuted by a run of its own.                                               *)

(* connect.py:82, "read the data from the log, send it and delete it after it *)
(* was sent": no record leaves the day file unread, or is given up unsent.    *)
DeletedAfterSent ==
    [][/\ pc = "truncate" => Elems(log[file]) \ Elems(log'[file]) \subseteq Elems(lines)
       /\ Elems(lines) \ Held' \subseteq Elems(backend')]_vars

(* README.md:3, the collected data is sent to the backend: so it is, sooner   *)
(* or later, at least when nothing fails.                                     *)
EventuallySent == \A r \in Records : (written >= r) ~> (r \in Delivered)
=============================================================================
