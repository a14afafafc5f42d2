--------------------------- MODULE CollectProofs ---------------------------
(* The collector's hand-over flag, for every number of units, every length of *)
(* the minute and of its windows, and any number of faults.                   *)
EXTENDS Collect, TLAPS

-----------------------------------------------------------------------------
(* Type correctness.  The Boolean variables are kept apart.                   *)

CollectData ==
    /\ cpc \in CLabels
    /\ unit \in 1 .. Units
    /\ kirim \in 0 .. Period - 1
    /\ rooms \subseteq {IdPerangkat(u) : u \in 1 .. Units}
    /\ second \in 0 .. Minute - 1
    /\ cfaults \in 0 .. MaxCollectFaults
    /\ atZero \in Nat
    /\ decided \in 0 .. 2

CollectBools == client \in BOOLEAN /\ flagkirim \in BOOLEAN /\ usb \in BOOLEAN /\ served \in BOOLEAN

LEMMA Remainders ==
    /\ \A s \in Nat : s % Period \in 0 .. Period - 1
    /\ \A s \in Nat : s % Minute \in 0 .. Minute - 1
BY CollectAssumption

LEMMA CollectDataInit == CollectInit => CollectData
BY CollectAssumption DEF CollectInit, CollectData, CLabels

LEMMA CollectBoolsInit == CollectInit => CollectBools
BY Zenon DEF CollectInit, CollectBools

LEMMA CollectDataStep == CollectData /\ [CollectNext]_collectVars => CollectData'
<1> SUFFICES ASSUME CollectData, [CollectNext]_collectVars PROVE CollectData'
    OBVIOUS
<1> USE CollectAssumption DEF CollectData, Step, CLabels, histVars
<1>0. second \in Nat /\ second + 1 \in Nat
    OBVIOUS
<1>1. CASE UNCHANGED collectVars
    BY <1>1 DEF collectVars, ctlVars
<1>2. CASE Boot BY <1>2 DEF Boot
<1>3. CASE Read BY <1>3 DEF Read, CollectFault
<1>4. CASE Parse BY <1>4 DEF Parse
<1>5. CASE IntervalKirim
    <2>1. kirim' = second % Period /\ kirim' \in 0 .. Period - 1
        BY <1>0, <1>5, Remainders DEF IntervalKirim
    <2>2. atZero' \in {atZero, atZero + 1} /\ decided' \in 0 .. 2 /\ cpc' \in {"open", "rest"}
        BY <1>5 DEF IntervalKirim
    <2> QED
        BY <1>5, <2>1, <2>2 DEF IntervalKirim
<1>6. CASE Open \/ Write \/ ClearFlag
    BY <1>6 DEF Open, Write, ClearFlag
<1>7. CASE OpenFails BY <1>7 DEF OpenFails, CollectFault
<1>8. CASE Rest BY <1>8 DEF Rest
<1>9. CASE Pause BY <1>9 DEF Pause
<1>10. CASE Kill BY <1>10 DEF Kill, CollectFault, CollectRestarts
<1>11. CASE UsbChanges BY <1>11 DEF UsbChanges, CollectFault, ctlVars
<1>12. CASE NextSecond
    <2>1. second' \in 0 .. Minute - 1
        BY <1>0, <1>12, Remainders DEF NextSecond
    <2> QED
        BY <1>12, <2>1 DEF NextSecond, ctlVars
<1> QED
    BY <1>1, <1>2, <1>3, <1>4, <1>5, <1>6, <1>7, <1>8, <1>9, <1>10, <1>11, <1>12
       DEF CollectNext, CollectStep

LEMMA CollectBoolsStep == CollectBools /\ [CollectNext]_collectVars => CollectBools'
<1> SUFFICES ASSUME CollectBools, [CollectNext]_collectVars PROVE CollectBools'
    OBVIOUS
<1> USE DEF CollectBools, ctlVars, histVars
<1>1. CASE UNCHANGED collectVars BY <1>1, Zenon DEF collectVars
<1>2. CASE Boot BY <1>2, Zenon DEF Boot
<1>3. CASE Read BY <1>3, Zenon DEF Read
<1>4. CASE Parse BY <1>4, Zenon DEF Parse
<1>5. CASE IntervalKirim BY <1>5, Zenon DEF IntervalKirim, FlagAfter, Due
<1>6. CASE Open \/ OpenFails \/ Write BY <1>6, Zenon DEF Open, OpenFails, Write
<1>7. CASE ClearFlag BY <1>7, Zenon DEF ClearFlag, FlagAfter
<1>8. CASE Rest \/ Pause BY <1>8, Zenon DEF Rest, Pause
<1>9. CASE Kill BY <1>9, Zenon DEF Kill, CollectRestarts
<1>10. CASE UsbChanges BY <1>10, Zenon DEF UsbChanges
<1>11. CASE NextSecond BY <1>11, Zenon DEF NextSecond
<1> QED
    BY <1>1, <1>2, <1>3, <1>4, <1>5, <1>6, <1>7, <1>8, <1>9, <1>10, <1>11
       DEF CollectNext, CollectStep

-----------------------------------------------------------------------------
(* The inductive invariants.                                                  *)

(* Where a hand-over has begun and its flag is not yet cleared. *)
HandingOver == cpc \in {"open", "write", "flag"}

(* A hand-over of this second 0 either still has to clear the flag, and will, *)
(* because it remembers that it began at second 0, or has cleared it.         *)
OnceAtZero ==
    /\ atZero <= 1
    /\ atZero = 1 /\ second % Period = 0 =>
         \/ HandingOver /\ kirim = 0
         \/ ~HandingOver /\ cpc # "boot" /\ flagkirim = FALSE

(* A sample of this window that was not handed over has raised the flag.      *)
RaisedUnlessServed ==
    /\ decided = 2 => served = TRUE
    /\ decided # 0 /\ served = FALSE => ~HandingOver /\ cpc # "boot" /\ flagkirim = TRUE

LEMMA FlagInits == CollectInit => OnceAtZero /\ RaisedUnlessServed
BY DEF CollectInit, OnceAtZero, RaisedUnlessServed

(* What a decision does, by the second and the flag. *)
LEMMA Decision ==
    ASSUME CollectBools, CollectData, IntervalKirim
    PROVE  LET k == second % Period IN
           /\ k \in 0 .. Period - 1 /\ cpc = "interval" /\ kirim' = k /\ second' = second
           /\ k <= Window /\ flagkirim = TRUE =>
                /\ cpc' = "open" /\ served' = TRUE
                /\ atZero' = IF k = 0 THEN atZero + 1 ELSE atZero
           /\ ~(k <= Window /\ flagkirim = TRUE) =>
                /\ cpc' = "rest" /\ served' = served /\ atZero' = atZero
                /\ k = 0 => flagkirim' = flagkirim
                /\ k # 0 => flagkirim' = TRUE
           /\ decided' = IF k \in 1 .. Window /\ decided < 2 THEN decided + 1 ELSE decided
<1> DEFINE k == second % Period
<1>1. k \in 0 .. Period - 1
    BY Remainders, CollectAssumption DEF CollectData
<1>2. 0 <= k /\ k \in Int /\ Window \in Int
    BY <1>1, CollectAssumption
<1>3. cpc = "interval" /\ kirim' = k /\ second' = second
    BY DEF IntervalKirim, Step
<1>4. decided' = IF k \in 1 .. Window /\ decided < 2 THEN decided + 1 ELSE decided
    BY DEF IntervalKirim
<1>5. flagkirim = TRUE \/ flagkirim = FALSE
    BY Zenon DEF CollectBools
<1> HIDE DEF k
<1>6. ASSUME k <= Window, flagkirim = TRUE
      PROVE  cpc' = "open" /\ served' = TRUE /\ atZero' = IF k = 0 THEN atZero + 1 ELSE atZero
    <2>1. Due(k)
        BY <1>2, <1>6, Zenon DEF Due
    <2>2. cpc' = "open" /\ atZero' = IF k = 0 THEN atZero + 1 ELSE atZero
        BY <2>1, Zenon DEF IntervalKirim, Step, k
    <2>3. served' = TRUE
        BY <2>1, Zenon DEF IntervalKirim, k, CollectBools
    <2> QED
        BY <2>2, <2>3
<1>7. ASSUME ~(k <= Window /\ flagkirim = TRUE)
      PROVE  /\ cpc' = "rest" /\ served' = served /\ atZero' = atZero
             /\ k = 0 => flagkirim' = flagkirim
             /\ k # 0 => flagkirim' = TRUE
    <2>1. ~Due(k)
        BY <1>5, <1>7, Zenon DEF Due
    <2>2. cpc' = "rest" /\ atZero' = atZero
        BY <2>1, Zenon DEF IntervalKirim, Step, k
    <2>3. served' = served
        BY <2>1, Zenon DEF IntervalKirim, k, CollectBools
    <2>4. flagkirim' = FlagAfter(flagkirim, k)
        BY <2>1, Zenon DEF IntervalKirim, k
    <2>5. (k = 0 => flagkirim' = flagkirim) /\ (k # 0 => flagkirim' = TRUE)
        BY <1>5, <2>4, Zenon DEF FlagAfter
    <2> QED
        BY <2>2, <2>3, <2>5
<1> QED
    BY <1>1, <1>3, <1>4, <1>6, <1>7 DEF k

LEMMA FlagSteps ==
    CollectBools /\ CollectData /\ OnceAtZero /\ RaisedUnlessServed /\ [CollectNext]_collectVars
    => OnceAtZero' /\ RaisedUnlessServed'
<1> SUFFICES ASSUME CollectBools, CollectData, OnceAtZero, RaisedUnlessServed,
                    [CollectNext]_collectVars
             PROVE  OnceAtZero' /\ RaisedUnlessServed'
    OBVIOUS
<1>0. /\ atZero \in Nat /\ decided \in 0 .. 2
      /\ served \in {TRUE, FALSE} /\ flagkirim \in {TRUE, FALSE}
    BY Zenon DEF CollectData, CollectBools
(* A step within the loop that decides nothing and clears nothing. *)
<1>1. ASSUME UNCHANGED <<flagkirim, kirim, second, atZero, decided, served>>,
             HandingOver' = HandingOver, cpc' # "boot" \/ cpc' = cpc
      PROVE  OnceAtZero' /\ RaisedUnlessServed'
    BY <1>1 DEF OnceAtZero, RaisedUnlessServed
<1>2. CASE UNCHANGED collectVars \/ UsbChanges
    <2>1. UNCHANGED <<cpc, flagkirim, kirim, second, atZero, decided, served>>
        BY <1>2, Zenon DEF collectVars, UsbChanges, ctlVars, histVars
    <2> QED
        BY <1>1, <2>1 DEF HandingOver
<1>3. CASE Read \/ Parse \/ Rest \/ Pause \/ Open \/ OpenFails \/ Write
    <2>1. UNCHANGED <<flagkirim, kirim, second, atZero, decided, served>>
        BY <1>3, Zenon DEF Read, Parse, Rest, Pause, Open, OpenFails, Write, histVars
    <2>2. HandingOver' = HandingOver /\ cpc' # "boot"
        BY <1>3 DEF Read, Parse, Rest, Pause, Open, OpenFails, Write, Step, HandingOver
    <2> QED
        BY <1>1, <2>1, <2>2
<1>4. CASE Boot \/ Kill
    <2>1. CASE Kill
        BY <2>1 DEF Kill, CollectRestarts, OnceAtZero, RaisedUnlessServed
    <2>2. CASE Boot
        <3>1. cpc = "boot" /\ cpc' = "read" /\ UNCHANGED <<second, atZero, decided, served>>
            BY <2>2 DEF Boot, Step, histVars
        <3>2. flagkirim' = TRUE
            BY <2>2, Zenon DEF Boot
        <3>3. ~(atZero = 1 /\ second % Period = 0)
            BY <3>1 DEF OnceAtZero, HandingOver
        <3> QED
            BY <3>1, <3>2, <3>3 DEF OnceAtZero, RaisedUnlessServed, HandingOver
    <2> QED
        BY <1>4, <2>1, <2>2
<1>5. CASE ClearFlag
    <2>1. /\ cpc = "flag" /\ cpc' = "rest"
          /\ UNCHANGED <<kirim, second, atZero, decided, served>>
        BY <1>5 DEF ClearFlag, Step, histVars
    <2>2. kirim = 0 => flagkirim' = FALSE
        BY <1>5, Zenon DEF ClearFlag, FlagAfter
    <2> QED
        BY <2>1, <2>2 DEF OnceAtZero, RaisedUnlessServed, HandingOver
<1>6. CASE IntervalKirim
    <2> DEFINE k == second % Period
    <2>1. k \in 0 .. Period - 1 /\ Window \in Nat
        BY <1>6, Decision, CollectAssumption
    <2>2. CASE k <= Window /\ flagkirim = TRUE
        <3>1. /\ cpc = "interval" /\ cpc' = "open" /\ kirim' = k /\ second' = second
              /\ served' = TRUE /\ atZero' = IF k = 0 THEN atZero + 1 ELSE atZero
            BY <1>6, <2>2, Decision
        <3>2. k = 0 => atZero = 0
            BY <1>0, <2>2, <3>1 DEF OnceAtZero, HandingOver
        <3> QED
            BY <3>1, <3>2 DEF OnceAtZero, RaisedUnlessServed, HandingOver
    <2>3. CASE ~(k <= Window /\ flagkirim = TRUE)
        <3>1. /\ cpc = "interval" /\ cpc' = "rest" /\ second' = second
              /\ served' = served /\ atZero' = atZero
              /\ k = 0 => flagkirim' = flagkirim
              /\ k # 0 => flagkirim' = TRUE
              /\ decided' = IF k \in 1 .. Window /\ decided < 2 THEN decided + 1 ELSE decided
            BY <1>6, <2>3, Decision
        <3>2. OnceAtZero'
            BY <3>1 DEF OnceAtZero, HandingOver
        <3>3. RaisedUnlessServed'
            BY <1>0, <2>1, <2>3, <3>1 DEF RaisedUnlessServed, HandingOver
        <3> QED
            BY <3>2, <3>3
    <2> QED
        BY <2>2, <2>3
<1>7. CASE NextSecond
    <2>1. UNCHANGED <<cpc, flagkirim, kirim>>
        BY <1>7 DEF NextSecond, ctlVars
    <2>2. CASE second' % Period = 0
        BY <1>7, <2>2 DEF NextSecond, OnceAtZero, RaisedUnlessServed
    <2>3. CASE second' % Period # 0
        BY <1>7, <2>1, <2>3 DEF NextSecond, histVars, OnceAtZero, RaisedUnlessServed, HandingOver
    <2> QED
        BY <2>2, <2>3
<1> QED
    BY <1>2, <1>3, <1>4, <1>5, <1>6, <1>7 DEF CollectNext, CollectStep

-----------------------------------------------------------------------------

LEMMA CollectInvariant ==
    CollectSpec => [](CollectBools /\ CollectData /\ OnceAtZero /\ RaisedUnlessServed)
BY CollectDataInit, CollectBoolsInit, CollectDataStep, CollectBoolsStep, FlagInits, FlagSteps, PTL
   DEF CollectSpec

(* The collector is well typed, and hands over at most once in each second 0  *)
(* of a window.                                                               *)
THEOREM AtMostOneHandover == CollectSpec => []OneHandoverAtZero
<1>1. CollectBools /\ CollectData => CollectTypeOK
    BY Zenon DEF CollectBools, CollectData, CollectTypeOK
<1>2. CollectBools /\ CollectData /\ OnceAtZero => OneHandoverAtZero
    BY <1>1 DEF OnceAtZero, OneHandoverAtZero
<1> QED
    BY <1>2, CollectInvariant, PTL

(* A window with two samples after its second 0 has had a hand-over.          *)
THEOREM NoWindowSkipped == CollectSpec => []WindowServed
<1>1. RaisedUnlessServed => WindowServed
    BY Zenon DEF RaisedUnlessServed, WindowServed
<1> QED
    BY <1>1, CollectInvariant, PTL
=============================================================================
