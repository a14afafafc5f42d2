------------------------------ MODULE WifiPage ------------------------------
(* WiFiManager's form: the list of networks it shows and the sketch's own     *)
(* parameters, from addParameter() over the form to what is stored.  A value  *)
(* is its length: none holds a quote, which the form would not show.          *)
EXTENDS Integers, Sequences, SequencesExt

CONSTANTS
    Scans,        \* results of scanNetworks(): sequences of [ssid, rssi]
    MinQualities, \* setMinimumSignalQuality(): -1 when it was not called
    MaxParams,    \* WIFI_MANAGER_MAX_PARAMS
    ParamLengths, \* the length a parameter is declared with
    Behind,       \* how many characters follow the memory of a value before a 0 does
    Typed,        \* lengths a user types
    Forms         \* bound: forms opened one after the other

ASSUME PageAssumption ==
    /\ MaxParams \in Nat /\ Forms \in Nat
    /\ ParamLengths \subseteq Nat \ {0} /\ Behind \subseteq Nat /\ Typed \subseteq Nat
    /\ \A s \in Scans : /\ Len(s) \in Nat /\ DOMAIN s = 1 .. Len(s)
                        /\ \A i \in DOMAIN s : s[i].rssi \in Int

VARIABLES
    minQuality,   \* _minimumQuality
    params,       \* _params: the length declared and the length of the value
    refused,      \* how many parameters addParameter() skipped
    scan,         \* the scan's result
    indices,      \* handleWifi()'s indices, 0 for -1
    shown,        \* the networks on the page, best first
    lost,         \* history: of each parameter, how often it was changed by a form
                  \* that was saved as it had been shown
    opened,       \* forms opened
    wpc           \* "setup", "open", "sort", "dedup", "show", "form"

pageVars == <<minQuality, params, refused, scan, indices, shown, lost, opened, wpc>>

(* getRSSIasQuality()                                                         *)
Quality(rssi) == IF rssi <= -100 THEN 0 ELSE IF rssi >= -50 THEN 100 ELSE 2 * (rssi + 100)

PageInit ==
    /\ minQuality \in MinQualities
    /\ params = <<>> /\ refused = 0 /\ lost = <<>>
    /\ scan = <<>> /\ indices = <<>> /\ shown = <<>>
    /\ opened = 0
    /\ wpc = "setup"

(* A default as long as the parameter or longer fills it, and its end is      *)
(* wherever the memory behind holds a 0.                                      *)
Default(n, d) == IF d < n THEN {d} ELSE {n + b : b \in Behind}

AddParameter == \E n \in ParamLengths, d \in Typed :
    /\ wpc = "setup" /\ refused = 0
    /\ IF Len(params) + 1 > MaxParams
       THEN refused' = refused + 1 /\ UNCHANGED <<params, lost>>
       ELSE /\ \E v \in Default(n, d) : params' = Append(params, [length |-> n, value |-> v])
            /\ lost' = Append(lost, 0)
            /\ UNCHANGED refused
    /\ UNCHANGED <<minQuality, scan, indices, shown, opened, wpc>>

ScanNetworks == \E s \in Scans :
    /\ wpc \in {"setup", "form"} /\ opened < Forms
    /\ opened' = opened + 1
    /\ scan' = s
    /\ indices' = [i \in DOMAIN s |-> i]
    /\ shown' = <<>>
    /\ wpc' = "sort"
    /\ UNCHANGED <<minQuality, params, refused, lost>>

(* Mutant: duplicates are looked for in the order of the scan.                *)
RssiSort_Missing ==
    /\ wpc = "sort"
    /\ wpc' = "dedup"
    /\ UNCHANGED <<minQuality, params, refused, scan, indices, shown, lost, opened>>

(* Exchanges until the strongest come first; equals in any order.             *)
StrongestFirst ==
    { p \in Bijection(DOMAIN scan, DOMAIN scan) :
        \A i, j \in DOMAIN p : i < j => scan[p[i]].rssi >= scan[p[j]].rssi }

RssiSort ==
    /\ wpc = "sort"
    /\ indices' \in StrongestFirst
    /\ wpc' = "dedup"
    /\ UNCHANGED <<minQuality, params, refused, scan, shown, lost, opened>>

(* Of each name the first stays.                                              *)
WithoutDuplicates(p) ==
    [j \in DOMAIN p |-> IF \E i \in 1 .. j - 1 : scan[p[i]].ssid = scan[p[j]].ssid THEN 0 ELSE p[j]]

RemoveDuplicates ==
    /\ wpc = "dedup"
    /\ indices' = WithoutDuplicates(indices)
    /\ wpc' = "show"
    /\ UNCHANGED <<minQuality, params, refused, scan, shown, lost, opened>>

GoodEnough(rssi) == minQuality = -1 \/ minQuality < Quality(rssi)

(* The places that are shown, each once and in their order.                   *)
Kept == {j \in DOMAIN indices : indices[j] # 0 /\ GoodEnough(scan[indices[j]].rssi)}

ShowNetworks ==
    /\ wpc = "show"
    /\ \E n \in 0 .. Len(scan) : \E at \in Bijection(1 .. n, Kept) :
         /\ \A k, l \in 1 .. n : k < l => at[k] < at[l]
         /\ shown' = [k \in 1 .. n |-> scan[indices[at[k]]]]
    /\ wpc' = "form"
    /\ UNCHANGED <<minQuality, params, refused, scan, indices, lost, opened>>

(* Mutant: toCharArray() is given the length of what was sent.                *)
Stored_SentSize(p, n) == IF n = 0 THEN 0 ELSE n - 1

(* toCharArray(_value, _length): at most one character less is stored.        *)
Stored(p, n) == Min({n, p.length - 1})

(* handleWifiSave(): each parameter gets the argument of its name, which is   *)
(* what the field showed unless somebody typed into it.  The form's length    *)
(* attribute is not one that limits what is typed.                            *)
WifiSaveParams ==
    /\ wpc = "form"
    /\ \E touched \in SUBSET DOMAIN params : \E typed \in [touched -> Typed] :
         LET Sent(i)    == IF i \in touched THEN typed[i] ELSE params[i].value
             Changed(i) == i \notin touched /\ Stored(params[i], Sent(i)) # params[i].value
         IN /\ params' = [i \in DOMAIN params |-> [params[i] EXCEPT !.value = Stored(params[i], Sent(i))]]
            /\ lost' = [i \in DOMAIN params |-> lost[i] + IF Changed(i) THEN 1 ELSE 0]
    /\ scan' = <<>> /\ indices' = <<>> /\ shown' = <<>>
    /\ wpc' = "setup"
    /\ UNCHANGED <<minQuality, refused, opened>>

PageNext ==
    \/ AddParameter \/ ScanNetworks \/ RssiSort \/ RemoveDuplicates \/ ShowNetworks \/ WifiSaveParams

PageSpec == PageInit /\ [][PageNext]_pageVars

-----------------------------------------------------------------------------
Names(s) == {s[i].ssid : i \in DOMAIN s}
Best(ssid) == Max({scan[i].rssi : i \in {j \in DOMAIN scan : scan[j].ssid = ssid}})

(* The list holds each network once, with its best signal, and those below    *)
(* the least quality not at all, strongest first (handleWifi 444-510).        *)
StrongestShownOnce ==
    wpc = "form" =>
        /\ Names(shown) = {ssid \in Names(scan) : GoodEnough(Best(ssid))}
        /\ \A i, j \in DOMAIN shown : shown[i].ssid = shown[j].ssid => i = j
        /\ \A i, j \in DOMAIN shown : i < j => shown[i].rssi >= shown[j].rssi
        /\ \A i \in DOMAIN shown : shown[i].rssi = Best(shown[i].ssid)

(* A form opened and saved as it was shown, however often and whatever was    *)
(* typed in between, changes a parameter once at most: the default that fills *)
(* its memory is cut when it first comes back, and nothing is cut again       *)
(* (init 38-53, handleWifi 516-537, handleWifiSave 592-604).                  *)
CutOnce == \A i \in DOMAIN params : lost[i] <= 1
=============================================================================
