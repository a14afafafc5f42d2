------------------------------- MODULE Portal -------------------------------
(* WiFiManager: the node's captive portal.  autoConnect() tries the saved     *)
(* network and opens the portal when that fails; the portal's loop serves DNS *)
(* (Dns.tla; it shares no state with the rest) and HTTP until a form is saved *)
(* and the new network joined, or the timeout is reached.                     *)
EXTENDS HttpServer, FiniteSets

CONSTANTS
    Nets,           \* SSIDs
    Setups,         \* of the object and of flash, when the sketch begins
    Blank,          \* the empty string
    PortalTimeout   \* setConfigPortalTimeout(), when it is called

ASSUME PortalAssumption ==
    /\ PortalTimeout \in Nat \ {0}
    /\ Setups \subseteq [timeout : {0, PortalTimeout}, brk : BOOLEAN, flash : Nets \cup {Blank}]
    /\ Blank \notin Nets /\ None \notin Nets \cup {Blank}
    /\ \A r \in Requests : {r.q, r.b} \subseteq Seq(Nets \cup {Blank})

VARIABLES
    wm,      \* the object: connect flag, _ssid, _configPortalTimeout, break-after-config
    open,    \* ticks since _configPortalStart
    wifi,    \* the station: whether connected, to what or trying what, what flash holds
    session  \* history of this portal: form saved, joins begun, what the save callback saw

portalVars == <<httpVars, wm, open, wifi, session>>

NewSession == [saved |-> FALSE, tried |-> 0, told |-> "no"]
Places     == {"caller", "autojoin", "loop", "http", "body", "form", "handle", "join", "restart"}
InPortal   == at \in Places \ {"caller", "autojoin", "restart"}

PortalTypeOK ==
    /\ HttpTypeOK
    /\ at \in Places
    /\ wm \in [connect : BOOLEAN, ssid : Nets \cup {Blank}, timeout : {0, PortalTimeout}, brk : BOOLEAN]
    /\ open \in 0 .. PortalTimeout + 1
    /\ wifi \in [up : BOOLEAN, try : Nets \cup {None}, flash : Nets \cup {Blank}]
    /\ session.told \in {"no", "joined", "failed"}

PortalInit ==
    /\ at = "caller"
    /\ HttpServerInit
    /\ \E s \in Setups :
         /\ wm = [connect |-> FALSE, ssid |-> Blank, timeout |-> s.timeout, brk |-> s.brk]
         /\ wifi = [up |-> FALSE, try |-> None, flash |-> s.flash]
    /\ open = 0
    /\ session = NewSession

-----------------------------------------------------------------------------
(* connectWifi(): a station that is connected stays where it is and counts as *)
(* the result; an empty name means the network in flash.                      *)
Target(ssid) == IF ssid # Blank THEN ssid ELSE IF wifi.flash # Blank THEN wifi.flash ELSE wifi.try

BeginJoin(ssid) ==
    /\ ~wifi.up
    /\ wifi' = [wifi EXCEPT !.try = Target(ssid), !.flash = IF ssid # Blank THEN ssid ELSE @]

(* waitForConnectResult(): connected, or refused or given up.                 *)
JoinSucceeds == wifi.try # None /\ wifi' = [wifi EXCEPT !.up = TRUE]
JoinGivenUp  == UNCHANGED wifi

-----------------------------------------------------------------------------
(* The calls of the sketch.                                                   *)

AutoConnect ==
    /\ at = "caller"
    /\ BeginJoin(Blank)
    /\ at' = "autojoin"
    /\ UNCHANGED <<net, queue, srv, wm, open, session>>

AutoJoined ==
    /\ at = "autojoin" /\ JoinSucceeds
    /\ at' = "caller"
    /\ UNCHANGED <<net, queue, srv, wm, open, session>>

(* setupConfigPortal(): a new server and DNS server, and the clock starts.    *)
OpenPortal ==
    /\ at' = "loop"
    /\ wm' = [wm EXCEPT !.connect = FALSE]
    /\ open' = 0
    /\ session' = NewSession
    /\ UNCHANGED <<net, queue, srv>>

AutoJoinFailed ==
    /\ at = "autojoin" /\ JoinGivenUp
    /\ OpenPortal

StartConfigPortal ==
    /\ at = "caller"
    /\ OpenPortal
    /\ UNCHANGED wifi

(* Both servers go; the answer is whether the station is connected now.       *)
ClosePortal ==
    /\ at' = "caller"
    /\ ServerIsReset

-----------------------------------------------------------------------------
(* The loop of startConfigPortal().                                           *)

(* configPortalHasTimeout(): without a timeout the start moves along.         *)
TimedOut == wm.timeout # 0 /\ open > wm.timeout

LeaveByTimeout ==
    /\ at = "loop" /\ ~wm.connect /\ TimedOut
    /\ ClosePortal
    /\ UNCHANGED <<wm, open, wifi, session>>

(* Mutant: every round starts the clock again.                                *)
Serve_StartsAgain ==
    /\ at = "loop" /\ ~wm.connect /\ ~TimedOut
    /\ open' = 0
    /\ at' = "http"
    /\ UNCHANGED <<net, queue, srv, wm, wifi, session>>

(* DNS, then HTTP.                                                            *)
Serve ==
    /\ at = "loop" /\ ~wm.connect /\ ~TimedOut
    /\ open' = IF wm.timeout = 0 THEN 0 ELSE open
    /\ at' = "http"
    /\ UNCHANGED <<net, queue, srv, wm, wifi, session>>

Tries == session' = [session EXCEPT !.tried = IF @ > 1 THEN @ ELSE @ + 1]

(* Mutant: the flag is not taken back.                                        *)
ConnectFlag_Kept ==
    /\ at = "loop" /\ wm.connect
    /\ BeginJoin(wm.ssid)
    /\ Tries
    /\ at' = "join"
    /\ UNCHANGED <<net, queue, srv, wm, open>>

(* Mutant: the name in the form is not used.                                  *)
ConnectFlag_OldName ==
    /\ at = "loop" /\ wm.connect
    /\ wm' = [wm EXCEPT !.connect = FALSE]
    /\ BeginJoin(Blank)
    /\ Tries
    /\ at' = "join"
    /\ UNCHANGED <<net, queue, srv, open>>

(* handleWifiSave() set the flag: two seconds later the new network is tried. *)
ConnectFlag ==
    /\ at = "loop" /\ wm.connect
    /\ wm' = [wm EXCEPT !.connect = FALSE]
    /\ BeginJoin(wm.ssid)
    /\ Tries
    /\ at' = "join"
    /\ UNCHANGED <<net, queue, srv, open>>

(* "Already connected. Bailing out.": the new network is not even tried.      *)
AlreadyConnected ==
    /\ at = "loop" /\ wm.connect /\ wifi.up
    /\ wm' = [wm EXCEPT !.connect = FALSE]
    /\ session' = [session EXCEPT !.told = "joined", !.tried = 1]
    /\ ClosePortal
    /\ UNCHANGED <<open, wifi>>

(* The new network is joined: STA mode, save callback, done.                  *)
Joined ==
    /\ at = "join" /\ JoinSucceeds
    /\ session' = [session EXCEPT !.told = "joined"]
    /\ ClosePortal
    /\ UNCHANGED <<wm, open>>

(* Break-after-config: the save callback is called all the same.              *)
JoinFailedBreak ==
    /\ at = "join" /\ JoinGivenUp /\ wm.brk
    /\ session' = [session EXCEPT !.told = "failed"]
    /\ ClosePortal
    /\ UNCHANGED <<wm, open>>

JoinFailed ==
    /\ at = "join" /\ JoinGivenUp /\ ~wm.brk
    /\ at' = "loop"
    /\ UNCHANGED <<net, queue, srv, wm, open, session>>

-----------------------------------------------------------------------------
(* The page handlers.                                                         *)

Page(uri) == at = "handle" /\ Cur.req.uri = uri

(* isIp(): a missing Host counts as an address.                               *)
IsIp(host) == host # "name"

(* captivePortal(): a redirect closes the connection.                         *)
Redirects == ~IsIp(srv.host)

RootOrNotFound ==
    /\ \E uri \in {"root", "other"} : Page(uri)
    /\ Handled(Redirects)
    /\ UNCHANGED <<wm, open, wifi, session>>

(* /wifi, /0wifi and /i only show; what they show is in WifiPage.tla.         *)
Shows ==
    /\ Page("wifi")
    /\ Handled(FALSE)
    /\ UNCHANGED <<wm, open, wifi, session>>

(* handleWifiSave(): the name is taken as it comes, and tried by the loop.    *)
WifiSave ==
    /\ Page("wifisave")
    /\ wm' = [wm EXCEPT !.ssid = ArgS(Blank), !.connect = TRUE]
    /\ session' = [session EXCEPT !.saved = TRUE, !.tried = 0]
    /\ Handled(FALSE)
    /\ UNCHANGED <<open, wifi>>

(* /r: answers, waits and restarts the chip.                                  *)
Reset ==
    /\ Page("reset")
    /\ at' = "restart"
    /\ UNCHANGED <<net, queue, srv, wm, open, wifi, session>>

(* A new boot; only flash is left.                                            *)
Restarts ==
    /\ at = "restart"
    /\ at' = "caller"
    /\ ServerIsReset
    /\ wm' = [wm EXCEPT !.connect = FALSE, !.ssid = Blank]
    /\ open' = 0
    /\ wifi' = [wifi EXCEPT !.up = FALSE, !.try = None]
    /\ session' = NewSession

HttpCall == CallStep /\ UNCHANGED <<wm, open, wifi, session>>

Handler == RootOrNotFound \/ Shows \/ WifiSave \/ Reset

PortalStep ==
    \/ AutoJoined \/ AutoJoinFailed
    \/ LeaveByTimeout \/ Serve \/ ConnectFlag \/ AlreadyConnected \/ Joined \/ JoinFailedBreak \/ JoinFailed
    \/ Handler \/ HttpCall \/ Restarts

SketchStep == AutoConnect \/ StartConfigPortal

-----------------------------------------------------------------------------
(* Peers, the radio and the clock, which act where the firmware looks at what *)
(* they change: between two calls, while it waits, and before it hangs up.    *)

Looks == at \in {"loop", "body", "form", "handle"}

PeerStep ==
    /\ Looks
    /\ \E c \in Clients :
         PeerConnects(c) \/ PeerSends(c) \/ PeerSendsPart(c) \/ PeerSendsRest(c) \/ PeerCloses(c)
    /\ UNCHANGED <<wm, open, wifi, session>>

(* An attempt that was given up may succeed late.                             *)
LateJoin ==
    /\ at \in {"caller", "loop"} /\ ~wifi.up /\ wifi.try # None
    /\ wifi' = [wifi EXCEPT !.up = TRUE]
    /\ UNCHANGED <<httpVars, wm, open, session>>

LinkLost ==
    /\ at \in {"caller", "loop"} /\ wifi.up
    /\ wifi' = [wifi EXCEPT !.up = FALSE]
    /\ UNCHANGED <<httpVars, wm, open, session>>

Tick ==
    /\ InPortal
    /\ SinceTick
    /\ open' = IF wm.timeout # 0 /\ open <= wm.timeout THEN open + 1 ELSE open
    /\ UNCHANGED <<at, net, queue, wm, wifi, session>>

PortalNext == PortalStep \/ SketchStep \/ PeerStep \/ LateJoin \/ LinkLost \/ Tick

PortalSpec == PortalInit /\ [][PortalNext]_portalVars

(* The firmware runs and time passes.                                         *)
PortalFairSpec == PortalSpec /\ WF_portalVars(PortalStep) /\ WF_portalVars(Tick)

-----------------------------------------------------------------------------
(* A handler runs on the arguments and the Host of the request it answers     *)
(* (Parsing.cpp 66-256).  Two cases are excepted, in which the code lets it   *)
(* see an earlier request's: a POST of length 0, and a missing Host.          *)
HandledAsSent ==
    (at = "handle") =>
        /\ Cur.req.body # "empty" => ToSet(srv.args) = ToSet(Cur.req.q \o Cur.req.b)
        /\ Cur.req.host # None => srv.host = Cur.req.host

(* Only the current client is open, and it is the one being answered: a       *)
(* second never gets the first one's answer (WebServer.cpp 166-228).          *)
PortalInv ==
    /\ PortalTypeOK
    /\ {c \in Clients : net[c].st = "open"} = {srv.client} \ {None}
    /\ {c \in Clients : net[c].st = "queued"} = ToSet(queue)
    /\ at \in {"body", "form", "handle"} => srv.client # None /\ Cur.arrived # "none"

(* A portal that ends well after a form joined the network in that form       *)
(* (217-229), unless it had been connected before or named none.              *)
JoinsWhatWasSaved ==
    [][(session'.told = "joined" /\ session.told # "joined" /\ ~wifi.up /\ wm.ssid # Blank)
          => wifi'.try = wm.ssid /\ wifi'.flash = wm.ssid]_portalVars

(* The portal closes by its timeout, or with a connection, or, with           *)
(* break-after-config, without one; in the last two cases a form was saved    *)
(* and its network tried once, and the save callback was told (201-251).      *)
LeavesForAReason ==
    [][(InPortal /\ at' = "caller") =>
          \/ wm.timeout # 0 /\ open > wm.timeout /\ session'.told = "no"
          \/ /\ session'.saved /\ session'.tried = 1
             /\ session'.told = "joined" \/ (session'.told = "failed" /\ wm.brk)]_portalVars

(* A connected peer that waits is accepted in the end, whatever the one       *)
(* before it does (silence, half a request, not closing), unless a form never *)
(* ends or the portal does (WebServer.cpp 166-228).                           *)
WaiterServed ==
    \A c \in Clients : (net[c].st = "queued") ~> (net[c].st # "queued" \/ at = "form")

(* With a timeout the portal comes to an end, however often forms are saved   *)
(* and fail, unless a form is being read (166-177, 203).                      *)
TimeoutEndsOrForm == (InPortal /\ wm.timeout # 0) ~> (~InPortal \/ at = "form")

(* README.md of WiFiManager, "Configuration Portal Timeout": "When the time   *)
(* passes, the autoConnect function will return, no matter the outcome."      *)
TimeoutReturns == (InPortal /\ wm.timeout # 0) ~> ~InPortal
=============================================================================
