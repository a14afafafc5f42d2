----------------------------- MODULE HttpServer -----------------------------
(* WebServer: the single-client HTTP server under the portal.  handleClient() *)
(* is called again and again by its owner; a call accepts, waits, reads one   *)
(* request, has it handled, or waits for the peer to close.  The head of a    *)
(* request arrives at once, its body may come later or never.  The wording of *)
(* requests and answers is left out: a request is a record                    *)
(*   [valid, method, uri, host, body, q, b]                                   *)
(* where q and b are the values of the argument "s" in its query and body.    *)
EXTENDS Integers, Sequences, SequencesExt

CONSTANTS
    Clients,     \* peers, each with at most one connection at a time
    Sends,       \* of each peer: the requests it may send
    None,        \* no client, no request, no header
    DataWait,    \* HTTP_MAX_DATA_WAIT
    PostWait,    \* HTTP_MAX_POST_WAIT
    FormWait,    \* three timeouts of readStringUntil()
    CloseWait    \* HTTP_MAX_CLOSE_WAIT

Requests == UNION Range(Sends)
Bodies   == {"none", "empty", "encoded", "plain", "form", "file"}

ASSUME HttpAssumption ==
    /\ DOMAIN Sends = Clients
    /\ {DataWait, PostWait, FormWait, CloseWait} \subseteq Nat
    /\ None \notin Clients /\ None \notin Requests
    /\ \A r \in Requests : /\ r.body \in Bodies
                           /\ r.body \in {"none", "empty", "plain"} => r.b = <<>>

VARIABLES
    at,      \* where the one thread is: in its owner's code or in handleClient()
    net,     \* of each peer: its connection, what it sent and how much has arrived
    queue,   \* accepted by the network, not yet by the server
    srv      \* the server's members: status, client, since, host, args

httpVars == <<at, net, queue, srv>>

Away    == [st |-> "away", up |-> FALSE, req |-> None, arrived |-> "none"]
Longest == Max({DataWait, PostWait, FormWait, CloseWait})

HttpTypeOK ==
    /\ net \in [Clients -> [st : {"away", "queued", "open"}, up : BOOLEAN,
                            req : Requests \cup {None}, arrived : {"none", "head", "part", "all"}]]
    /\ queue \in Seq(Clients) /\ IsInjective(queue)
    /\ srv.status \in {"none", "wait_read", "wait_close"}
    /\ srv.client \in Clients \cup {None}
    /\ srv.since \in 0 .. Longest + 1

(* The constructor; begin() leaves the backlog to the network.                *)
HttpServerInit ==
    /\ net = [c \in Clients |-> Away]
    /\ queue = <<>>
    /\ srv = [status |-> "none", client |-> None, since |-> 0, host |-> None, args |-> <<>>]

(* server.reset(): every connection goes with the server.                     *)
ServerIsReset ==
    /\ net' = [c \in Clients |-> Away]
    /\ queue' = <<>>
    /\ srv' = [status |-> "none", client |-> None, since |-> 0, host |-> None, args |-> <<>>]

Cur       == net[srv.client]
Connected == srv.client # None /\ Cur.up
ToOwner   == at' = "loop"
Free      == [srv EXCEPT !.status = "none", !.client = None, !.since = 0]

(* Mutant: the server forgets the client and leaves its connection open.      *)
Drop_LeavesOpen ==
    /\ srv' = Free
    /\ UNCHANGED <<net, queue>>
    /\ ToOwner

(* _currentClient = WiFiClient(): the connection is closed.                   *)
Drop ==
    /\ srv' = Free
    /\ net' = [net EXCEPT ![srv.client] = Away]
    /\ UNCHANGED queue
    /\ ToOwner

-----------------------------------------------------------------------------
(* handleClient() up to the request.                                          *)

NobodyWaits ==
    /\ at = "http" /\ srv.status = "none" /\ queue = <<>>
    /\ ToOwner
    /\ UNCHANGED <<net, queue, srv>>

(* server.available(), as soon as the last client is gone.                    *)
Accept ==
    /\ at = "http" /\ srv.status = "none" /\ queue # <<>>
    /\ srv' = [srv EXCEPT !.status = "wait_read", !.client = Head(queue), !.since = 0]
    /\ net' = [net EXCEPT ![Head(queue)].st = "open"]
    /\ queue' = Tail(queue)
    /\ UNCHANGED at

InCall == at = "http" /\ srv.status # "none"

FoundGone == InCall /\ ~Connected /\ Drop

StillSilent ==
    /\ InCall /\ Connected /\ srv.status = "wait_read" /\ Cur.arrived = "none"
    /\ srv.since <= DataWait
    /\ ToOwner
    /\ UNCHANGED <<net, queue, srv>>

SilentTooLong ==
    /\ InCall /\ Connected /\ srv.status = "wait_read" /\ Cur.arrived = "none"
    /\ srv.since > DataWait
    /\ Drop

StillOpen ==
    /\ InCall /\ Connected /\ srv.status = "wait_close" /\ srv.since <= CloseWait
    /\ ToOwner
    /\ UNCHANGED <<net, queue, srv>>

(* Mutant: a peer that does not close is waited for.                          *)
OpenTooLong_Waits ==
    /\ InCall /\ Connected /\ srv.status = "wait_close" /\ srv.since > CloseWait
    /\ ToOwner
    /\ UNCHANGED <<net, queue, srv>>

OpenTooLong ==
    /\ InCall /\ Connected /\ srv.status = "wait_close" /\ srv.since > CloseWait
    /\ Drop

-----------------------------------------------------------------------------
(* _parseRequest().                                                           *)

Reads(r) ==
    /\ InCall /\ Connected /\ srv.status = "wait_read"
    /\ Cur.arrived # "none"
    /\ r = Cur.req

(* A Host header overwrites the last one; a request without one leaves it.    *)
HostAfter(r) == IF r.host = None THEN srv.host ELSE r.host

InvalidLine == \E r \in Requests :
    /\ Reads(r) /\ ~r.valid
    /\ Drop

(* Mutant: the query is only looked at when there is one.                     *)
WithoutBody_KeepsArgs == \E r \in Requests :
    /\ Reads(r) /\ r.valid /\ r.body = "none"
    /\ srv' = [srv EXCEPT !.host = HostAfter(r), !.args = IF r.q = <<>> THEN @ ELSE r.q]
    /\ at' = "handle"
    /\ UNCHANGED <<net, queue>>

(* GET and OPTIONS: the arguments are those of the query.                     *)
WithoutBody == \E r \in Requests :
    /\ Reads(r) /\ r.valid /\ r.body = "none"
    /\ srv' = [srv EXCEPT !.host = HostAfter(r), !.args = r.q]
    /\ at' = "handle"
    /\ UNCHANGED <<net, queue>>

(* A POST of length 0 that is no form never reaches _parseArguments: the      *)
(* arguments of the request before it stay.                                   *)
EmptyBody == \E r \in Requests :
    /\ Reads(r) /\ r.valid /\ r.body = "empty"
    /\ srv' = [srv EXCEPT !.host = HostAfter(r)]
    /\ at' = "handle"
    /\ UNCHANGED <<net, queue>>

ReadsHead == \E r \in Requests :
    /\ Reads(r) /\ r.valid /\ r.body \in {"encoded", "plain"}
    /\ srv' = [srv EXCEPT !.host = HostAfter(r), !.since = 0]
    /\ at' = "body"
    /\ UNCHANGED <<net, queue>>

(* readBytesWithTimeout() does not ask whether the peer is still connected.   *)
BodyArrived ==
    /\ at = "body" /\ Cur.arrived = "all"
    /\ srv' = [srv EXCEPT !.args = IF Cur.req.body = "encoded" THEN Cur.req.q \o Cur.req.b ELSE Cur.req.q]
    /\ at' = "handle"
    /\ UNCHANGED <<net, queue>>

BodyMissing ==
    /\ at = "body" /\ Cur.arrived # "all" /\ srv.since > PostWait
    /\ Drop

ReadsFormHead == \E r \in Requests :
    /\ Reads(r) /\ r.valid /\ r.body \in {"form", "file"}
    /\ srv' = [srv EXCEPT !.host = HostAfter(r), !.args = r.q, !.since = 0]
    /\ at' = "form"
    /\ UNCHANGED <<net, queue>>

(* _parseForm(): no first boundary after three tries.                         *)
FormMissing ==
    /\ at = "form" /\ Cur.arrived = "head" /\ srv.since > FormWait
    /\ Drop

(* The values of the form come before those of the query.  Past its first     *)
(* boundary the loops end only with the form, or in a file without a sender.  *)
FormArrived ==
    /\ at = "form" /\ Cur.arrived = "all"
    /\ srv' = [srv EXCEPT !.args = Cur.req.b \o @]
    /\ at' = "handle"
    /\ UNCHANGED <<net, queue>>

FileAborted ==
    /\ at = "form" /\ Cur.req.body = "file" /\ Cur.arrived = "part" /\ ~Cur.up
    /\ Drop

(* arg("s"): the first argument of that name, or the empty string.            *)
ArgS(blank) == IF srv.args = <<>> THEN blank ELSE Head(srv.args)

-----------------------------------------------------------------------------
(* After the handler: wait for the peer to close, unless the handler closed.  *)
Handled(closes) ==
    IF closes \/ ~Connected
    THEN Drop
    ELSE /\ srv' = [srv EXCEPT !.status = "wait_close", !.since = 0]
         /\ ToOwner
         /\ UNCHANGED <<net, queue>>

CallStep ==
    \/ NobodyWaits \/ Accept \/ FoundGone \/ StillSilent \/ SilentTooLong
    \/ StillOpen \/ OpenTooLong \/ InvalidLine \/ WithoutBody \/ EmptyBody
    \/ ReadsHead \/ BodyArrived \/ BodyMissing \/ ReadsFormHead \/ FormMissing \/ FormArrived \/ FileAborted

-----------------------------------------------------------------------------
(* The peers.                                                                 *)

PeerConnects(c) ==
    /\ net[c].st = "away"
    /\ net' = [net EXCEPT ![c] = [st |-> "queued", up |-> TRUE, req |-> None, arrived |-> "none"]]
    /\ queue' = Append(queue, c)
    /\ UNCHANGED <<at, srv>>

PeerSends(c) ==
    /\ net[c].up /\ net[c].arrived = "none"
    /\ \E r \in Sends[c] :
         net' = [net EXCEPT ![c].req = r,
                            ![c].arrived = IF r.body \in {"none", "empty"} THEN "all" ELSE "head"]
    /\ UNCHANGED <<at, queue, srv>>

PeerSendsPart(c) ==
    /\ net[c].up /\ net[c].arrived = "head" /\ net[c].req.body \in {"form", "file"}
    /\ net' = [net EXCEPT ![c].arrived = "part"]
    /\ UNCHANGED <<at, queue, srv>>

PeerSendsRest(c) ==
    /\ net[c].up /\ net[c].arrived \in {"head", "part"}
    /\ net' = [net EXCEPT ![c].arrived = "all"]
    /\ UNCHANGED <<at, queue, srv>>

PeerCloses(c) ==
    /\ net[c].up
    /\ net' = [net EXCEPT ![c].up = FALSE]
    /\ UNCHANGED <<at, queue, srv>>

SinceTick == srv' = [srv EXCEPT !.since = IF @ > Longest \/ srv.status = "none" THEN @ ELSE @ + 1]
=============================================================================
