---------------------------- MODULE PortalProofs ----------------------------
(* The captive portal, for any peers, requests, networks and waits: who is    *)
(* answered and with what, which network is joined, and how a portal ends.    *)
EXTENDS Portal, SequenceTheorems, TLAPS

Values == Nets \cup {Blank}
Hosts  == {r.host : r \in Requests} \cup {None}

(* The server's members and the connections.                                  *)
ServerType ==
    /\ srv \in [status : {"none", "wait_read", "wait_close"}, client : Clients \cup {None},
                since : 0 .. Longest + 1, host : Hosts, args : Seq(Values)]
    /\ net \in [Clients -> [st : {"away", "queued", "open"}, up : BOOLEAN,
                            req : Requests \cup {None}, arrived : {"none", "head", "part", "all"}]]
    /\ queue \in Seq(Clients) /\ IsInjective(queue)

(* The server holds one connection at most, and knows it.                     *)
OneOpen ==
    /\ srv.status = "none" <=> srv.client = None
    /\ \A c \in Clients : net[c].st = "open" <=> c = srv.client
    /\ \A c \in Clients : net[c].st = "queued" <=> c \in ToSet(queue)
    /\ \A c \in Clients : net[c].arrived # "none" => net[c].req \in Requests

(* What the server has taken from the request it is reading.                  *)
Serving == at \in {"body", "form", "handle"}
Taken ==
    Serving =>
        /\ srv.client # None /\ Cur.arrived # "none"
        /\ Cur.req.host # None => srv.host = Cur.req.host
        /\ at = "body" => Cur.req.body \in {"encoded", "plain"}
        /\ at = "form" => srv.args = Cur.req.q
        /\ (at = "handle" /\ Cur.req.body # "empty")
           => ToSet(srv.args) = ToSet(Cur.req.q \o Cur.req.b)

ServerInv == ServerType /\ OneOpen /\ Taken

LEMMA LongestType == Longest \in Nat
<1>1. {DataWait, PostWait, FormWait, CloseWait} \subseteq Nat
    BY HttpAssumption
<1>2. \E x \in {DataWait, PostWait, FormWait, CloseWait} :
      \A y \in {DataWait, PostWait, FormWait, CloseWait} : x >= y
    BY <1>1
<1>3. Longest \in {DataWait, PostWait, FormWait, CloseWait}
    BY <1>2 DEF Longest, Max
<1> QED
    BY <1>1, <1>3

(* Queues without repetition stay so.                                         *)
LEMMA QueueFacts ==
    ASSUME NEW S, NEW q \in Seq(S), IsInjective(q)
    PROVE  /\ ToSet(q) \subseteq S
           /\ q # <<>> => /\ Head(q) \in ToSet(q) /\ Tail(q) \in Seq(S) /\ IsInjective(Tail(q))
                          /\ ToSet(Tail(q)) = ToSet(q) \ {Head(q)}
           /\ \A x \in S \ ToSet(q) : /\ Append(q, x) \in Seq(S) /\ IsInjective(Append(q, x))
                                      /\ ToSet(Append(q, x)) = ToSet(q) \cup {x}
<1>1. DOMAIN q = 1 .. Len(q) /\ Len(q) \in Nat
    OBVIOUS
<1>2. ToSet(q) \subseteq S
    BY <1>1 DEF ToSet
<1>3. ASSUME q # <<>>
      PROVE  /\ Head(q) \in ToSet(q) /\ Tail(q) \in Seq(S) /\ IsInjective(Tail(q))
             /\ ToSet(Tail(q)) = ToSet(q) \ {Head(q)}
  <2>1. /\ Head(q) = q[1] /\ Len(q) > 0 /\ Tail(q) \in Seq(S) /\ Len(Tail(q)) = Len(q) - 1
        /\ DOMAIN Tail(q) = 1 .. (Len(q) - 1) /\ \A i \in 1 .. (Len(q) - 1) : Tail(q)[i] = q[i + 1]
    BY <1>1, <1>3
  <2>2. Head(q) \in ToSet(q)
    BY <1>1, <2>1 DEF ToSet
  <2>3. IsInjective(Tail(q))
    BY <1>1, <2>1 DEF IsInjective
  <2>4. \A x \in ToSet(Tail(q)) : x \in ToSet(q) \ {Head(q)}
    BY <1>1, <2>1 DEF IsInjective, ToSet
  <2>5. \A x \in ToSet(q) \ {Head(q)} : x \in ToSet(Tail(q))
    <3> SUFFICES ASSUME NEW i \in 1 .. Len(q), q[i] # Head(q) PROVE q[i] \in ToSet(Tail(q))
      BY <1>1 DEF ToSet
    <3>1. i - 1 \in 1 .. (Len(q) - 1) /\ Tail(q)[i - 1] = q[i]
      BY <1>1, <2>1
    <3> QED
      BY <2>1, <3>1 DEF ToSet
  <2> QED
    BY <2>1, <2>2, <2>3, <2>4, <2>5
<1>4. ASSUME NEW x \in S \ ToSet(q)
      PROVE  /\ Append(q, x) \in Seq(S) /\ IsInjective(Append(q, x))
             /\ ToSet(Append(q, x)) = ToSet(q) \cup {x}
  <2>1. /\ Append(q, x) \in Seq(S) /\ DOMAIN Append(q, x) = 1 .. (Len(q) + 1)
        /\ \A i \in 1 .. Len(q) : Append(q, x)[i] = q[i]
        /\ Append(q, x)[Len(q) + 1] = x
    BY <1>1
  <2>2. \A i \in 1 .. Len(q) : q[i] # x
    BY <1>1 DEF ToSet
  <2>3. IsInjective(Append(q, x))
    BY <1>1, <2>1, <2>2 DEF IsInjective
  <2>4. \A y \in ToSet(Append(q, x)) : y \in ToSet(q) \cup {x}
    BY <1>1, <2>1 DEF ToSet
  <2>5. \A y \in ToSet(q) \cup {x} : y \in ToSet(Append(q, x))
    BY <1>1, <2>1 DEF ToSet
  <2> QED
    BY <2>1, <2>3, <2>4, <2>5
<1> QED
    BY <1>2, <1>3, <1>4

(* Values of the query and of the body, in either order.                      *)
LEMMA ArgsFacts ==
    ASSUME NEW p \in Seq(Values), NEW q \in Seq(Values)
    PROVE  /\ p \o q \in Seq(Values)
           /\ ToSet(p \o q) = ToSet(p) \cup ToSet(q)
           /\ p \o <<>> = p
<1>1. /\ p \o q \in Seq(Values) /\ Len(p) \in Nat /\ Len(q) \in Nat /\ Len(p \o q) = Len(p) + Len(q)
      /\ DOMAIN p = 1 .. Len(p) /\ DOMAIN q = 1 .. Len(q)
         /\ DOMAIN (p \o q) = 1 .. (Len(p) + Len(q))
      /\ \A i \in 1 .. (Len(p) + Len(q)) : (p \o q)[i] = IF i <= Len(p) THEN p[i] ELSE q[i - Len(p)]
    OBVIOUS
<1>2. \A x \in ToSet(p \o q) : x \in ToSet(p) \cup ToSet(q)
    BY <1>1 DEF ToSet
<1>3. \A x \in ToSet(p) : x \in ToSet(p \o q)
    BY <1>1 DEF ToSet
<1>4. \A i \in 1 .. Len(q) : Len(p) + i \in 1 .. (Len(p) + Len(q)) /\ (p \o q)[Len(p) + i] = q[i]
    BY <1>1
<1>5. \A x \in ToSet(q) : x \in ToSet(p \o q)
  <2> SUFFICES ASSUME NEW i \in 1 .. Len(q) PROVE q[i] \in ToSet(p \o q)
    BY <1>1 DEF ToSet
  <2> QED
    BY <1>1, <1>4 DEF ToSet
<1>6. p \o <<>> = p
    OBVIOUS
<1> QED
    BY <1>1, <1>2, <1>3, <1>5, <1>6

LEMMA ArgsSwap ==
    ASSUME NEW p \in Seq(Values), NEW q \in Seq(Values)
    PROVE  ToSet(p \o q) = ToSet(q \o p)
<1>1. ToSet(p \o q) = ToSet(p) \cup ToSet(q)
    BY ArgsFacts
<1>2. ToSet(q \o p) = ToSet(q) \cup ToSet(p)
    BY ArgsFacts
<1> QED
    BY <1>1, <1>2

-----------------------------------------------------------------------------
(* Each kind of step preserves the server's invariant.                        *)

LEMMA ServerInvInit == HttpServerInit /\ at = "caller" => ServerInv
<1> SUFFICES ASSUME HttpServerInit, at = "caller" PROVE ServerInv
    OBVIOUS
<1>1. ServerType
    BY LongestType, HttpAssumption DEF HttpServerInit, ServerType, Away, Hosts, IsInjective
<1>2. OneOpen
    BY HttpAssumption DEF HttpServerInit, OneOpen, Away, ToSet
<1> QED
    BY <1>1, <1>2 DEF ServerInv, Taken, Serving

LEMMA ResetKeeps == ServerIsReset /\ at' \notin {"body", "form", "handle"} => ServerInv'
<1> SUFFICES ASSUME ServerIsReset, at' \notin {"body", "form", "handle"} PROVE ServerInv'
    OBVIOUS
<1>1. ServerType'
    BY LongestType, HttpAssumption DEF ServerIsReset, ServerType, Away, Hosts, IsInjective
<1>2. OneOpen'
    BY HttpAssumption DEF ServerIsReset, OneOpen, Away, ToSet
<1> QED
    BY <1>1, <1>2 DEF ServerInv, Taken, Serving

LEMMA StayKeeps ==
    ASSUME ServerInv, UNCHANGED <<net, queue, srv>>, at' = at
           \/ at' \notin {"body", "form", "handle"}
    PROVE  ServerInv'
BY DEF ServerInv, ServerType, OneOpen, Taken, Serving, Cur

(* The current client's connection is dropped.                                *)
LEMMA DropKeeps == ServerInv /\ Drop => ServerInv'
<1> SUFFICES ASSUME ServerInv, Drop PROVE ServerInv'
    OBVIOUS
<1> USE DEF ServerInv
<1>1. /\ srv' \in [status : {"none", "wait_read", "wait_close"}, client : Clients \cup {None},
                   since : 0 .. Longest + 1, host : Hosts, args : Seq(Values)]
      /\ srv'.status = "none" /\ srv'.client = None
  <2>1. srv' = [srv EXCEPT !.status = "none", !.client = None, !.since = 0]
    BY DEF Drop, Free
  <2>2. 0 \in 0 .. Longest + 1
    BY LongestType
  <2> QED
    BY <2>1, <2>2 DEF ServerType
<1>2. net' \in [Clients -> [st : {"away", "queued", "open"}, up : BOOLEAN,
                            req : Requests \cup {None}, arrived : {"none", "head", "part", "all"}]]
    BY DEF Drop, Away, ServerType
<1>3. OneOpen'
  <2>1. \A c \in Clients : net'[c] = IF c = srv.client THEN Away ELSE net[c]
    BY DEF Drop, ServerType
  <2> QED
    BY <1>1, <2>1, HttpAssumption DEF OneOpen, Drop, Away
<1> QED
    BY <1>1, <1>2, <1>3 DEF ServerType, Drop, ToOwner, Taken, Serving

(* The server's members change, the connections do not.                       *)
LEMMA ServerKeeps ==
    ASSUME ServerInv, UNCHANGED <<net, queue>>, srv.client # None,
           srv' \in [status : {"wait_read", "wait_close"}, client : {srv.client},
                     since : 0 .. Longest + 1, host : Hosts, args : Seq(Values)],
           Taken'
    PROVE  ServerInv'
<1> USE DEF ServerInv
<1>1. srv.client \in Clients /\ srv'.client = srv.client /\ srv'.status # "none"
    BY DEF ServerType
<1>2. OneOpen'
    BY <1>1 DEF OneOpen
<1> QED
    BY <1>1, <1>2 DEF ServerType

(* A peer's connection changes where the firmware does not look.              *)
LEMMA PeerKeeps ==
    ASSUME ServerInv, UNCHANGED <<at, queue, srv>>, NEW c \in Clients,
           NEW n \in [st : {net[c].st}, up : BOOLEAN, req : Requests \cup {None},
           arrived : {"none", "head", "part", "all"}],
           net' = [net EXCEPT ![c] = n],
           n.req = net[c].req \/ (net[c].arrived = "none" /\ n.req \in Requests),
           n.arrived # "none" \/ n.arrived = net[c].arrived,
           n.arrived # "none" => n.req \in Requests
    PROVE  ServerInv'
<1> USE DEF ServerInv
<1>1. /\ \A d \in Clients : net'[d] = IF d = c THEN n ELSE net[d]
      /\ n.st = net[c].st
    BY DEF ServerType
<1>2. ServerType'
    BY DEF ServerType
<1>3. OneOpen'
    BY <1>1 DEF OneOpen
<1>4. Taken'
  <2> SUFFICES ASSUME Serving PROVE Taken'
    BY DEF Taken, Serving
  <2>1. srv.client \in Clients /\ Cur.arrived # "none"
    BY DEF Taken, ServerType
  <2>2. Cur' = net'[srv.client]
    BY DEF Cur
  <2>3. Cur'.req = Cur.req /\ Cur'.arrived # "none"
    BY <1>1, <2>1, <2>2 DEF Cur
  <2> QED
    BY <2>3 DEF Taken, Serving
<1> QED
    BY <1>2, <1>3, <1>4

-----------------------------------------------------------------------------
(* handleClient().                                                            *)

LEMMA CallKeeps == ServerInv /\ CallStep => ServerInv'
<1> SUFFICES ASSUME ServerInv, CallStep PROVE ServerInv'
    OBVIOUS
<1> USE DEF ToOwner
<1>0. /\ ServerType /\ OneOpen /\ Taken
      /\ 0 \in 0 .. Longest + 1
    BY LongestType DEF ServerInv
<1>1. CASE NobodyWaits \/ StillSilent \/ StillOpen
    BY <1>1, StayKeeps DEF NobodyWaits, StillSilent, StillOpen
<1>2. CASE FoundGone \/ SilentTooLong \/ OpenTooLong \/ InvalidLine \/ BodyMissing \/ FormMissing
           \/ FileAborted
    BY <1>2, DropKeeps DEF FoundGone, SilentTooLong, OpenTooLong, InvalidLine, BodyMissing,
       FormMissing, FileAborted
<1>3. CASE Accept
  <2>1. /\ at = "http" /\ at' = at /\ srv.client = None /\ queue # <<>>
        /\ srv' = [srv EXCEPT !.status = "wait_read", !.client = Head(queue), !.since = 0]
        /\ net' = [net EXCEPT ![Head(queue)].st = "open"]
        /\ queue' = Tail(queue)
    BY <1>0, <1>3 DEF Accept, OneOpen
  <2>2. /\ Head(queue) \in Clients /\ Head(queue) \in ToSet(queue) /\ Tail(queue) \in Seq(Clients)
        /\ IsInjective(Tail(queue)) /\ ToSet(Tail(queue)) = ToSet(queue) \ {Head(queue)}
    BY <1>0, <2>1, QueueFacts DEF ServerType
  <2>3. ServerType'
    <3>1. srv' \in [status : {"none", "wait_read", "wait_close"}, client : Clients \cup {None},
                    since : 0 .. Longest + 1, host : Hosts, args : Seq(Values)]
      BY <1>0, <2>1, <2>2 DEF ServerType
    <3>2. net' \in [Clients -> [st : {"away", "queued", "open"}, up : BOOLEAN,
                                req : Requests \cup {None},
                                arrived : {"none", "head", "part", "all"}]]
      <4>1. [net[Head(queue)] EXCEPT !.st = "open"] \in
                [st : {"away", "queued", "open"}, up : BOOLEAN,
                 req : Requests \cup {None}, arrived : {"none", "head", "part", "all"}]
        BY <1>0, <2>2 DEF ServerType
      <4>2. net' = [net EXCEPT ![Head(queue)] = [net[Head(queue)] EXCEPT !.st = "open"]]
        BY <2>1
      <4> QED
        BY <1>0, <4>1, <4>2 DEF ServerType
    <3> QED
      BY <2>1, <2>2, <3>1, <3>2 DEF ServerType
  <2>4. \A c \in Clients : /\ net'[c].st = (IF c = Head(queue) THEN "open" ELSE net[c].st)
                           /\ net'[c].arrived = net[c].arrived /\ net'[c].req = net[c].req
    BY <1>0, <2>1, <2>2 DEF ServerType
  <2>5. srv'.status = "wait_read" /\ srv'.client = Head(queue)
    BY <1>0, <2>1 DEF ServerType
  <2>6. OneOpen'
    BY <1>0, <2>1, <2>2, <2>4, <2>5, HttpAssumption DEF OneOpen
  <2> QED
    BY <2>1, <2>3, <2>6 DEF ServerInv, Taken, Serving
(* A request is taken. *)
<1>4. ASSUME NEW r \in Requests, Reads(r)
      PROVE  /\ srv.client \in Clients /\ srv.status = "wait_read" /\ Cur.req = r
                /\ Cur.arrived # "none"
             /\ HostAfter(r) \in Hosts /\ (r.host # None => HostAfter(r) = r.host)
             /\ r.q \in Seq(Values) /\ r.b \in Seq(Values) /\ r.body \in Bodies
             /\ r.body \in {"none", "empty", "plain"} => r.b = <<>>
  <2>1. Connected /\ srv.status = "wait_read" /\ Cur.arrived # "none" /\ r = Cur.req
    BY <1>4 DEF Reads
  <2>2. srv.client \in Clients
    BY <1>0, <2>1 DEF Connected, ServerType
  <2>3. HostAfter(r) \in Hosts /\ (r.host # None => HostAfter(r) = r.host)
    BY <1>0 DEF HostAfter, Hosts, ServerType
  <2>4. r.q \in Seq(Values) /\ r.b \in Seq(Values)
    BY PortalAssumption DEF Values
  <2> QED
    BY <2>1, <2>2, <2>3, <2>4, HttpAssumption
<1>5. CASE WithoutBody
  <2>1. PICK r \in Requests :
            /\ Reads(r) /\ r.body = "none"
            /\ srv' = [srv EXCEPT !.host = HostAfter(r), !.args = r.q]
            /\ at' = "handle" /\ UNCHANGED <<net, queue>>
    BY <1>5 DEF WithoutBody
  <2>2. /\ srv.client \in Clients /\ srv.client # None /\ srv.status = "wait_read" /\ Cur.req = r
           /\ Cur.arrived # "none"
        /\ HostAfter(r) \in Hosts /\ (r.host # None => HostAfter(r) = r.host)
        /\ r.q \in Seq(Values) /\ r.b \in Seq(Values)
        /\ r.body \in {"none", "empty", "plain"} => r.b = <<>>
    BY <2>1, <1>4, HttpAssumption
  <2>3. srv' \in [status : {"wait_read", "wait_close"}, client : {srv.client},
                  since : 0 .. Longest + 1, host : Hosts, args : Seq(Values)]
    BY <1>0, <2>1, <2>2 DEF ServerType
  <2>4. srv'.client = srv.client /\ srv'.host = HostAfter(r) /\ srv'.args = r.q
    BY <1>0, <2>1 DEF ServerType
  <2>5. Cur' = Cur
    BY <2>1, <2>4 DEF Cur
  <2>6. Taken'
    BY <2>1, <2>2, <2>4, <2>5, ArgsFacts DEF Taken, Serving
  <2> QED
    BY <2>1, <2>2, <2>3, <2>6, ServerKeeps
<1>6. CASE EmptyBody
  <2>1. PICK r \in Requests :
            /\ Reads(r) /\ r.body = "empty"
            /\ srv' = [srv EXCEPT !.host = HostAfter(r)]
            /\ at' = "handle" /\ UNCHANGED <<net, queue>>
    BY <1>6 DEF EmptyBody
  <2>2. /\ srv.client \in Clients /\ srv.client # None /\ srv.status = "wait_read" /\ Cur.req = r
           /\ Cur.arrived # "none"
        /\ HostAfter(r) \in Hosts /\ (r.host # None => HostAfter(r) = r.host)
        /\ r.q \in Seq(Values) /\ r.b \in Seq(Values)
        /\ r.body \in {"none", "empty", "plain"} => r.b = <<>>
    BY <2>1, <1>4, HttpAssumption
  <2>3. srv' \in [status : {"wait_read", "wait_close"}, client : {srv.client},
                  since : 0 .. Longest + 1, host : Hosts, args : Seq(Values)]
    BY <1>0, <2>1, <2>2 DEF ServerType
  <2>4. srv'.client = srv.client /\ srv'.host = HostAfter(r)
    BY <1>0, <2>1 DEF ServerType
  <2>5. Cur' = Cur
    BY <2>1, <2>4 DEF Cur
  <2>6. Taken'
    BY <2>1, <2>2, <2>4, <2>5, ArgsFacts DEF Taken, Serving
  <2> QED
    BY <2>1, <2>2, <2>3, <2>6, ServerKeeps
<1>7. CASE ReadsHead
  <2>1. PICK r \in Requests :
            /\ Reads(r) /\ r.body \in {"encoded", "plain"}
            /\ srv' = [srv EXCEPT !.host = HostAfter(r), !.since = 0]
            /\ at' = "body" /\ UNCHANGED <<net, queue>>
    BY <1>7 DEF ReadsHead
  <2>2. /\ srv.client \in Clients /\ srv.client # None /\ srv.status = "wait_read" /\ Cur.req = r
           /\ Cur.arrived # "none"
        /\ HostAfter(r) \in Hosts /\ (r.host # None => HostAfter(r) = r.host)
        /\ r.q \in Seq(Values) /\ r.b \in Seq(Values)
        /\ r.body \in {"none", "empty", "plain"} => r.b = <<>>
    BY <2>1, <1>4, HttpAssumption
  <2>3. srv' \in [status : {"wait_read", "wait_close"}, client : {srv.client},
                  since : 0 .. Longest + 1, host : Hosts, args : Seq(Values)]
    BY <1>0, <2>1, <2>2 DEF ServerType
  <2>4. srv'.client = srv.client /\ srv'.host = HostAfter(r)
    BY <1>0, <2>1 DEF ServerType
  <2>5. Cur' = Cur
    BY <2>1, <2>4 DEF Cur
  <2>6. Taken'
    BY <2>1, <2>2, <2>4, <2>5, ArgsFacts DEF Taken, Serving
  <2> QED
    BY <2>1, <2>2, <2>3, <2>6, ServerKeeps
<1>8. CASE ReadsFormHead
  <2>1. PICK r \in Requests :
            /\ Reads(r) /\ r.body \in {"form", "file"}
            /\ srv' = [srv EXCEPT !.host = HostAfter(r), !.args = r.q, !.since = 0]
            /\ at' = "form" /\ UNCHANGED <<net, queue>>
    BY <1>8 DEF ReadsFormHead
  <2>2. /\ srv.client \in Clients /\ srv.client # None /\ srv.status = "wait_read" /\ Cur.req = r
           /\ Cur.arrived # "none"
        /\ HostAfter(r) \in Hosts /\ (r.host # None => HostAfter(r) = r.host)
        /\ r.q \in Seq(Values) /\ r.b \in Seq(Values)
        /\ r.body \in {"none", "empty", "plain"} => r.b = <<>>
    BY <2>1, <1>4, HttpAssumption
  <2>3. srv' \in [status : {"wait_read", "wait_close"}, client : {srv.client},
                  since : 0 .. Longest + 1, host : Hosts, args : Seq(Values)]
    BY <1>0, <2>1, <2>2 DEF ServerType
  <2>4. srv'.client = srv.client /\ srv'.host = HostAfter(r) /\ srv'.args = r.q
    BY <1>0, <2>1 DEF ServerType
  <2>5. Cur' = Cur
    BY <2>1, <2>4 DEF Cur
  <2>6. Taken'
    BY <2>1, <2>2, <2>4, <2>5, ArgsFacts DEF Taken, Serving
  <2> QED
    BY <2>1, <2>2, <2>3, <2>6, ServerKeeps
(* What was taken with the head is completed by the body. *)
<1>a. Serving =>
         /\ srv.client \in Clients /\ srv.client # None /\ srv.status # "none"
            /\ Cur.arrived # "none" /\ Cur.req \in Requests
         /\ Cur.req.q \in Seq(Values) /\ Cur.req.b \in Seq(Values)
         /\ Cur.req.body \in {"none", "empty", "plain"} => Cur.req.b = <<>>
  <2> SUFFICES ASSUME Serving
               PROVE  /\ srv.client \in Clients /\ srv.client # None /\ srv.status # "none"
                         /\ Cur.arrived # "none" /\ Cur.req \in Requests
                      /\ Cur.req.q \in Seq(Values) /\ Cur.req.b \in Seq(Values)
                      /\ Cur.req.body \in {"none", "empty", "plain"} => Cur.req.b = <<>>
    OBVIOUS
  <2>1. srv.client \in Clients /\ srv.client # None /\ srv.status # "none" /\ Cur.arrived # "none"
    BY <1>0 DEF Taken, OneOpen, ServerType
  <2>2. Cur.req \in Requests
    BY <1>0, <2>1 DEF OneOpen, Cur
  <2> QED
    BY <2>1, <2>2, PortalAssumption, HttpAssumption DEF Values
<1>9. CASE BodyArrived
  <2>1. /\ at = "body" /\ at' = "handle" /\ UNCHANGED <<net, queue>>
        /\ srv' = [srv EXCEPT !.args = IF Cur.req.body = "encoded" THEN Cur.req.q \o Cur.req.b
           ELSE Cur.req.q]
    BY <1>9 DEF BodyArrived
  <2>2. /\ srv.client \in Clients /\ srv.client # None /\ srv.status # "none"
           /\ Cur.arrived # "none"
        /\ Cur.req.q \in Seq(Values) /\ Cur.req.b \in Seq(Values) /\ srv.args \in Seq(Values)
        /\ Cur.req.body \in {"none", "empty", "plain"} => Cur.req.b = <<>>
        /\ Cur.req.host # None => srv.host = Cur.req.host
        /\ Cur.req.body \in {"encoded", "plain"}
    BY <2>1, <1>0, <1>a DEF Serving, Taken, ServerType
  <2>3. /\ srv'.client = srv.client /\ srv'.host = srv.host /\ srv'.args \in Seq(Values)
        /\ ToSet(srv'.args) = ToSet(Cur.req.q \o Cur.req.b)
    <3>1. srv'.client = srv.client /\ srv'.host = srv.host
          /\ srv'.args = IF Cur.req.body = "encoded" THEN Cur.req.q \o Cur.req.b ELSE Cur.req.q
      BY <1>0, <2>1 DEF ServerType
    <3>2. /\ Cur.req.q \o Cur.req.b \in Seq(Values) /\ Cur.req.b \o Cur.req.q \in Seq(Values)
          /\ Cur.req.q \o <<>> = Cur.req.q
          /\ ToSet(Cur.req.b \o Cur.req.q) = ToSet(Cur.req.q \o Cur.req.b)
      BY <2>2, ArgsFacts, ArgsSwap
    <3> QED
      BY <2>2, <3>1, <3>2
  <2>4. srv' \in [status : {"wait_read", "wait_close"}, client : {srv.client},
                  since : 0 .. Longest + 1, host : Hosts, args : Seq(Values)]
    BY <1>0, <2>1, <2>2, <2>3 DEF ServerType
  <2>5. Cur' = Cur
    BY <2>1, <2>3 DEF Cur
  <2>6. Taken'
    BY <2>1, <2>2, <2>3, <2>5 DEF Taken, Serving
  <2> QED
    BY <2>1, <2>2, <2>4, <2>6, ServerKeeps
<1>10. CASE FormArrived
  <2>1. /\ at = "form" /\ at' = "handle" /\ UNCHANGED <<net, queue>>
        /\ srv' = [srv EXCEPT !.args = Cur.req.b \o @]
    BY <1>10 DEF FormArrived
  <2>2. /\ srv.client \in Clients /\ srv.client # None /\ srv.status # "none"
           /\ Cur.arrived # "none"
        /\ Cur.req.q \in Seq(Values) /\ Cur.req.b \in Seq(Values) /\ srv.args \in Seq(Values)
        /\ Cur.req.body \in {"none", "empty", "plain"} => Cur.req.b = <<>>
        /\ Cur.req.host # None => srv.host = Cur.req.host
        /\ srv.args = Cur.req.q
    BY <2>1, <1>0, <1>a DEF Serving, Taken, ServerType
  <2>3. /\ srv'.client = srv.client /\ srv'.host = srv.host /\ srv'.args \in Seq(Values)
        /\ ToSet(srv'.args) = ToSet(Cur.req.q \o Cur.req.b)
    <3>1. srv'.client = srv.client /\ srv'.host = srv.host /\ srv'.args = Cur.req.b \o srv.args
      BY <1>0, <2>1 DEF ServerType
    <3>2. /\ Cur.req.q \o Cur.req.b \in Seq(Values) /\ Cur.req.b \o Cur.req.q \in Seq(Values)
          /\ Cur.req.q \o <<>> = Cur.req.q
          /\ ToSet(Cur.req.b \o Cur.req.q) = ToSet(Cur.req.q \o Cur.req.b)
      BY <2>2, ArgsFacts, ArgsSwap
    <3> QED
      BY <2>2, <3>1, <3>2
  <2>4. srv' \in [status : {"wait_read", "wait_close"}, client : {srv.client},
                  since : 0 .. Longest + 1, host : Hosts, args : Seq(Values)]
    BY <1>0, <2>1, <2>2, <2>3 DEF ServerType
  <2>5. Cur' = Cur
    BY <2>1, <2>3 DEF Cur
  <2>6. Taken'
    BY <2>1, <2>2, <2>3, <2>5 DEF Taken, Serving
  <2> QED
    BY <2>1, <2>2, <2>4, <2>6, ServerKeeps
<1> QED
    BY <1>1, <1>2, <1>3, <1>5, <1>6, <1>7, <1>8, <1>9, <1>10 DEF CallStep

(* The answer to a request.                                                   *)
LEMMA HandledKeeps ==
    ASSUME ServerInv, at = "handle", NEW closes \in BOOLEAN, Handled(closes)
    PROVE  ServerInv'
<1>1. CASE closes \/ ~Connected
    BY <1>1, DropKeeps DEF Handled
<1>2. CASE ~(closes \/ ~Connected)
  <2>1. /\ srv' = [srv EXCEPT !.status = "wait_close", !.since = 0]
        /\ at' = "loop" /\ UNCHANGED <<net, queue>>
    BY <1>2 DEF Handled, ToOwner
  <2>2. srv.client # None /\ 0 \in 0 .. Longest + 1 /\ ServerType
    BY LongestType DEF ServerInv, Taken, Serving
  <2>3. srv' \in [status : {"wait_read", "wait_close"}, client : {srv.client},
                  since : 0 .. Longest + 1, host : Hosts, args : Seq(Values)]
    BY <2>1, <2>2 DEF ServerType
  <2>4. Taken'
    BY <2>1 DEF Taken, Serving
  <2> QED
    BY <2>1, <2>2, <2>3, <2>4, ServerKeeps
<1> QED
    BY <1>1, <1>2

-----------------------------------------------------------------------------
(* The peers.                                                                 *)

LEMMA PeersKeep == ServerInv /\ PeerStep => ServerInv'
<1> SUFFICES ASSUME ServerInv, PeerStep PROVE ServerInv'
    OBVIOUS
<1>0. ServerType /\ OneOpen /\ Taken
    BY DEF ServerInv
<1>1. PICK c \in Clients : PeerConnects(c) \/ PeerSends(c) \/ PeerSendsPart(c) \/ PeerSendsRest(c)
           \/ PeerCloses(c)
    BY DEF PeerStep
<1>2. /\ net[c].st \in {"away", "queued", "open"} /\ net[c].up \in BOOLEAN
      /\ net[c].req \in Requests \cup {None} /\ net[c].arrived \in {"none", "head", "part", "all"}
      /\ net[c] = [st |-> net[c].st, up |-> net[c].up, req |-> net[c].req,
         arrived |-> net[c].arrived]
      /\ net[c].arrived # "none" => net[c].req \in Requests
    BY <1>0 DEF ServerType, OneOpen
<1>3. CASE PeerConnects(c)
  <2> DEFINE n == [st |-> "queued", up |-> TRUE, req |-> None, arrived |-> "none"]
  <2>1. /\ net[c].st = "away" /\ net' = [net EXCEPT ![c] = n] /\ queue' = Append(queue, c)
           /\ UNCHANGED <<at, srv>>
    BY <1>3 DEF PeerConnects
  <2>2. c \notin ToSet(queue) /\ c # srv.client
    BY <1>0, <2>1 DEF OneOpen
  <2>3. /\ queue' \in Seq(Clients) /\ IsInjective(queue') /\ ToSet(queue') = ToSet(queue) \cup {c}
    BY <1>0, <2>1, <2>2, QueueFacts DEF ServerType
  <2>4. \A d \in Clients : net'[d] = IF d = c THEN n ELSE net[d]
    BY <1>0, <2>1 DEF ServerType
  <2>5. ServerType'
    BY <1>0, <2>1, <2>3 DEF ServerType
  <2>6. OneOpen'
    BY <1>0, <2>1, <2>2, <2>3, <2>4 DEF OneOpen
  <2>7. Taken'
    <3>1. Serving => srv.client \in Clients
      BY <1>0 DEF Taken, ServerType
    <3>2. Serving => Cur' = Cur
      BY <2>1, <2>2, <2>4, <3>1 DEF Cur
    <3> QED
      BY <1>0, <2>1, <3>2 DEF Taken, Serving
  <2> QED
    BY <2>5, <2>6, <2>7 DEF ServerInv
<1>4. CASE PeerSends(c)
  <2>1. PICK r \in Requests : /\ net[c].arrived = "none" /\ UNCHANGED <<at, queue, srv>>
                              /\ net' = [net EXCEPT ![c].req = r,
                                                    ![c].arrived = IF r.body \in {"none", "empty"}
                                                    THEN "all" ELSE "head"]
    <3>1. Sends[c] \subseteq Requests
      BY HttpAssumption DEF Requests, Range
    <3> QED
      BY <1>4, <3>1 DEF PeerSends
  <2> DEFINE n == [st |-> net[c].st, up |-> net[c].up, req |-> r,
                   arrived |-> IF r.body \in {"none", "empty"} THEN "all" ELSE "head"]
  <2>2. net' = [net EXCEPT ![c] = n]
    BY <1>0, <1>2, <2>1 DEF ServerType
  <2>3. n \in [st : {net[c].st}, up : BOOLEAN, req : Requests \cup {None},
        arrived : {"none", "head", "part", "all"}]
    BY <1>2
  <2> QED
    BY <2>1, <2>2, <2>3, PeerKeeps
<1>5. CASE PeerSendsPart(c) \/ PeerSendsRest(c)
  <2>1. PICK a \in {"part", "all"} : net[c].arrived # "none"
             /\ net' = [net EXCEPT ![c].arrived = a] /\ UNCHANGED <<at, queue, srv>>
    BY <1>5 DEF PeerSendsPart, PeerSendsRest
  <2> DEFINE n == [st |-> net[c].st, up |-> net[c].up, req |-> net[c].req, arrived |-> a]
  <2>4. [net[c] EXCEPT !.arrived = a] = n
    BY <1>2
  <2>2. net' = [net EXCEPT ![c] = n]
    BY <2>1, <2>4
  <2>3. n \in [st : {net[c].st}, up : BOOLEAN, req : Requests \cup {None},
        arrived : {"none", "head", "part", "all"}]
    BY <1>2
  <2> QED
    BY <1>2, <2>1, <2>2, <2>3, PeerKeeps
<1>6. CASE PeerCloses(c)
  <2>1. PICK u \in BOOLEAN : net' = [net EXCEPT ![c].up = u] /\ UNCHANGED <<at, queue, srv>>
    BY <1>6 DEF PeerCloses
  <2> DEFINE n == [st |-> net[c].st, up |-> u, req |-> net[c].req, arrived |-> net[c].arrived]
  <2>4. [net[c] EXCEPT !.up = u] = n
    BY <1>2
  <2>2. net' = [net EXCEPT ![c] = n]
    BY <2>1, <2>4
  <2>3. n \in [st : {net[c].st}, up : BOOLEAN, req : Requests \cup {None},
        arrived : {"none", "head", "part", "all"}]
    BY <1>2
  <2>5. n.req = net[c].req /\ n.arrived = net[c].arrived
    OBVIOUS
  <2> HIDE DEF n
  <2> QED
    BY <1>2, <2>1, <2>2, <2>3, <2>5, PeerKeeps
<1> QED
    BY <1>1, <1>3, <1>4, <1>5, <1>6

LEMMA ServerStep == ServerInv /\ [PortalNext]_portalVars => ServerInv'
<1> SUFFICES ASSUME ServerInv, [PortalNext]_portalVars PROVE ServerInv'
    OBVIOUS
<1>1. CASE \/ AutoConnect \/ AutoJoined \/ AutoJoinFailed \/ StartConfigPortal \/ Serve
              \/ ConnectFlag \/ JoinFailed
           \/ Reset \/ LateJoin \/ LinkLost \/ UNCHANGED portalVars
  <2>1. UNCHANGED <<net, queue, srv>>
        /\ (at' = at \/ at' \in {"autojoin", "caller", "loop", "http", "join", "restart"})
    BY <1>1 DEF AutoConnect, AutoJoined, AutoJoinFailed, StartConfigPortal, Serve, ConnectFlag,
       JoinFailed, Reset, LateJoin, LinkLost, OpenPortal, portalVars, httpVars
  <2> QED
    BY <2>1, StayKeeps
<1>2. CASE LeaveByTimeout \/ AlreadyConnected \/ Joined \/ JoinFailedBreak \/ Restarts
    BY <1>2, ResetKeeps DEF LeaveByTimeout, AlreadyConnected, Joined, JoinFailedBreak, Restarts,
       ClosePortal
<1>3. CASE RootOrNotFound
    BY <1>3, HandledKeeps DEF RootOrNotFound, Page, Redirects
<1>4. CASE Shows \/ WifiSave
    BY <1>4, HandledKeeps DEF Shows, WifiSave, Page
<1>5. CASE HttpCall
    BY <1>5, CallKeeps DEF HttpCall
<1>6. CASE PeerStep
    BY <1>6, PeersKeep
<1>7. CASE Tick
  <2>1. /\ UNCHANGED <<at, net, queue>>
        /\ srv' = [srv EXCEPT !.since = IF srv.since > Longest \/ srv.status = "none"
           THEN srv.since ELSE srv.since + 1]
    BY <1>7 DEF Tick, SinceTick
  <2>2. ServerType /\ OneOpen /\ Taken
    BY DEF ServerInv
  <2>3. srv.since \in 0 .. Longest + 1
        /\ (IF srv.since > Longest \/ srv.status = "none" THEN srv.since
           ELSE srv.since + 1) \in 0 .. Longest + 1
    BY <2>2, LongestType DEF ServerType
  <2>4. /\ srv' \in [status : {"none", "wait_read", "wait_close"}, client : Clients \cup {None},
                     since : 0 .. Longest + 1, host : Hosts, args : Seq(Values)]
        /\ srv'.status = srv.status /\ srv'.client = srv.client /\ srv'.host = srv.host
           /\ srv'.args = srv.args
    BY <2>1, <2>2, <2>3 DEF ServerType
  <2>5. ServerType' /\ OneOpen'
    BY <2>1, <2>2, <2>4 DEF ServerType, OneOpen
  <2>6. Taken'
    BY <2>1, <2>2, <2>4 DEF Taken, Serving, Cur
  <2> QED
    BY <2>5, <2>6 DEF ServerInv
<1> QED
    BY <1>1, <1>2, <1>3, <1>4, <1>5, <1>6, <1>7 DEF PortalNext, PortalStep, SketchStep, Handler

-----------------------------------------------------------------------------
(* The forms and the networks.                                                *)

ManagerType ==
    /\ at \in Places
    /\ wm \in [connect : BOOLEAN, ssid : Values, timeout : {0, PortalTimeout}, brk : BOOLEAN]
    /\ open \in 0 .. PortalTimeout + 1
    /\ wifi \in [up : BOOLEAN, try : Nets \cup {None}, flash : Values]
    /\ session \in [saved : BOOLEAN, tried : 0 .. 2, told : {"no", "joined", "failed"}]

(* A flag that is up has a form behind it that was not tried, and a join one  *)
(* that is tried once, with its name.                                         *)
FormInv ==
    /\ InPortal => session.told = "no"
    /\ (InPortal /\ wm.connect) => session.saved /\ session.tried = 0
    /\ at = "join" => session.saved /\ session.tried = 1
    /\ (at = "join" /\ wm.ssid # Blank) => wifi.try = wm.ssid /\ wifi.flash = wm.ssid

ManagerInv == ManagerType /\ FormInv

LEMMA ManagerInvInit == PortalInit => ManagerInv
<1> SUFFICES ASSUME PortalInit PROVE ManagerInv
    OBVIOUS
<1>1. PICK s \in Setups :
           /\ wm = [connect |-> FALSE, ssid |-> Blank, timeout |-> s.timeout, brk |-> s.brk]
                          /\ wifi = [up |-> FALSE, try |-> None, flash |-> s.flash]
    BY DEF PortalInit
<1>2. s.timeout \in {0, PortalTimeout} /\ s.brk \in BOOLEAN /\ s.flash \in Values
    BY PortalAssumption DEF Values
<1>3. ManagerType
    BY <1>1, <1>2, PortalAssumption DEF PortalInit, ManagerType, Places, NewSession, Values
<1> QED
    BY <1>3 DEF ManagerInv, FormInv, PortalInit, InPortal

(* handleClient() returns to the portal's loop or goes on.                    *)
LEMMA CallStays ==
    /\ CallStep => at' \in {"loop", "http", "body", "form", "handle"}
    /\ \A closes \in BOOLEAN : Handled(closes) => at' = "loop"
BY DEF CallStep, Handled, Drop, ToOwner, NobodyWaits, Accept, FoundGone, StillSilent, SilentTooLong,
   StillOpen, OpenTooLong, InvalidLine, WithoutBody, EmptyBody, ReadsHead, BodyArrived, BodyMissing,
   ReadsFormHead, FormMissing, FormArrived, FileAborted, InCall

LEMMA SessionFacts ==
    \A s \in [saved : BOOLEAN, tried : 0 .. 2, told : {"no", "joined", "failed"}] :
        /\ [s EXCEPT !.saved = TRUE, !.tried = 0] \in [saved : BOOLEAN, tried : 0 .. 2,
           told : {"no", "joined", "failed"}]
        /\ \A x \in {"joined", "failed"} :
              /\ [s EXCEPT !.told = x] \in [saved : BOOLEAN, tried : 0 .. 2,
                 told : {"no", "joined", "failed"}]
              /\ [s EXCEPT !.told = x, !.tried = 1] \in [saved : BOOLEAN, tried : 0 .. 2,
                 told : {"no", "joined", "failed"}]
<1> SUFFICES ASSUME NEW s \in [saved : BOOLEAN, tried : 0 .. 2, told : {"no", "joined", "failed"}],
                    NEW x \in {"joined", "failed"}
             PROVE  /\ [s EXCEPT !.saved = TRUE, !.tried = 0] \in [saved : BOOLEAN, tried : 0 .. 2,
                       told : {"no", "joined", "failed"}]
                    /\ [s EXCEPT !.told = x] \in [saved : BOOLEAN, tried : 0 .. 2,
                       told : {"no", "joined", "failed"}]
                    /\ [s EXCEPT !.told = x, !.tried = 1] \in [saved : BOOLEAN, tried : 0 .. 2,
                       told : {"no", "joined", "failed"}]
    OBVIOUS
<1>1. 0 \in 0 .. 2 /\ 1 \in 0 .. 2 /\ TRUE \in BOOLEAN
    OBVIOUS
<1>2. \A b \in BOOLEAN,
      n \in 0 .. 2 :
      [s EXCEPT !.saved = b, !.tried = n] \in [saved : BOOLEAN, tried : 0 .. 2,
      told : {"no", "joined", "failed"}]
    OBVIOUS
<1>3. [s EXCEPT !.told = x] \in [saved : BOOLEAN, tried : 0 .. 2, told : {"no", "joined", "failed"}]
    OBVIOUS
<1>4. \A n \in 0 .. 2 :
      [s EXCEPT !.told = x, !.tried = n] \in [saved : BOOLEAN, tried : 0 .. 2,
      told : {"no", "joined", "failed"}]
    OBVIOUS
<1> QED
    BY <1>1, <1>2, <1>3, <1>4

LEMMA ManagerStep == ServerInv /\ ManagerInv /\ [PortalNext]_portalVars => ManagerInv'
<1> SUFFICES ASSUME ServerInv, ManagerInv, [PortalNext]_portalVars PROVE ManagerInv'
    OBVIOUS
<1> USE DEF ManagerInv
<1>0. PortalTimeout \in Nat /\ Blank \notin Nets /\ Blank \in Values /\ None \notin Values
    BY PortalAssumption DEF Values
<1>1. CASE HttpCall \/ RootOrNotFound \/ Shows
  <2>1. at' \in {"loop", "http", "body", "form", "handle"} /\ UNCHANGED <<wm, open, wifi, session>>
    BY <1>1, CallStays DEF HttpCall, RootOrNotFound, Shows, Redirects
  <2>2. InPortal
    BY <1>1 DEF HttpCall, RootOrNotFound, Shows, Page, InPortal, Places, CallStep, NobodyWaits,
       Accept, FoundGone, StillSilent, SilentTooLong, StillOpen, OpenTooLong, InvalidLine,
       WithoutBody, EmptyBody, ReadsHead, Reads, BodyArrived, BodyMissing, ReadsFormHead,
       FormMissing, FormArrived, FileAborted, InCall
  <2> QED
    BY <2>1, <2>2 DEF ManagerType, FormInv, InPortal, Places
<1>2. CASE PeerStep \/ UNCHANGED portalVars
  <2>1. UNCHANGED <<at, wm, open, wifi, session>>
    BY <1>2 DEF PeerStep, portalVars, httpVars, PeerConnects, PeerSends, PeerSendsPart,
       PeerSendsRest, PeerCloses
  <2> QED
    BY <2>1 DEF ManagerType, FormInv, InPortal
<1>3. CASE LateJoin \/ LinkLost
  <2>1. /\ UNCHANGED <<at, wm, open, session>> /\ at # "join"
        /\ \E u \in BOOLEAN : wifi' = [wifi EXCEPT !.up = u]
    BY <1>3 DEF LateJoin, LinkLost, httpVars
  <2> QED
    BY <2>1 DEF ManagerType, FormInv, InPortal
<1>4. CASE Tick
  <2>1. UNCHANGED <<at, wm, wifi, session>> /\ open' = IF wm.timeout # 0 /\ open <= wm.timeout
        THEN open + 1 ELSE open
    BY <1>4 DEF Tick
  <2>2. open' \in 0 .. PortalTimeout + 1
    BY <1>0, <2>1 DEF ManagerType
  <2> QED
    BY <2>1, <2>2 DEF ManagerType, FormInv, InPortal
<1>5. CASE WifiSave
  <2>1. /\ at = "handle" /\ at' = "loop"
        /\ wm' = [wm EXCEPT !.ssid = ArgS(Blank), !.connect = TRUE]
        /\ session' = [session EXCEPT !.saved = TRUE, !.tried = 0]
        /\ UNCHANGED <<open, wifi>>
    BY <1>5, CallStays DEF WifiSave, Page
  <2>2. ArgS(Blank) \in Values
    BY <1>0 DEF ArgS, ServerInv, ServerType
  <2>3. ManagerType'
    <3>1. wm' \in [connect : BOOLEAN, ssid : Values, timeout : {0, PortalTimeout}, brk : BOOLEAN]
      BY <2>1, <2>2 DEF ManagerType
    <3>2. session' \in [saved : BOOLEAN, tried : 0 .. 2, told : {"no", "joined", "failed"}]
      BY <2>1, SessionFacts DEF ManagerType
    <3> QED
      BY <2>1, <3>1, <3>2 DEF ManagerType, Places
  <2>4. session'.told = session.told /\ session'.saved = TRUE /\ session'.tried = 0
    BY <2>1 DEF ManagerType
  <2> QED
    BY <2>1, <2>3, <2>4 DEF FormInv, InPortal, Places
<1>6. CASE Reset \/ Restarts
  <2>1. CASE Reset
    BY <2>1 DEF Reset, ManagerType, FormInv, InPortal, Places
  <2>2. CASE Restarts
    <3>1. /\ at' = "caller" /\ open' = 0 /\ session' = NewSession
          /\ wm' = [wm EXCEPT !.connect = FALSE, !.ssid = Blank]
          /\ wifi' = [wifi EXCEPT !.up = FALSE, !.try = None]
      BY <2>2 DEF Restarts
    <3>2. wm' \in [connect : BOOLEAN, ssid : Values, timeout : {0, PortalTimeout}, brk : BOOLEAN]
      BY <1>0, <3>1 DEF ManagerType
    <3>3. wifi' \in [up : BOOLEAN, try : Nets \cup {None}, flash : Values]
      BY <3>1 DEF ManagerType
    <3>4. ManagerType'
      BY <1>0, <3>1, <3>2, <3>3 DEF ManagerType, Places, NewSession
    <3> QED
      BY <3>1, <3>4 DEF FormInv, InPortal, Places
  <2> QED
    BY <1>6, <2>1, <2>2
<1>7. CASE AutoConnect \/ AutoJoined
  <2>1. /\ at' \in {"autojoin", "caller"} /\ UNCHANGED <<wm, open, session>>
        /\ wifi' \in [up : BOOLEAN, try : Nets \cup {None}, flash : Values]
    <3>1. CASE AutoConnect
      <4>1. Target(Blank) \in Nets \cup {None}
        BY <1>0 DEF Target, ManagerType, Values
      <4> QED
        BY <3>1, <4>1 DEF AutoConnect, BeginJoin, ManagerType
    <3>2. CASE AutoJoined
      BY <3>2 DEF AutoJoined, JoinSucceeds, ManagerType
    <3> QED
      BY <1>7, <3>1, <3>2
  <2> QED
    BY <2>1 DEF ManagerType, FormInv, InPortal, Places
<1>8. CASE AutoJoinFailed \/ StartConfigPortal
  <2>1. OpenPortal /\ wifi' = wifi
    BY <1>8 DEF AutoJoinFailed, StartConfigPortal, JoinGivenUp
  <2>2. ManagerType'
    <3>1. wm' \in [connect : BOOLEAN, ssid : Values, timeout : {0, PortalTimeout}, brk : BOOLEAN]
      BY <2>1 DEF OpenPortal, ManagerType
    <3> QED
      BY <1>0, <2>1, <3>1 DEF OpenPortal, ManagerType, Places, NewSession
  <2>3. wm'.connect = FALSE
    BY <2>1 DEF OpenPortal, ManagerType
  <2> QED
    BY <2>1, <2>2, <2>3 DEF OpenPortal, FormInv, NewSession
<1>9. CASE LeaveByTimeout \/ Serve
  <2>1. /\ InPortal /\ at' \in {"caller", "http"} /\ UNCHANGED <<wm, wifi, session>>
           /\ (open' = 0 \/ open' = open)
    BY <1>9 DEF LeaveByTimeout, Serve, ClosePortal, InPortal, Places
  <2> QED
    BY <1>0, <2>1 DEF ManagerType, FormInv, InPortal, Places
<1>10. CASE ConnectFlag
  <2>1. /\ at = "loop" /\ at' = "join" /\ wm.connect /\ ~wifi.up
        /\ wm' = [wm EXCEPT !.connect = FALSE]
        /\ wifi' = [wifi EXCEPT !.try = Target(wm.ssid), !.flash = IF wm.ssid # Blank THEN wm.ssid
           ELSE wifi.flash]
        /\ session' = [session EXCEPT !.tried = IF session.tried > 1 THEN session.tried
           ELSE session.tried + 1]
        /\ open' = open
    BY <1>10 DEF ConnectFlag, BeginJoin, Tries
  <2>2. session.saved /\ session.tried = 0 /\ session.told = "no"
    BY <2>1 DEF FormInv, InPortal, Places
  <2>3. session' = [session EXCEPT !.tried = 1]
    BY <2>1, <2>2
  <2>4. Target(wm.ssid) \in Nets \cup {None} /\ (wm.ssid # Blank => Target(wm.ssid) = wm.ssid)
    BY <1>0 DEF Target, ManagerType, Values
  <2>5. ManagerType'
    <3>1. wm' \in [connect : BOOLEAN, ssid : Values, timeout : {0, PortalTimeout}, brk : BOOLEAN]
      BY <2>1 DEF ManagerType
    <3>2. wifi' \in [up : BOOLEAN, try : Nets \cup {None}, flash : Values]
      BY <2>1, <2>4 DEF ManagerType
    <3>3. session' \in [saved : BOOLEAN, tried : 0 .. 2, told : {"no", "joined", "failed"}]
      BY <2>3 DEF ManagerType
    <3> QED
      BY <2>1, <3>1, <3>2, <3>3 DEF ManagerType, Places
  <2>6. session'.told = "no" /\ session'.saved = session.saved /\ session'.tried = 1
    BY <2>2, <2>3 DEF ManagerType
  <2>7. wm'.connect = FALSE /\ wm'.ssid = wm.ssid
    BY <2>1 DEF ManagerType
  <2>8. wm.ssid # Blank => wifi'.try = wm.ssid /\ wifi'.flash = wm.ssid
    BY <2>1, <2>4 DEF ManagerType
  <2> QED
    BY <2>1, <2>2, <2>5, <2>6, <2>7, <2>8 DEF FormInv
<1>11. CASE AlreadyConnected \/ Joined \/ JoinFailedBreak
  <2>1. /\ at' = "caller" /\ open' = open
        /\ wm' = wm \/ wm' = [wm EXCEPT !.connect = FALSE]
        /\ wifi' = wifi \/ wifi' = [wifi EXCEPT !.up = TRUE]
        /\ \E x \in {"joined", "failed"} :
           session' \in {[session EXCEPT !.told = x, !.tried = 1], [session EXCEPT !.told = x]}
    BY <1>11 DEF AlreadyConnected, Joined, JoinFailedBreak, JoinSucceeds, JoinGivenUp, ClosePortal
  <2>2. wm' \in [connect : BOOLEAN, ssid : Values, timeout : {0, PortalTimeout}, brk : BOOLEAN]
    BY <2>1 DEF ManagerType
  <2>3. wifi' \in [up : BOOLEAN, try : Nets \cup {None}, flash : Values]
    BY <2>1 DEF ManagerType
  <2>4. session' \in [saved : BOOLEAN, tried : 0 .. 2, told : {"no", "joined", "failed"}]
    <3>1. PICK x \in {"joined", "failed"} :
              session' = [session EXCEPT !.told = x, !.tried = 1]
              \/ session' = [session EXCEPT !.told = x]
      BY <2>1
    <3>2. session \in [saved : BOOLEAN, tried : 0 .. 2, told : {"no", "joined", "failed"}]
      BY DEF ManagerType
    <3>3. \A y \in {"joined", "failed"} :
              /\ [session EXCEPT !.told = y] \in [saved : BOOLEAN, tried : 0 .. 2,
                 told : {"no", "joined", "failed"}]
              /\ [session EXCEPT !.told = y, !.tried = 1] \in [saved : BOOLEAN, tried : 0 .. 2,
                 told : {"no", "joined", "failed"}]
      BY <3>2, SessionFacts
    <3> QED
      BY <3>1, <3>3
  <2> QED
    BY <2>1, <2>2, <2>3, <2>4 DEF ManagerType, FormInv, InPortal, Places
<1>12. CASE JoinFailed
  <2>1. at = "join" /\ at' = "loop" /\ UNCHANGED <<wm, open, wifi, session>>
    BY <1>12 DEF JoinFailed, JoinGivenUp
  <2>2. ~wm.connect /\ session.told = "no"
    BY <2>1 DEF FormInv, InPortal, Places
  <2> QED
    BY <2>1, <2>2 DEF ManagerType, FormInv, Places
<1> QED
    BY <1>1, <1>2, <1>3, <1>4, <1>5, <1>6, <1>7, <1>8, <1>9, <1>10, <1>11, <1>12
       DEF PortalNext, PortalStep, SketchStep, Handler

(* Which steps end a portal, and which tell of a join.                        *)
LEMMA WhoLeaves ==
    ASSUME ServerInv, ManagerInv, [PortalNext]_portalVars
    PROVE  /\ (InPortal /\ at' = "caller") => LeaveByTimeout \/ AlreadyConnected \/ Joined
              \/ JoinFailedBreak
           /\ (session'.told # "no" /\ session'.told # session.told) => AlreadyConnected \/ Joined
              \/ JoinFailedBreak
<1>0. ManagerType
    BY DEF ManagerInv
<1>1. CASE LeaveByTimeout \/ AlreadyConnected \/ Joined \/ JoinFailedBreak
    BY <1>1 DEF LeaveByTimeout
<1>2. CASE HttpCall \/ Handler
  <2>1. at' # "caller" /\ session'.told = session.told
    <3>1. CASE HttpCall
      BY <3>1, CallStays DEF HttpCall
    <3>2. CASE RootOrNotFound \/ Shows
      BY <3>2, CallStays DEF RootOrNotFound, Shows, Redirects
    <3>3. CASE WifiSave
      BY <1>0, <3>3, CallStays DEF WifiSave, ManagerType
    <3>4. CASE Reset
      BY <3>4 DEF Reset
    <3> QED
      BY <1>2, <3>1, <3>2, <3>3, <3>4 DEF Handler
  <2> QED
    BY <2>1
<1>3. CASE PeerStep \/ LateJoin \/ LinkLost \/ Tick \/ UNCHANGED portalVars
  <2>1. at' = at /\ session' = session
    BY <1>3 DEF PeerStep, LateJoin, LinkLost, Tick, portalVars, httpVars, PeerConnects, PeerSends,
       PeerSendsPart, PeerSendsRest, PeerCloses
  <2> QED
    BY <2>1 DEF InPortal
<1>4. CASE AutoConnect \/ AutoJoined \/ AutoJoinFailed \/ StartConfigPortal \/ Restarts
    BY <1>4 DEF AutoConnect, AutoJoined, AutoJoinFailed, StartConfigPortal, Restarts, OpenPortal,
       InPortal, NewSession
<1>5. CASE Serve \/ ConnectFlag \/ JoinFailed
    BY <1>0, <1>5 DEF Serve, ConnectFlag, Tries, JoinFailed, ManagerType
<1> QED
    BY <1>1, <1>2, <1>3, <1>4, <1>5 DEF PortalNext, PortalStep, SketchStep

-----------------------------------------------------------------------------
(* The theorems.                                                              *)

LEMMA PortalInvariant == PortalSpec => [](ServerInv /\ ManagerInv)
<1>1. PortalInit => ServerInv /\ ManagerInv
    BY ServerInvInit, ManagerInvInit DEF PortalInit
<1>2. ServerInv /\ ManagerInv /\ [PortalNext]_portalVars => (ServerInv /\ ManagerInv)'
    BY ServerStep, ManagerStep
<1> QED
    BY <1>1, <1>2, PTL DEF PortalSpec

(* The server has one connection open at most, its current client's, and the  *)
(* request of that client is what is read and handled (WebServer.cpp          *)
(* 166-228).                                                                  *)
THEOREM OneClientAtATime == PortalSpec => []PortalInv
<1>1. ServerInv /\ ManagerInv => PortalInv
  <2> SUFFICES ASSUME ServerInv, ManagerInv PROVE PortalInv
    OBVIOUS
  <2> USE DEF ServerInv, ManagerInv
  <2>1. HttpTypeOK
    BY DEF ServerType, HttpTypeOK
  <2>2. PortalTypeOK
    BY <2>1 DEF ManagerType, PortalTypeOK, Values
  <2>3. {c \in Clients : net[c].st = "open"} = {srv.client} \ {None}
    BY HttpAssumption DEF ServerType, OneOpen
  <2>4. {c \in Clients : net[c].st = "queued"} = ToSet(queue)
    BY QueueFacts DEF ServerType, OneOpen
  <2> QED
    BY <2>2, <2>3, <2>4 DEF PortalInv, Taken, Serving
<1> QED
    BY <1>1, PortalInvariant, PTL

(* A handler sees the arguments and the Host of the request it answers, and   *)
(* no earlier one's, but in the two cases HandledAsSent names (Parsing.cpp    *)
(* 66-256).                                                                   *)
THEOREM EveryRequestItsOwn == PortalSpec => []HandledAsSent
<1>1. ServerInv => HandledAsSent
    BY DEF ServerInv, Taken, Serving, HandledAsSent
<1> QED
    BY <1>1, PortalInvariant, PTL

(* A portal that tells of a join made it to the network in its form           *)
(* (217-229), however often forms came and failed before.                     *)
THEOREM SavedIsJoined == PortalSpec => JoinsWhatWasSaved
<1>1. ASSUME ServerInv, ManagerInv, [PortalNext]_portalVars,
             session'.told = "joined", session.told # "joined", ~wifi.up, wm.ssid # Blank
      PROVE  wifi'.try = wm.ssid /\ wifi'.flash = wm.ssid
  <2>1. ManagerType /\ FormInv
    BY <1>1 DEF ManagerInv
  <2>2. AlreadyConnected \/ Joined \/ JoinFailedBreak
    BY <1>1, WhoLeaves
  <2>3. Joined
    BY <1>1, <2>1, <2>2 DEF AlreadyConnected, JoinFailedBreak, ManagerType
  <2> QED
    BY <1>1, <2>1, <2>3 DEF Joined, JoinSucceeds, ManagerType, FormInv
<1>2. ServerInv /\ ManagerInv /\ [PortalNext]_portalVars =>
          [(session'.told = "joined" /\ session.told # "joined" /\ ~wifi.up /\ wm.ssid # Blank)
              => wifi'.try = wm.ssid /\ wifi'.flash = wm.ssid]_portalVars
    BY <1>1
<1> QED
    BY <1>2, PortalInvariant, PTL DEF PortalSpec, JoinsWhatWasSaved

(* A portal ends by its timeout or by one attempt at the network of a form    *)
(* (201-251), and what the save callback is told is how that attempt ended.   *)
THEOREM EndsForAReason == PortalSpec => LeavesForAReason
<1>1. ASSUME ServerInv, ManagerInv, [PortalNext]_portalVars, InPortal, at' = "caller"
      PROVE  \/ wm.timeout # 0 /\ open > wm.timeout /\ session'.told = "no"
             \/ /\ session'.saved /\ session'.tried = 1
                /\ session'.told = "joined" \/ (session'.told = "failed" /\ wm.brk)
  <2>1. ManagerType /\ FormInv
    BY <1>1 DEF ManagerInv
  <2>2. CASE LeaveByTimeout
    BY <1>1, <2>1, <2>2 DEF LeaveByTimeout, TimedOut, FormInv
  <2>3. CASE AlreadyConnected
    BY <1>1, <2>1, <2>3 DEF AlreadyConnected, FormInv, ManagerType
  <2>4. CASE Joined
    BY <2>1, <2>4 DEF Joined, FormInv, ManagerType
  <2>5. CASE JoinFailedBreak
    BY <2>1, <2>5 DEF JoinFailedBreak, FormInv, ManagerType
  <2> QED
    BY <1>1, <2>2, <2>3, <2>4, <2>5, WhoLeaves
<1>2. ServerInv /\ ManagerInv /\ [PortalNext]_portalVars =>
          [(InPortal /\ at' = "caller") =>
              \/ wm.timeout # 0 /\ open > wm.timeout /\ session'.told = "no"
              \/ /\ session'.saved /\ session'.tried = 1
                 /\ session'.told = "joined" \/ (session'.told = "failed" /\ wm.brk)]_portalVars
    BY <1>1
<1> QED
    BY <1>2, PortalInvariant, PTL DEF PortalSpec, LeavesForAReason
=============================================================================
