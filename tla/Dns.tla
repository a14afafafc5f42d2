--------------------------------- MODULE Dns ---------------------------------
(* DNSServer: the DNS of the portal, which answers every name with the        *)
(* node's own address, or only the name it was started with.  A packet is its *)
(* header's flags and counts and the sections that follow; a name is its text *)
(* in pieces: a "www", a dot, or what is between them.                        *)
EXTENDS Integers, Sequences, SequencesExt

CONSTANTS
    Domains,     \* the name start() is given, or Star
    Star,        \* "*"
    Www, Dot,    \* the text "www", and "."
    DnsNames,    \* names asked for
    OpCodes,     \* 0 is a query
    Counts,      \* of the sections of a packet that arrives
    ErrorCodes   \* setErrorReplyCode()

ASSUME DnsAssumption ==
    /\ 0 \in OpCodes /\ {0, 1} \subseteq Counts /\ Counts \subseteq Nat
    /\ Star \notin DnsNames

VARIABLES
    domain,      \* _domainName
    errorCode,   \* _errorReplyCode
    packet,      \* _buffer, or NoPacket
    replies,     \* what was sent for it
    asked        \* history: the packet as it was read

dnsVars == <<domain, errorCode, packet, replies, asked>>

NoPacket == [id |-> 0]

(* Packets a client builds: the sections are as many as the header says.      *)
Arriving ==
    { [id |-> 1, qr |-> qr, op |-> op, rcode |-> 0, name |-> name,
       qd |-> qd, an |-> an, ns |-> ns, ar |-> ar,
       body |-> [qd |-> qd, an |-> an, ns |-> ns, ar |-> ar]] :
      qr \in {"query", "response"}, op \in OpCodes, name \in DnsNames,
      qd \in Counts, an \in Counts, ns \in Counts, ar \in Counts }

(* downcaseAndRemoveWwwPrefix(): every "www." goes, at the start, in the      *)
(* middle, or at the end of a longer label.                                   *)
WwwDots(name)  == {i \in 1 .. Len(name) - 1 : name[i] = Www /\ name[i + 1] = Dot}
Stripped(name) ==
    FlattenSeq([i \in DOMAIN name |-> IF {i, i - 1} \cap WwwDots(name) = {} THEN <<name[i]>> ELSE <<>>])
SameHost(name) == domain # Star => Stripped(name) = Stripped(domain)

DnsInit ==
    /\ domain \in Domains
    /\ errorCode \in ErrorCodes
    /\ packet = NoPacket /\ asked = NoPacket
    /\ replies = <<>>

(* processNextRequest() finds a packet.                                       *)
ParsePacket == \E p \in Arriving :
    /\ packet = NoPacket
    /\ packet' = p /\ asked' = p
    /\ replies' = <<>>
    /\ UNCHANGED <<domain, errorCode>>

(* There is no memory for the packet: it stays unread, and nothing answers.   *)
NoBuffer ==
    /\ packet = NoPacket
    /\ asked' = NoPacket
    /\ replies' = <<>>
    /\ UNCHANGED <<domain, errorCode, packet>>

(* requestIncludesOnlyOneQuestion()                                           *)
OnlyOneQuestion == packet.qd = 1 /\ packet.an = 0 /\ packet.ns = 0 /\ packet.ar = 0

Redirected == packet.qr = "query" /\ packet.op = 0 /\ OnlyOneQuestion /\ SameHost(packet.name)

Replies(p) ==
    /\ replies' = Append(replies, p)
    /\ packet' = NoPacket
    /\ UNCHANGED <<domain, errorCode, asked>>

(* Mutant: the answer is not counted.                                         *)
ReplyWithIP_Uncounted ==
    /\ packet # NoPacket /\ Redirected
    /\ Replies([packet EXCEPT !.qr = "response", !.body.an = 1])

(* replyWithIP(): the packet as it came, and one answer behind it.            *)
ReplyWithIP ==
    /\ packet # NoPacket /\ Redirected
    /\ Replies([packet EXCEPT !.qr = "response", !.an = packet.qd, !.body.an = 1])

(* replyWithCustomCode(): the header alone; only the question's count is      *)
(* taken back.                                                                *)
ReplyWithCustomCode ==
    /\ packet # NoPacket /\ ~Redirected /\ packet.qr = "query"
    /\ Replies([packet EXCEPT !.qr = "response", !.rcode = errorCode, !.qd = 0,
                              !.body = [qd |-> 0, an |-> 0, ns |-> 0, ar |-> 0]])

Ignore ==
    /\ packet # NoPacket /\ packet.qr # "query"
    /\ packet' = NoPacket
    /\ UNCHANGED <<domain, errorCode, replies, asked>>

DnsNext == ParsePacket \/ NoBuffer \/ ReplyWithIP \/ ReplyWithCustomCode \/ Ignore

DnsSpec == DnsInit /\ [][DnsNext]_dnsVars

-----------------------------------------------------------------------------
(* A packet is well formed when its sections are those its header counts.     *)
WellFormedPacket(p) == p.body = [qd |-> p.qd, an |-> p.an, ns |-> p.ns, ar |-> p.ar]

(* A query that is read is answered once and an answer never, so two servers  *)
(* cannot keep each other busy; the answer belongs to the query; it is well   *)
(* formed, if the query had no section but its questions (processNextRequest  *)
(* 60-71, replyWithIP 117-159, replyWithCustomCode 161-171); and with "*" a   *)
(* plain question of any name gets the address, else that of the own name.    *)
(* A query that finds no memory is not read, and lost (56).                   *)
AnsweredOnceInForm ==
    (asked # NoPacket /\ packet = NoPacket) =>
        /\ Len(replies) = (IF asked.qr = "query" THEN 1 ELSE 0)
        /\ \A i \in DOMAIN replies :
             /\ replies[i].id = asked.id /\ replies[i].qr = "response"
             /\ (asked.an = 0 /\ asked.ns = 0 /\ asked.ar = 0) => WellFormedPacket(replies[i])
             /\ (domain \in {Star, asked.name} /\ asked.op = 0 /\ asked.qd = 1 /\ asked.an + asked.ns + asked.ar = 0)
                  => replies[i].body.an = 1
=============================================================================
