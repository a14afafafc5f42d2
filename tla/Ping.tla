--------------------------------- MODULE Ping ---------------------------------
(* ESP32Ping: ping() sends echo requests one after the other on a raw socket  *)
(* and waits for the answer to each.  The socket gets every ICMP packet that  *)
(* arrives while it is open: late answers, answers sent twice, those to an    *)
(* earlier call, and whatever other hosts send, each of which restarts the    *)
(* socket's timeout.  The memory of a request is never given back.            *)
EXTENDS Naturals, Sequences, FiniteSets

CONSTANTS
    PingCounts,    \* the counts callers give
    DefaultCount,  \* PING_DEFAULT_COUNT
    MaxCalls,      \* bound: calls of ping()
    Heap,          \* bound: requests the memory has room for
    Mailbox,       \* packets the socket holds
    Twice          \* bound: answers that arrive twice

ASSUME PingAssumption ==
    /\ DefaultCount \in Nat \ {0} /\ PingCounts \subseteq Nat
    /\ {MaxCalls, Heap, Mailbox, Twice} \subseteq Nat

VARIABLES
    pingpc,      \* "idle", "next", "recv"
    pings,       \* calls so far
    count,       \* of this call
    seq,         \* ping_seq_num
    transmitted, received,
    heap,        \* room for how many requests
    air,         \* answers under way: [call, seq]
    again,       \* how many may still arrive twice
    mailbox,     \* the socket: packets not read
    noisy,       \* whether other hosts are sending ICMP packets to the node
    counted,     \* history: the answers counted in this call
    result       \* what the last call returned

pingVars  == <<pingpc, pings, count, seq, transmitted, received, heap, air, again, mailbox, noisy, counted, result>>

PingInit ==
    /\ pingpc = "idle" /\ pings = 0
    /\ count = 0 /\ seq = 0 /\ transmitted = 0 /\ received = 0
    /\ heap = Heap /\ again = Twice
    /\ air = {} /\ mailbox = <<>> /\ counted = <<>>
    /\ noisy \in BOOLEAN
    /\ result = FALSE

-----------------------------------------------------------------------------

(* ping_start(): everything but the memory begins anew.                       *)
PingStart == \E n \in PingCounts :
    /\ pingpc = "idle" /\ pings < MaxCalls
    /\ pings' = pings + 1
    /\ count' = IF n = 0 THEN DefaultCount ELSE n
    /\ seq' = 0 /\ transmitted' = 0 /\ received' = 0
    /\ mailbox' = <<>> /\ counted' = <<>>
    /\ pingpc' = "next"
    /\ UNCHANGED <<heap, air, again, noisy, result>>

(* No socket, or no timeout for it.                                           *)
NoSocket ==
    /\ pingpc = "idle" /\ pings < MaxCalls
    /\ pings' = pings + 1
    /\ result' = FALSE
    /\ UNCHANGED <<pingpc, count, seq, transmitted, received, heap, air, again, mailbox, noisy, counted>>

(* ping_send(): sendto() counts as a transmission also when it fails.  When   *)
(* there is no memory the number does not advance: the loop only waits.       *)
PingSend ==
    /\ pingpc = "next" /\ seq < count /\ heap > 0
    /\ heap' = heap - 1
    /\ seq' = seq + 1
    /\ transmitted' = transmitted + 1
    /\ air' \in {air, air \cup {[call |-> pings, seq |-> seq + 1]}}
    /\ pingpc' = "recv"
    /\ UNCHANGED <<pings, count, received, again, mailbox, noisy, counted, result>>

(* An answer arrives, once or twice; a socket that is closed or full loses it.*)
AnswerArrives == \E r \in air :
    /\ \/ air' = air \ {r} /\ UNCHANGED again
       \/ again > 0 /\ again' = again - 1 /\ UNCHANGED air
    /\ mailbox' = IF pingpc # "idle" /\ Len(mailbox) < Mailbox THEN Append(mailbox, r) ELSE mailbox
    /\ UNCHANGED <<pingpc, pings, count, seq, transmitted, received, heap, noisy, counted, result>>

(* The packet of another host.  Which echo it answers is told by the number   *)
(* alone; 0 is any packet that is no answer with PING_ID.                     *)
ForeignArrives == \E number \in 0 .. count :
    /\ noisy /\ pingpc # "idle" /\ Len(mailbox) < Mailbox
    /\ mailbox' = Append(mailbox, [call |-> 0, seq |-> number])
    /\ UNCHANGED <<pingpc, pings, count, seq, transmitted, received, heap, air, again, noisy, counted, result>>

(* They begin or end to send.                                                 *)
Noise ==
    /\ noisy' = ~noisy
    /\ UNCHANGED <<pingpc, pings, count, seq, transmitted, received, heap, air, again, mailbox, counted, result>>

(* Mutant: the wait goes on after the answer, for the rest of its time.        *)
PingRecv_StaysListening ==
    /\ pingpc = "recv" /\ mailbox # <<>>
    /\ mailbox' = Tail(mailbox)
    /\ IF Head(mailbox).seq = seq
       THEN received' = received + 1 /\ counted' = Append(counted, Head(mailbox))
       ELSE UNCHANGED <<received, counted>>
    /\ UNCHANGED <<pingpc, pings, count, seq, transmitted, heap, air, again, noisy, result>>

(* ping_recv() looks at the number, not at the sender, and reads on past what *)
(* does not fit.                                                              *)
PingRecv ==
    /\ pingpc = "recv" /\ mailbox # <<>>
    /\ mailbox' = Tail(mailbox)
    /\ IF Head(mailbox).seq = seq
       THEN received' = received + 1 /\ counted' = Append(counted, Head(mailbox)) /\ pingpc' = "next"
       ELSE UNCHANGED <<received, counted, pingpc>>
    /\ UNCHANGED <<pings, count, seq, transmitted, heap, air, again, noisy, result>>

(* Mutant: the socket's timeout ends the wait only when something has come.   *)
RecvTimeout_Waits ==
    /\ pingpc = "recv" /\ mailbox = <<>> /\ counted # <<>>
    /\ pingpc' = "next"
    /\ UNCHANGED <<pings, count, seq, transmitted, received, heap, air, again, mailbox, noisy, counted, result>>

(* SO_RCVTIMEO: nothing came for a while after the last packet.               *)
RecvTimeout ==
    /\ pingpc = "recv" /\ mailbox = <<>>
    /\ pingpc' = "next"
    /\ UNCHANGED <<pings, count, seq, transmitted, received, heap, air, again, mailbox, noisy, counted, result>>

PingEnds ==
    /\ pingpc = "next" /\ seq >= count
    /\ result' = (received > 0)
    /\ pingpc' = "idle"
    /\ UNCHANGED <<pings, count, seq, transmitted, received, heap, air, again, mailbox, noisy, counted>>

PingStep == PingSend \/ PingRecv \/ RecvTimeout \/ PingEnds

PingNext == PingStart \/ NoSocket \/ PingStep \/ AnswerArrives \/ ForeignArrives \/ Noise

PingSpec == PingInit /\ [][PingNext]_pingVars

-----------------------------------------------------------------------------
(* However late, often or out of order answers arrive, each request of a call *)
(* is counted at most once and never more answers than requests, so that the  *)
(* loss printed at the end lies between none and all (148-226, 318-345).      *)
CountsAddUp ==
    /\ received <= transmitted /\ transmitted <= count
    /\ \A i, j \in DOMAIN counted : i < j => counted[i].seq < counted[j].seq

(* A call returns, unless the memory that no call gives back (130-133) has    *)
(* run out, and unless ICMP traffic of other hosts goes on for ever: each     *)
(* packet the raw socket gets restarts the timeout (165), also one that       *)
(* answers nothing, and keeps ping_recv() in its loop.                        *)
PingReturns ==
    <>[]~noisy => ((pingpc # "idle") ~> (pingpc = "idle" \/ heap = 0))
=============================================================================
