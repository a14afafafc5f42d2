----------------------------- MODULE MqttPacket -----------------------------
(* The packet sizes of the node's MQTT client (PubSubClient): how publish,    *)
(* publish_P and beginPublish announce a packet's length and what they say of *)
(* the bytes the socket took, and how readPacket recovers the length of a     *)
(* packet of the broker.  Integers keep the width the code gives them.        *)
(* Topics and payloads are their lengths.                                     *)
EXTENDS Integers, Sequences

CONSTANTS
    MaxPacket,   \* MQTT_MAX_PACKET_SIZE
    HeaderMax,   \* MQTT_MAX_HEADER_SIZE
    TopicLens,   \* lengths of topics tried
    PayloadLens  \* lengths of payloads tried

Word == 65536   \* the values of a uint16_t
Base == 128     \* the values of a digit of the length field

ASSUME PacketAssumption ==
    /\ HeaderMax = 5
    /\ MaxPacket \in HeaderMax + 2 .. Word - 1
    /\ PayloadLens \subseteq Nat
    /\ \A t \in TopicLens : t \in Nat /\ HeaderMax + 2 + t <= MaxPacket

VARIABLES
    op,       \* the call, "receive" for a packet of the broker
    tl, pl,   \* topic length, payload length
    idlen,    \* bytes of the message id in a received PUBLISH: 0 or 2
    stream,   \* the client has a stream
    ppc,      \* where the call is
    rest,     \* buildHeader's len: what is left to encode
    digits,   \* the length field: bytes of 7 bits and a continuation bit
    ret,      \* writers: what the call returns
    taken,    \* writers: how many bytes the socket took
    len,      \* readPacket's len
    length,   \* readPacket's length
    weight,   \* readPacket's multiplier
    eaten     \* how many bytes readPacket took from the socket

callVars   == <<op, tl, pl, idlen, stream>>
writeVars  == <<rest, digits, ret, taken>>
readVars   == <<len, length, weight, eaten>>
packetVars == <<callVars, ppc, writeVars, readVars>>

Writers == {"publish", "publish_P", "beginPublish"}

(* What follows the fixed header of the packet: topic, message id, payload.   *)
Body == 2 + tl + idlen + pl

(* buffer[..] values of the length field.                                     *)
Value(b)     == b % Base
Continues(b) == b >= Base

PacketInit ==
    /\ op \in Writers \cup {"receive", "garbled"}
    /\ tl \in TopicLens
    /\ pl \in PayloadLens
    /\ idlen \in IF op = "receive" THEN {0, 2} ELSE {0}
    /\ stream \in IF op = "receive" THEN BOOLEAN ELSE {FALSE}
    /\ ppc = IF op = "garbled" THEN "digit" ELSE "call"
    /\ rest = 0
    /\ digits = IF op = "garbled" THEN <<Base, Base, Base, Base, 1>> ELSE <<>>
    /\ ret = FALSE
    /\ taken = 0
    /\ len = IF op = "garbled" THEN 1 ELSE 0
    /\ length = 0
    /\ weight = 1
    /\ eaten = IF op = "garbled" THEN 1 ELSE 0

-----------------------------------------------------------------------------
(* The writers.                                                               *)

(* publish: a packet that does not fit behind the room for the header is      *)
(* refused; otherwise the body is laid out in the buffer.                     *)
PublishBuffered ==
    /\ ppc = "call" /\ op = "publish"
    /\ IF MaxPacket < HeaderMax + 2 + tl + pl
       THEN ppc' = "done" /\ UNCHANGED rest
       ELSE ppc' = "encode" /\ rest' = (HeaderMax + 2 + tl + pl) - HeaderMax
    /\ UNCHANGED <<callVars, digits, ret, taken, readVars>>

(* publish_P: the length is an unsigned int, the payload is not buffered.     *)
PublishP ==
    /\ ppc = "call" /\ op = "publish_P"
    /\ ppc' = "encode"
    /\ rest' = pl + 2 + tl
    /\ UNCHANGED <<callVars, digits, ret, taken, readVars>>

(* beginPublish: buildHeader takes the sum as a uint16_t.                     *)
BeginPublish ==
    /\ ppc = "call" /\ op = "beginPublish"
    /\ ppc' = "encode"
    /\ rest' = (pl + (HeaderMax + 2 + tl) - HeaderMax) % Word
    /\ UNCHANGED <<callVars, digits, ret, taken, readVars>>

(* The broker encodes its packet by the same rule, whatever its size.         *)
BrokerSends ==
    /\ ppc = "call" /\ op = "receive"
    /\ ppc' = "encode"
    /\ rest' = Body
    /\ UNCHANGED <<callVars, digits, ret, taken, readVars>>

(* The next digit of the length field, with its continuation bit.             *)
PutDigit(more) ==
    /\ digits' = Append(digits, (rest % Base) + (IF more THEN Base ELSE 0))
    /\ rest' = rest \div Base
    /\ ppc' = IF rest \div Base > 0 THEN "encode"
              ELSE IF op = "receive" THEN "read" ELSE "write"

(* Mutant: the continuation bit is set one too late.                          *)
EncodeDigit_LateBit ==
    /\ ppc = "encode"
    /\ PutDigit(rest > Base)
    /\ UNCHANGED <<callVars, ret, taken, readVars>>

(* buildHeader's loop (and publish_P's own copy of it).                       *)
EncodeDigit ==
    /\ ppc = "encode"
    /\ PutDigit(rest \div Base > 0)
    /\ UNCHANGED <<callVars, ret, taken, readVars>>

(* buildHeader: the fixed header, length field included.                      *)
HeaderLength == 1 + Len(digits)

(* The bytes each writer gives to the socket itself; beginPublish leaves the  *)
(* payload to later calls of write().                                         *)
Given == HeaderLength + 2 + tl + (IF op = "beginPublish" THEN 0 ELSE pl)

(* The socket takes all bytes, all but one or none.                           *)
Takes == {n \in {0, Given - 1, Given} : n >= 0}

(* The calls compare what the socket took with what they meant to write.      *)
Write ==
    /\ ppc = "write"
    /\ ppc' = "done"
    /\ taken' \in Takes
    /\ ret' = IF op = "publish_P" THEN taken' = tl + 4 + pl
              ELSE taken' % Word = Given
    /\ UNCHANGED <<callVars, rest, digits, readVars>>

-----------------------------------------------------------------------------
(* The reader.                                                                *)

(* readPacket: the type byte.                                                 *)
ReadType ==
    /\ ppc = "read"
    /\ ppc' = "digit"
    /\ len' = 1
    /\ eaten' = 1
    /\ UNCHANGED <<callVars, writeVars, length, weight>>

(* One digit of the length field, of the given weight, is read.               *)
TakeDigit(total, next) ==
    LET b == digits[len] IN
    /\ len' = len + 1
    /\ eaten' = eaten + 1
    /\ length' = total
    /\ weight' = next
    /\ ppc' = IF Continues(b) THEN "digit" ELSE "body"

CloseInvalid ==
    /\ ppc' = "closed"
    /\ len' = 0
    /\ UNCHANGED <<eaten, length, weight>>

(* Mutant: the weight is not multiplied.                                      *)
ReadDigit_SameWeight ==
    /\ ppc = "digit"
    /\ IF len = 5 THEN CloseInvalid
       ELSE TakeDigit((length + Value(digits[len]) * weight) % Word, weight)
    /\ UNCHANGED <<callVars, writeVars>>

(* readPacket's loop over the length field: length is a uint16_t, and a fifth *)
(* digit closes the connection.                                               *)
ReadDigit ==
    /\ ppc = "digit"
    /\ IF len = 5 THEN CloseInvalid
       ELSE TakeDigit((length + Value(digits[len]) * weight) % Word, weight * Base)
    /\ UNCHANGED <<callVars, writeVars>>

AtLeastZero(n) == IF n < 0 THEN 0 ELSE n

(* n more bytes are read; len is a uint16_t too.  Without a stream a packet   *)
(* larger than the buffer is dropped by returning 0.                          *)
TakeBytes(n) ==
    LET end == (len + n) % Word IN
    /\ ppc' = "done"
    /\ eaten' = eaten + n
    /\ len' = IF ~stream /\ end > MaxPacket THEN 0 ELSE end

(* readPacket of a PUBLISH: the topic's length, then the rest byte by byte.   *)
ReadBody ==
    /\ ppc = "body"
    /\ TakeBytes(2 + AtLeastZero(length - 2))
    /\ UNCHANGED <<callVars, writeVars, length, weight>>

(* readPacket: len-*lengthLength-2 > skip, for the bytes after the header.    *)
Streamed ==
    LET skip == (tl + idlen) % Word
        end  == 1 + Len(digits) + 2 + AtLeastZero(length - 2)
    IN  AtLeastZero((IF end < Word THEN end ELSE Word) - (Len(digits) + 3 + skip))

(* loop(): the callback runs, and the payload length it is given.             *)
CallbackRuns == op = "receive" /\ ppc = "done" /\ len > 0
CallbackLen  == len - Len(digits) - 3 - tl - idlen

PacketNext ==
    \/ PublishBuffered \/ PublishP \/ BeginPublish \/ BrokerSends
    \/ EncodeDigit \/ Write \/ ReadType \/ ReadDigit \/ ReadBody

PacketSpec == PacketInit /\ [][PacketNext]_packetVars

-----------------------------------------------------------------------------
(* What the code gets right, for packets whose length fits the uint16_t it is *)
(* kept in.                                                                   *)

(* What a length field announces to whoever reads it; it has four digits at   *)
(* most.                                                                      *)
Announced ==
    LET digit(i) == IF i \in DOMAIN digits THEN Value(digits[i]) ELSE 0
    IN  digit(1) + Base * (digit(2) + Base * (digit(3) + Base * digit(4)))

WellFormed ==
    /\ Len(digits) \in 1 .. 4
    /\ \A i \in 1 .. Len(digits) : Continues(digits[i]) <=> i < Len(digits)

(* Whatever a writer puts on the wire is a packet: its length field is well   *)
(* formed and announces the bytes that follow, up to the first size a         *)
(* uint16_t cannot hold (buildHeader 483-504, publish_P 427-436).  What       *)
(* publish() accepts (382) is never too large for a subscriber that runs this *)
(* library with the same buffer (295), whose bound is another one.  A call    *)
(* reports success exactly when the socket took every byte it had to write    *)
(* (write 524-526, beginPublish 461-464); publish_P, which counts one byte of *)
(* length field (448), only up to where a second one is needed.               *)
WrittenAsMeant ==
    /\ (ppc \in {"write", "read"} /\ Body < Word) => (WellFormed /\ Announced = Body)
    /\ (op = "publish" /\ ppc = "write") => HeaderLength + Body <= MaxPacket
    /\ (op \in Writers /\ ppc = "done" /\ (op = "publish_P" => Body < Base)) =>
         (ret <=> (digits # <<>> /\ taken = Given))

(* readPacket takes exactly the bytes of the packet from the socket, so the   *)
(* next call finds the start of the next packet (246-300).  A packet that     *)
(* fits the buffer is handed over with its exact payload length; one that     *)
(* does not is dropped without a stream and written to the stream whole with  *)
(* one (284-297, loop 327-349).  A length field without an end closes the     *)
(* connection after four digits (257-262).                                    *)
ReadAsWritten ==
    /\ (op = "receive" /\ ppc = "done" /\ Body < Word) =>
         eaten = 1 + Len(digits) + Body
    /\ (op = "receive" /\ ppc = "done" /\ HeaderLength + Body < Word) =>
         /\ CallbackRuns <=> (stream \/ HeaderLength + Body <= MaxPacket)
         /\ CallbackRuns => CallbackLen = pl
         /\ stream => Streamed = pl
    /\ (op = "garbled") => (ppc \notin {"body", "done"} /\ eaten <= 5)
=============================================================================
